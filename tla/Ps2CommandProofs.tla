--------------------------- MODULE Ps2CommandProofs ---------------------------
(***************************************************************************)
(* Ps2Command for every timeout, frame length, set of keys and number of   *)
(* faults: in no interleaving of ps2init(), the two interrupt handlers and *)
(* the keyboard does the DMA record what the host does to the line, and    *)
(* between commands the driver listens.                                    *)
(***************************************************************************)
EXTENDS Ps2Command, TLAPS

Keys == Responses \cup LockKeys
HostBytes == [name : {"RESET", "SETLED", "LEDS", "RESEND"}, leds : SUBSET LockKeys]

Globals ==
  [ps2status : Phases, ps2statuscount : Nat,
   ps2sendcomdata : Seq(HostBytes), ps2sendcombyte : {0, 1, 2},
   ps2sending : BOOLEAN, ps2sendError : BOOLEAN,
   receivecount : {0, 1, 2}, ps2receivetime : Nat, ps2receiveError : BOOLEAN,
   ps2receivecommand : Responses \cup {"none"}, scancodebuf : Seq(LockKeys),
   lock : SUBSET LockKeys, dma : BOOLEAN, clkint : BOOLEAN, clklow : BOOLEAN]

Edges == [kind : {"start", "bits"}, byte : {"none"}] \cup [kind : {"end"}, byte : Keys \cup {"bad"}]

ProgramStates ==
  [pc : {"spin", "call", "drain", "fill", "status", "count", "ok", "failed"},
   bytes : Seq(HostBytes), preempted : BOOLEAN]

Keyboards ==
  [frame : 0 .. FrameTicks - 1, sent : BOOLEAN,
   replies : Seq(Responses), keys : Seq(LockKeys), last : Keys,
   leds : SUBSET LockKeys, arg : BOOLEAN, bat : BOOLEAN]

Types ==
  /\ main \in ProgramStates /\ dev \in Keyboards
  /\ edges = <<>> \/ \E e \in Edges : edges = <<e>>
  /\ Len(main.bytes) <= 2
  /\ dev.frame > 0 => Waiting

(* The line in each phase.  The DMA records unless the host clocks a byte   *)
(* out or holds CLK low.                                                    *)
Line(g) ==
  /\ g.ps2status \in {"INIT", "0"} => ~g.clkint /\ ~g.ps2sending
  /\ g.ps2status = "INIT" => ~g.dma
  /\ g.ps2status \in {"0", "SENDSTART"} => ~g.clkint /\ (g.dma => ~g.clklow)
  /\ g.ps2status = "WAIT100us" => ~g.dma /\ ~g.clkint /\ g.clklow /\ g.ps2sending
  /\ g.ps2status = "SENDING" =>
       ~g.clklow /\ (g.ps2sending <=> g.clkint) /\ (g.ps2sending <=> ~g.dma)
  /\ g.ps2status \in {"WAITACK", "WAITBAT"} =>
       g.dma /\ ~g.clkint /\ ~g.clklow /\ ~g.ps2sending

(* The bytes of a command that are still to be sent are there, and one is    *)
(* while it is being sent and answered.                                     *)
Held(g) ==
  /\ g.ps2sendcombyte <= Len(g.ps2sendcomdata)
  /\ g.ps2status \in {"SENDSTART", "WAIT100us", "SENDING", "WAITACK"} => g.ps2sendcombyte > 0

Good(g) == g \in Globals /\ Held(g) /\ Line(g)

(* A byte goes out only between frames of the keyboard. *)
NoFrame == h.ps2status = "WAIT100us" \/ Requested => dev.frame = 0

(* How far a command can be that ps2command() in the program has begun.     *)
Progress ==
  /\ h.ps2status = "INIT" => main.pc = "spin" /\ main.bytes = <<>>
  /\ InCall => main.bytes # <<>>
  /\ main.pc \in {"call", "drain", "fill", "status"} =>
       h.ps2status = "0" \/ (h.ps2status = "SENDSTART" /\ main.preempted)
  /\ main.pc = "count" =>
       h.ps2status = "SENDSTART" \/ (h.ps2status = "WAIT100us" /\ main.preempted)
  /\ main.pc \in {"fill", "status"} => ~h.dma /\ ~h.clkint
  /\ main.pc = "status" => h.ps2sendcombyte > 0

(* ps2init() has sent something: the driver listens until it sends again.   *)
Listens == h.ps2status = "0" /\ main.bytes # <<>> /\ ~InCall => h.dma

Inv == Types /\ Good(h) /\ NoFrame /\ Progress /\ Listens

-----------------------------------------------------------------------------
(* What of the globals the state of the line depends on. *)
SameLine(g, n) ==
  /\ n.ps2status = g.ps2status /\ n.ps2sending = g.ps2sending
  /\ n.dma = g.dma /\ n.clkint = g.clkint /\ n.clklow = g.clklow
  /\ n.ps2sendcombyte = g.ps2sendcombyte /\ n.ps2sendcomdata = g.ps2sendcomdata

LEMMA SameLineIsGood ==
  ASSUME NEW g, Good(g), NEW n \in Globals, SameLine(g, n)
  PROVE  Good(n)
BY DEF Good, Held, Line, SameLine

(* Receiving changes nothing of it. *)
LEMMA GotFacts ==
  ASSUME NEW g \in Globals, NEW b \in Keys
  PROVE  Got(g, b) \in Globals /\ SameLine(g, Got(g, b))
<1>1. CASE b \in Responses
  BY <1>1 DEF Got, Globals, SameLine
<1>2. CASE b \notin Responses
  <2>1. Append(g.scancodebuf, b) \in Seq(LockKeys)
    BY <1>2 DEF Keys, Globals
  <2>2. Got(g, b) = [g EXCEPT !.receivecount = 0, !.scancodebuf = Append(g.scancodebuf, b)]
    BY <1>2 DEF Got, Globals
  <2> QED BY <2>1, <2>2 DEF Globals, SameLine
<1> QED BY <1>1, <1>2

LEMMA ReceiveFacts ==
  ASSUME NEW g \in Globals, NEW e \in Edges, NEW n \in Receive(g, e)
  PROVE  n \in Globals /\ SameLine(g, n)
<1> DEFINE Fine(x) == x \in Globals /\ SameLine(g, x)
<1> SUFFICES Fine(n)
  OBVIOUS
<1>1. Fine(g) /\ Fine(Error(g))
  BY DEF Error, Globals, SameLine
<1>2. /\ Fine([g EXCEPT !.receivecount = 1, !.ps2receivetime = 0])
      /\ Fine([g EXCEPT !.receivecount = 2, !.ps2receivetime = 0])
      /\ Fine([g EXCEPT !.receivecount = 2])
  <2>1. \A c \in {0, 1, 2} :
          LET x == [g EXCEPT !.receivecount = c] IN x \in Globals /\ SameLine(g, x)
    BY DEF Globals, SameLine
  <2>2. \A c \in {0, 1, 2} :
          LET x == [g EXCEPT !.receivecount = c, !.ps2receivetime = 0]
          IN  x \in Globals /\ SameLine(g, x)
    <3>1. 0 \in Nat
      OBVIOUS
    <3> QED BY <3>1, Zenon DEF Globals, SameLine
  <2> QED BY <2>1, <2>2
<1>3. \A b \in Keys : Fine(Got(g, b))
  BY GotFacts
<1>4. \A x \in Misread(g) : Fine(x)
  BY <1>1, <1>3 DEF Misread, Keys, Responses
<1>5. e.kind = "end" => e.byte \in Keys \cup {"bad"}
  BY DEF Edges
<1>6. e.kind \in {"start", "bits", "end"} /\ g.receivecount \in {0, 1, 2}
  BY DEF Edges, Globals
<1> HIDE DEF Fine
<1>7. CASE g.ps2receiveError
  BY <1>1, <1>7 DEF Receive
<1>8. CASE ~g.ps2receiveError /\ e.kind = "start"
  BY <1>1, <1>2, <1>8 DEF Receive
<1>9. CASE ~g.ps2receiveError /\ e.kind = "bits"
  BY <1>1, <1>2, <1>9 DEF Receive
<1>10. CASE ~g.ps2receiveError /\ e.kind = "end"
  <2>1. CASE g.receivecount = 0
    BY <1>1, <1>2, <1>10, <2>1 DEF Receive
  <2>2. CASE g.receivecount = 1 /\ e.byte = "bad"
    BY <1>1, <1>10, <2>2 DEF Receive
  <2>3. CASE g.receivecount = 1 /\ e.byte # "bad"
    BY <1>3, <1>5, <1>10, <2>3 DEF Receive
  <2>4. CASE g.receivecount = 2
    BY <1>4, <1>10, <2>4 DEF Receive
  <2> QED BY <1>6, <2>1, <2>2, <2>3, <2>4
<1> QED BY <1>6, <1>7, <1>8, <1>9, <1>10

LEMMA GetDMABUFdataFacts ==
  ASSUME Types, NEW g \in Globals, NEW n \in GetDMABUFdata(g)
  PROVE  n \in Globals /\ SameLine(g, n)
<1>1. CASE edges = <<>>
  BY <1>1 DEF GetDMABUFdata, SameLine
<1>2. CASE edges # <<>>
  <2>1. edges[1] \in Edges
    BY <1>2 DEF Types
  <2> QED BY <1>2, <2>1, ReceiveFacts DEF GetDMABUFdata
<1> QED BY <1>1, <1>2

-----------------------------------------------------------------------------
(* How an interrupt may move a command on. *)
Moves(g, n) ==
  /\ n.ps2status = "INIT" => g.ps2status = "INIT"
  /\ g.ps2status = "0" =>
       n.ps2status \in {"0", "SENDSTART"} /\ (n.ps2status = "0" => n.dma = g.dma)
       /\ (n.ps2status = "0" => n.ps2sendcombyte = g.ps2sendcombyte)
       /\ (n.dma => g.dma)
  /\ g.ps2status = "SENDSTART" => n.ps2status \in {"SENDSTART", "WAIT100us"}
  /\ n.ps2status = "0" => g.ps2status \in {"0", "INIT"} \/ n.dma
  /\ n.ps2status = "SENDING" /\ n.ps2sending =>
       g.ps2status = "WAIT100us" \/ (g.ps2status = "SENDING" /\ g.ps2sending)

LEMMA Times ==
  /\ PS2TIME_CLKDOWN \in Nat /\ PS2TIME_PRESEND \in Nat /\ PS2TIME_CMDTIMEOUT \in Nat
  /\ PS2TIME_ACKTIMEOUT \in Nat /\ PS2TIME_BATTIMEOUT \in Nat /\ PS2TIME_INIT \in Nat
BY TimesAssumption

LEMMA EnterFacts ==
  ASSUME NEW g \in Globals, NEW phase \in Phases, NEW time \in Nat
  PROVE  /\ Enter(g, phase, time) \in Globals
         /\ Enter(g, phase, time).ps2status = phase
         /\ Enter(g, phase, time).ps2sending = g.ps2sending
         /\ Enter(g, phase, time).dma = g.dma
         /\ Enter(g, phase, time).clkint = g.clkint
         /\ Enter(g, phase, time).clklow = g.clklow
         /\ Enter(g, phase, time).ps2sendcombyte = g.ps2sendcombyte
         /\ Enter(g, phase, time).ps2sendcomdata = g.ps2sendcomdata
<1>1. Enter(g, phase, time) \in Globals
  BY Zenon DEF Enter, Globals
<1> QED BY <1>1 DEF Enter, Globals

LEMMA FinishFacts ==
  ASSUME NEW g \in Globals
  PROVE  /\ Finish(g) \in Globals /\ Finish(g).ps2status = "0"
         /\ Finish(g).ps2sending = g.ps2sending /\ Finish(g).dma = g.dma
         /\ Finish(g).clkint = g.clkint /\ Finish(g).clklow = g.clklow
         /\ Finish(g).ps2sendcombyte = g.ps2sendcombyte
         /\ Finish(g).ps2sendcomdata = g.ps2sendcomdata
<1>1. "0" \in Phases
  BY DEF Phases
<1>2. Finish(g) \in Globals
  BY <1>1, Zenon DEF Finish, Globals
<1> QED BY <1>2 DEF Finish, Globals

LEMMA ProgressInitFacts ==
  ASSUME NEW g, Good(g), g.ps2status = "INIT", NEW n, n = ProgressInit(g)
  PROVE  Good(n) /\ Moves(g, n)
<1>1. g \in Globals /\ Held(g) /\ Line(g) /\ n \in {g, Finish(g)}
  BY DEF Good, ProgressInit
<1>2. n \in Globals /\ n.ps2status \in {"0", "INIT"} /\ n.ps2sending = g.ps2sending
      /\ n.dma = g.dma /\ n.clkint = g.clkint
      /\ n.ps2sendcombyte = g.ps2sendcombyte /\ n.ps2sendcomdata = g.ps2sendcomdata
  BY <1>1, FinishFacts
<1> QED BY <1>1, <1>2 DEF Good, Held, Line, Moves

LEMMA ProgressSendStartFacts ==
  ASSUME NEW g, Good(g), g.ps2status = "SENDSTART", NEW n, n = ProgressSendStart(g)
  PROVE  Good(n) /\ Moves(g, n)
<1>1. CASE g.ps2statuscount # 0
  BY <1>1 DEF ProgressSendStart, Moves
<1>2. CASE g.ps2statuscount = 0
  <2> DEFINE e == Enter(g, "WAIT100us", PS2TIME_CLKDOWN)
  <2>1. n = [e EXCEPT !.clkint = FALSE, !.dma = FALSE, !.clklow = TRUE,
                      !.receivecount = 0, !.ps2sending = TRUE]
    BY <1>2 DEF ProgressSendStart
  <2>2. /\ e \in Globals /\ e.ps2status = "WAIT100us"
        /\ e.ps2sendcombyte = g.ps2sendcombyte /\ e.ps2sendcomdata = g.ps2sendcomdata
    BY EnterFacts, Times DEF Good, Phases
  <2> HIDE DEF e
  <2>3. n \in Globals
    BY <2>1, <2>2, Zenon DEF Globals
  <2> QED BY <2>1, <2>2, <2>3 DEF Good, Held, Line, Moves, Globals
<1> QED BY <1>1, <1>2

LEMMA ProgressWait100usFacts ==
  ASSUME NEW g, Good(g), g.ps2status = "WAIT100us", NEW n, n = ProgressWait100us(g)
  PROVE  Good(n) /\ Moves(g, n)
<1>1. CASE g.ps2statuscount # 0
  BY <1>1 DEF ProgressWait100us, Moves
<1>2. CASE g.ps2statuscount = 0
  <2> DEFINE e == Enter(g, "SENDING", PS2TIME_CMDTIMEOUT)
  <2>1. n = [e EXCEPT !.clklow = FALSE, !.clkint = TRUE]
    BY <1>2 DEF ProgressWait100us
  <2>2. /\ e \in Globals /\ e.ps2status = "SENDING"
        /\ e.ps2sending = g.ps2sending /\ e.dma = g.dma
        /\ e.ps2sendcombyte = g.ps2sendcombyte /\ e.ps2sendcomdata = g.ps2sendcomdata
    BY EnterFacts, Times DEF Good, Phases
  <2> HIDE DEF e
  <2>3. n \in Globals
    BY <2>1, <2>2, Zenon DEF Globals
  <2> QED BY <2>1, <2>2, <2>3 DEF Good, Held, Line, Moves, Globals
<1> QED BY <1>1, <1>2

LEMMA ProgressSendingFacts ==
  ASSUME NEW g, Good(g), g.ps2status = "SENDING", NEW n, n = ProgressSending(g)
  PROVE  Good(n) /\ Moves(g, n)
<1>0. g \in Globals /\ Held(g) /\ Line(g)
  BY DEF Good
<1>1. CASE ~g.ps2sending /\ Sent(g) = "RESEND"
  <2>1. n = Finish(g)
    BY <1>1 DEF ProgressSending
  <2>2. /\ n \in Globals /\ n.ps2status = "0" /\ n.ps2sending = g.ps2sending
        /\ n.dma = g.dma /\ n.clkint = g.clkint /\ n.clklow = g.clklow
        /\ n.ps2sendcombyte = g.ps2sendcombyte /\ n.ps2sendcomdata = g.ps2sendcomdata
    BY <1>0, <2>1, FinishFacts
  <2> QED BY <1>0, <1>1, <2>2 DEF Good, Held, Line, Moves
<1>2. CASE ~g.ps2sending /\ Sent(g) # "RESEND"
  <2> DEFINE e == Enter(g, "WAITACK", PS2TIME_ACKTIMEOUT)
  <2>1. n = [e EXCEPT !.ps2receiveError = FALSE]
    BY <1>2 DEF ProgressSending
  <2>2. /\ e \in Globals /\ e.ps2status = "WAITACK"
        /\ e.ps2sending = g.ps2sending /\ e.dma = g.dma
        /\ e.clkint = g.clkint /\ e.clklow = g.clklow
        /\ e.ps2sendcombyte = g.ps2sendcombyte /\ e.ps2sendcomdata = g.ps2sendcomdata
    BY <1>0, EnterFacts, FinishFacts, Times DEF Phases
  <2> HIDE DEF e
  <2>3. n \in Globals
    BY <2>1, <2>2, Zenon DEF Globals
  <2> QED BY <1>0, <1>2, <2>1, <2>2, <2>3 DEF Good, Held, Line, Moves, Globals
<1>3. CASE g.ps2sending /\ g.ps2statuscount = 0
  <2> DEFINE e == Finish(g)
  <2>1. n = [e EXCEPT !.ps2sendError = TRUE, !.ps2sending = FALSE,
                      !.clkint = FALSE, !.dma = TRUE]
    BY <1>3 DEF ProgressSending
  <2>2. /\ e \in Globals /\ e.ps2status = "0" /\ e.clklow = g.clklow
        /\ e.ps2sendcombyte = g.ps2sendcombyte /\ e.ps2sendcomdata = g.ps2sendcomdata
    BY <1>0, EnterFacts, FinishFacts, Times DEF Phases
  <2> HIDE DEF e
  <2>3. n \in Globals
    BY <2>1, <2>2, Zenon DEF Globals
  <2> QED BY <1>0, <2>1, <2>2, <2>3 DEF Good, Held, Line, Moves, Globals
<1>4. CASE g.ps2sending /\ g.ps2statuscount # 0
  BY <1>4 DEF ProgressSending, Moves
<1> QED BY <1>1, <1>2, <1>3, <1>4

(* What is sent again, and what follows an answer. *)
LEMMA SendAgainFacts ==
  ASSUME NEW g \in Globals, Held(g), g.ps2sendcombyte > 0,
         g.dma, ~g.clkint, ~g.clklow, NEW n, n = SendAgain(g)
  PROVE  Good(n) /\ n.ps2status = "SENDSTART"
<1> DEFINE e == Enter(g, "SENDSTART", PS2TIME_PRESEND)
<1>1. n = [e EXCEPT !.ps2sending = TRUE]
  BY DEF SendAgain
<1>2. /\ e \in Globals /\ e.ps2status = "SENDSTART"
      /\ e.dma = g.dma /\ e.clkint = g.clkint /\ e.clklow = g.clklow
      /\ e.ps2sendcombyte = g.ps2sendcombyte /\ e.ps2sendcomdata = g.ps2sendcomdata
  <2>1. "SENDSTART" \in Phases
    BY DEF Phases
  <2>2. e \in Globals
    BY <2>1, EnterFacts, Times
  <2> QED BY <2>2 DEF Enter, Globals
<1> HIDE DEF e
<1>3. n \in Globals
  BY <1>1, <1>2, Zenon DEF Globals
<1> QED BY <1>1, <1>2, <1>3 DEF Good, Held, Line, Globals

LEMMA ProgressWaitAckFacts ==
  ASSUME NEW g0, Good(g0), g0.ps2status = "WAITACK", NEW n, n = ProgressWaitAck(g0)
  PROVE  Good(n) /\ Moves(g0, n)
<1> DEFINE g == [g0 EXCEPT !.ps2receivecommand = "none"]
           answer == g0.ps2receivecommand
<1>1. g0 \in Globals /\ Held(g0) /\ g0.dma /\ ~g0.clkint /\ ~g0.clklow /\ ~g0.ps2sending
  BY DEF Good, Line
<1>2. g \in Globals
  BY <1>1, Zenon DEF Globals
<1>3. /\ Held(g) /\ g.dma /\ ~g.clkint /\ ~g.clklow /\ ~g.ps2sending
      /\ g.ps2status = "WAITACK" /\ g.ps2sendcombyte = g0.ps2sendcombyte
      /\ g.ps2sendcomdata = g0.ps2sendcomdata
  BY <1>1, <1>2 DEF Globals, Held
<1>4. n = CASE answer = "RESEND" -> SendAgain(g)
            [] answer = "ACK" /\ Sent(g) = "RESET" ->
                 [Enter(g, "WAITBAT", PS2TIME_BATTIMEOUT) EXCEPT
                    !.ps2sendcombyte = 0, !.ps2receiveError = FALSE]
            [] (answer = "ACK" /\ Sent(g) # "RESET") \/ answer \in {"BAT", "ODD"} ->
                 IF g.ps2sendcombyte > 1
                 THEN SendAgain([g EXCEPT !.ps2sendcombyte = @ - 1,
                                          !.ps2sendcomdata = Tail(@)])
                 ELSE [Finish(g) EXCEPT !.ps2sendcombyte = 0]
            [] answer = "none" /\ g.ps2statuscount = 0 ->
                 [Finish(g) EXCEPT !.ps2sendError = TRUE, !.ps2sendcombyte = 0]
            [] OTHER -> g
  BY DEF ProgressWaitAck
<1> HIDE DEF g
<1>5. CASE n = SendAgain(g)
  BY <1>2, <1>3, <1>5, SendAgainFacts DEF Moves, Held
<1>6. CASE n = [Enter(g, "WAITBAT", PS2TIME_BATTIMEOUT) EXCEPT
                  !.ps2sendcombyte = 0, !.ps2receiveError = FALSE]
  <2> DEFINE e == Enter(g, "WAITBAT", PS2TIME_BATTIMEOUT)
  <2>1. /\ e \in Globals /\ e.ps2status = "WAITBAT"
        /\ e.dma /\ ~e.clkint /\ ~e.clklow /\ ~e.ps2sending
    <3>1. "WAITBAT" \in Phases
      BY DEF Phases
    <3>2. e \in Globals
      BY <1>2, <3>1, EnterFacts, Times
    <3> QED BY <1>2, <1>3, <3>2 DEF Enter, Globals
  <2> HIDE DEF e
  <2>2. n = [e EXCEPT !.ps2sendcombyte = 0, !.ps2receiveError = FALSE]
    BY <1>6 DEF e
  <2>3. n \in Globals
    BY <2>1, <2>2, Zenon DEF Globals
  <2> QED BY <2>1, <2>2, <2>3 DEF Good, Held, Line, Moves, Globals
<1>7. CASE /\ g.ps2sendcombyte > 1
           /\ n = SendAgain([g EXCEPT !.ps2sendcombyte = @ - 1, !.ps2sendcomdata = Tail(@)])
  <2> DEFINE e == [g EXCEPT !.ps2sendcombyte = @ - 1, !.ps2sendcomdata = Tail(@)]
  <2>1. /\ g.ps2sendcomdata \in Seq(HostBytes) /\ g.ps2sendcomdata # <<>>
        /\ g.ps2sendcombyte - 1 \in {0, 1, 2}
    BY <1>2, <1>3, <1>7 DEF Globals, Held
  <2>2. Tail(g.ps2sendcomdata) \in Seq(HostBytes)
        /\ Len(Tail(g.ps2sendcomdata)) = Len(g.ps2sendcomdata) - 1
    BY <2>1
  <2>3. e = [g EXCEPT !.ps2sendcombyte = g.ps2sendcombyte - 1,
                      !.ps2sendcomdata = Tail(g.ps2sendcomdata)]
    BY <1>2 DEF Globals
  <2> HIDE DEF e
  <2>4. e \in Globals
    BY <1>2, <2>1, <2>2, <2>3, Zenon DEF Globals
  <2>5. Held(e) /\ e.ps2sendcombyte > 0 /\ e.dma /\ ~e.clkint /\ ~e.clklow
    BY <1>2, <1>3, <1>7, <2>1, <2>2, <2>3 DEF Globals, Held
  <2> QED BY <1>7, <2>4, <2>5, SendAgainFacts DEF Moves, e
<1>8. CASE \/ n = [Finish(g) EXCEPT !.ps2sendcombyte = 0]
           \/ n = [Finish(g) EXCEPT !.ps2sendError = TRUE, !.ps2sendcombyte = 0]
  <2> DEFINE e == Finish(g)
  <2>1. /\ e \in Globals /\ e.ps2status = "0"
        /\ e.dma /\ ~e.clkint /\ ~e.clklow /\ ~e.ps2sending
    BY <1>2, <1>3, EnterFacts, FinishFacts, Times DEF Phases
  <2>2. \/ n = [e EXCEPT !.ps2sendcombyte = 0]
        \/ n = [e EXCEPT !.ps2sendError = TRUE, !.ps2sendcombyte = 0]
    BY <1>8
  <2> HIDE DEF e
  <2>3. CASE n = [e EXCEPT !.ps2sendcombyte = 0]
    <3>1. n \in Globals
      BY <2>1, <2>3, Zenon DEF Globals
    <3>2. n.ps2sendcombyte = 0 /\ n.ps2sendcomdata \in Seq(HostBytes) /\ n.ps2status = "0"
      BY <2>1, <2>3, <3>1 DEF Globals
    <3>3. Held(n)
      BY <3>2 DEF Held
    <3> QED BY <2>1, <2>3, <3>1, <3>3 DEF Good, Line, Moves, Globals
  <2>4. CASE n = [e EXCEPT !.ps2sendError = TRUE, !.ps2sendcombyte = 0]
    <3>1. n \in Globals
      BY <2>1, <2>4, Zenon DEF Globals
    <3> QED BY <2>1, <2>4, <3>1 DEF Good, Held, Line, Moves, Globals
  <2> QED BY <2>2, <2>3, <2>4
<1>9. CASE n = g
  BY <1>2, <1>3, <1>9 DEF Good, Line, Moves
<1> QED BY <1>1, <1>4, <1>5, <1>6, <1>7, <1>8, <1>9 DEF Globals, Responses

LEMMA ProgressWaitBatFacts ==
  ASSUME NEW g, Good(g), g.ps2status = "WAITBAT", NEW n, n = ProgressWaitBat(g)
  PROVE  Good(n) /\ Moves(g, n)
<1>1. g \in Globals /\ Held(g) /\ g.dma /\ ~g.clkint /\ ~g.clklow /\ ~g.ps2sending
  BY DEF Good, Line
<1> DEFINE e == Finish(g)
<1>2. /\ e \in Globals /\ e.ps2status = "0" /\ Held(e)
      /\ e.dma /\ ~e.clkint /\ ~e.clklow /\ ~e.ps2sending
  BY <1>1, EnterFacts, FinishFacts, Times DEF Phases, Held
<1>3. \/ n = g
      \/ \E b \in BOOLEAN : n = [e EXCEPT !.ps2receivecommand = "none", !.ps2sendError = b]
      \/ n = [e EXCEPT !.ps2sendError = TRUE]
  <2>1. e.ps2sendError \in BOOLEAN
    BY <1>2 DEF Globals
  <2>2. CASE g.ps2receivecommand # "none"
    <3> DEFINE b == e.ps2sendError \/ g.ps2receivecommand # "BAT"
    <3>1. n = [e EXCEPT !.ps2receivecommand = "none", !.ps2sendError = b]
      BY <1>2, <2>2 DEF ProgressWaitBat, Globals
    <3> QED BY <3>1
  <2>3. CASE g.ps2receivecommand = "none"
    BY <2>3 DEF ProgressWaitBat
  <2> QED BY <2>2, <2>3
<1> HIDE DEF e
<1>4. ASSUME NEW b \in BOOLEAN,
             n = [e EXCEPT !.ps2receivecommand = "none", !.ps2sendError = b]
      PROVE  Good(n) /\ Moves(g, n)
  <2>1. n \in Globals
    BY <1>2, <1>4, Zenon DEF Globals
  <2> QED BY <1>2, <1>4, <2>1 DEF Good, Held, Line, Moves, Globals
<1>6. CASE n = [e EXCEPT !.ps2sendError = TRUE]
  <2>1. n \in Globals
    BY <1>2, <1>6, Zenon DEF Globals
  <2> QED BY <1>2, <1>6, <2>1 DEF Good, Held, Line, Moves, Globals
<1>5. CASE n = g
  BY <1>5 DEF Moves
<1> QED BY <1>3, <1>4, <1>5, <1>6

LEMMA StatusProgressFacts ==
  ASSUME NEW g0, Good(g0), NEW n, n = StatusProgress(g0)
  PROVE  Good(n) /\ Moves(g0, n)
<1> DEFINE g == [g0 EXCEPT !.ps2statuscount = Minus1(@)]
<1>1. g0 \in Globals /\ g0.ps2statuscount \in Nat
  BY DEF Good, Globals
<1>2. Minus1(g0.ps2statuscount) \in Nat
  BY <1>1 DEF Minus1, Wrapped
<1>3. g \in Globals
  BY <1>1, <1>2, Zenon DEF Globals
<1>4. SameLine(g0, g)
  BY <1>1 DEF Globals, SameLine
<1>5. Good(g) /\ g.ps2status = g0.ps2status
  BY <1>3, <1>4, SameLineIsGood DEF SameLine
<1>6. n = CASE g.ps2status = "0" -> g0
            [] g.ps2status = "INIT" -> ProgressInit(g)
            [] g.ps2status = "SENDSTART" -> ProgressSendStart(g)
            [] g.ps2status = "WAIT100us" -> ProgressWait100us(g)
            [] g.ps2status = "SENDING" -> ProgressSending(g)
            [] g.ps2status = "WAITACK" -> ProgressWaitAck(g)
            [] g.ps2status = "WAITBAT" -> ProgressWaitBat(g)
  BY DEF StatusProgress
<1>7. g.ps2status \in Phases
  BY <1>3 DEF Globals
<1> HIDE DEF g
<1>8. CASE g.ps2status = "0"
  BY <1>5, <1>6, <1>8 DEF Moves
<1>9. CASE g.ps2status # "0"
  <2>1. Good(n) /\ Moves(g, n)
    BY <1>5, <1>6, <1>7, <1>9, ProgressInitFacts, ProgressSendStartFacts,
       ProgressWait100usFacts, ProgressSendingFacts, ProgressWaitAckFacts,
       ProgressWaitBatFacts DEF Phases
  <2> QED BY <1>4, <2>1 DEF Moves, SameLine
<1> QED BY <1>8, <1>9

(* The bytes of each command. *)
LEMMA BytesFacts ==
  /\ <<Byte("RESET")>> \in Seq(HostBytes) /\ Len(<<Byte("RESET")>>) = 1
  /\ <<Byte("RESEND")>> \in Seq(HostBytes) /\ Len(<<Byte("RESEND")>>) = 1
  /\ \A g \in Globals : SetLeds(g) \in Seq(HostBytes) /\ Len(SetLeds(g)) = 2
<1>1. Byte("RESET") \in HostBytes /\ Byte("RESEND") \in HostBytes /\ Byte("SETLED") \in HostBytes
  BY DEF Byte, HostBytes
<1>2. ASSUME NEW g \in Globals
      PROVE  SetLeds(g) \in Seq(HostBytes) /\ Len(SetLeds(g)) = 2
  <2>1. LedByte(g.lock) \in HostBytes
    BY DEF LedByte, HostBytes, Globals
  <2> QED BY <1>1, <2>1 DEF SetLeds
<1> QED BY <1>1, <1>2

LEMMA CommandFacts ==
  ASSUME NEW g, Good(g), NEW bytes \in Seq(HostBytes), Len(bytes) \in {1, 2},
         NEW n, n = Command(g, bytes)
  PROVE  /\ Good(n)
         /\ n = g \/ (g.ps2status = "0" /\ n.ps2status = "SENDSTART" /\ ~n.dma)
<1>1. CASE g.ps2status # "0"
  BY <1>1 DEF Command
<1>2. CASE g.ps2status = "0"
  <2>1. n = [g EXCEPT !.clkint = FALSE, !.dma = FALSE,
                      !.ps2receivecommand = "none",
                      !.ps2sendcomdata = bytes, !.ps2sendcombyte = Len(bytes),
                      !.ps2sendError = FALSE,
                      !.ps2status = "SENDSTART",
                      !.ps2statuscount = PS2TIME_PRESEND]
    BY <1>2 DEF Command
  <2>2. g \in Globals /\ "SENDSTART" \in Phases /\ Len(bytes) \in {0, 1, 2}
    BY DEF Good, Phases
  <2>3. n \in Globals
    BY <2>1, <2>2, Times, Zenon DEF Globals
  <2>4. /\ n.clkint = FALSE /\ n.dma = FALSE /\ n.ps2sendcomdata = bytes
        /\ n.ps2sendcombyte = Len(bytes) /\ n.ps2status = "SENDSTART"
    BY <2>1, <2>2 DEF Globals
  <2>5. n.ps2sendcombyte <= Len(n.ps2sendcomdata) /\ n.ps2sendcombyte > 0
    <3>1. Len(bytes) <= Len(bytes) /\ Len(bytes) > 0
      OBVIOUS
    <3> QED BY <2>4, <3>1
  <2>6. Held(n)
    BY <2>5 DEF Held
  <2> QED BY <1>2, <2>3, <2>4, <2>6 DEF Good, Line
<1> QED BY <1>1, <1>2

LEMMA ReceiveTimeoutFacts ==
  ASSUME NEW g, Good(g), NEW n, n = ReceiveTimeout(g)
  PROVE  Good(n) /\ SameLine(g, n)
<1>1. g \in Globals
  BY DEF Good
<1>2. CASE g.receivecount = 0
  BY <1>2 DEF ReceiveTimeout, SameLine
<1>3. CASE g.receivecount # 0
  <2> DEFINE c == IF g.ps2receivetime + 1 > PS2TIME_RECEIVETIMEOUT THEN 0 ELSE g.receivecount
             time == g.ps2receivetime + 1
  <2>1. n = [g EXCEPT !.ps2receivetime = time, !.receivecount = c]
    BY <1>1, <1>3 DEF ReceiveTimeout, Globals
  <2>2. time \in Nat /\ c \in {0, 1, 2}
    BY <1>1 DEF Globals
  <2> HIDE DEF c, time
  <2>3. n \in Globals
    BY <1>1, <2>1, <2>2, Zenon DEF Globals
  <2>4. SameLine(g, n)
    BY <1>1, <2>1 DEF Globals, SameLine
  <2> QED BY <2>3, <2>4, SameLineIsGood
<1> QED BY <1>2, <1>3

LEMMA RequestResendFacts ==
  ASSUME NEW g, Good(g), NEW n, n = RequestResend(g)
  PROVE  /\ Good(n)
         /\ SameLine(g, n) \/ (g.ps2status = "0" /\ n.ps2status = "SENDSTART" /\ ~n.dma)
<1>1. CASE ~g.ps2receiveError
  BY <1>1 DEF RequestResend, SameLine
<1>2. CASE g.ps2receiveError
  <2> DEFINE e == [g EXCEPT !.ps2receiveError = FALSE]
  <2>1. e \in Globals /\ SameLine(g, e)
    BY DEF Good, Globals, SameLine
  <2>2. Good(e)
    BY <2>1, SameLineIsGood
  <2>3. n = Command(e, <<Byte("RESEND")>>)
    BY <1>2 DEF RequestResend
  <2> HIDE DEF e
  <2>4. Good(n) /\ (n = e \/ (e.ps2status = "0" /\ n.ps2status = "SENDSTART" /\ ~n.dma))
    BY <2>2, <2>3, CommandFacts, BytesFacts
  <2> QED BY <2>1, <2>4 DEF SameLine
<1> QED BY <1>1, <1>2

LEMMA ReadScanCodeFacts ==
  ASSUME NEW g, Good(g), NEW n, n = ReadScanCode(g)
  PROVE  /\ Good(n)
         /\ SameLine(g, n) \/ (g.ps2status = "0" /\ n.ps2status = "SENDSTART" /\ ~n.dma)
<1>1. CASE g.scancodebuf = <<>>
  BY <1>1 DEF ReadScanCode, SameLine
<1>2. CASE g.scancodebuf # <<>>
  <2> DEFINE rest == [g EXCEPT !.scancodebuf = Tail(@)]
             key == Head(g.scancodebuf)
             k == [rest EXCEPT !.lock = @ \cup {key}]
  <2>1. g \in Globals /\ key \in LockKeys /\ Tail(g.scancodebuf) \in Seq(LockKeys)
    BY <1>2 DEF Good, Globals
  <2>2. rest \in Globals /\ SameLine(g, rest)
    BY <2>1 DEF Globals, SameLine
  <2>3. n = IF key \in g.lock THEN rest ELSE Command(k, SetLeds(k))
    BY <1>2 DEF ReadScanCode
  <2> HIDE DEF rest, key
  <2>4. k \in Globals /\ SameLine(rest, k)
    BY <2>1, <2>2 DEF Globals, SameLine
  <2>5. Good(rest) /\ Good(k)
    BY <2>2, <2>4, SameLineIsGood
  <2> HIDE DEF k
  <2>6. SetLeds(k) \in Seq(HostBytes) /\ Len(SetLeds(k)) = 2
    BY <2>4, BytesFacts
  <2>7. CASE n = rest
    BY <2>2, <2>5, <2>7
  <2>8. CASE n = Command(k, SetLeds(k))
    <3>1. Good(n) /\ (n = k \/ (k.ps2status = "0" /\ n.ps2status = "SENDSTART" /\ ~n.dma))
      BY <2>5, <2>6, <2>8, CommandFacts
    <3> QED BY <2>2, <2>4, <3>1 DEF SameLine
  <2> QED BY <2>3, <2>7, <2>8
<1> QED BY <1>1, <1>2

LEMMA T5Facts ==
  ASSUME NEW g, Good(g), NEW n, n = T5(g)
  PROVE  Good(n) /\ Moves(g, n)
<1> DEFINE a == StatusProgress(g)
           b == ReceiveTimeout(a)
           c == RequestResend(b)
<1>1. Good(a) /\ Moves(g, a)
  BY StatusProgressFacts
<1> HIDE DEF a
<1>2. Good(b) /\ SameLine(a, b)
  BY <1>1, ReceiveTimeoutFacts
<1> HIDE DEF b
<1>3. /\ Good(c)
      /\ SameLine(b, c) \/ (b.ps2status = "0" /\ c.ps2status = "SENDSTART" /\ ~c.dma)
  BY <1>2, RequestResendFacts
<1>4. n = ReadScanCode(c)
  BY DEF T5, a, b
<1> HIDE DEF c
<1>5. /\ Good(n)
      /\ SameLine(c, n) \/ (c.ps2status = "0" /\ n.ps2status = "SENDSTART" /\ ~n.dma)
  BY <1>3, <1>4, ReadScanCodeFacts
<1>6. SameLine(a, n) \/ (a.ps2status = "0" /\ n.ps2status = "SENDSTART" /\ ~n.dma)
  BY <1>2, <1>3, <1>5 DEF SameLine
<1> QED BY <1>1, <1>5, <1>6 DEF Moves, SameLine
-----------------------------------------------------------------------------
LEMMA Frames == FrameTicks \in Nat /\ 0 \in 0 .. FrameTicks - 1 /\ 1 \in 0 .. FrameTicks - 1
BY FrameAssumption, Times

LEMMA InitInv == Init => Inv
<1> SUFFICES ASSUME Init PROVE Inv
  OBVIOUS
<1>1. <<>> \in Seq(HostBytes) /\ <<>> \in Seq(LockKeys) /\ <<>> \in Seq(Responses)
      /\ 0 \in Nat /\ Len(<<>>) = 0
  OBVIOUS
<1>2. "INIT" \in Phases /\ "none" \in Responses \cup {"none"} /\ "ACK" \in Keys
  BY DEF Phases, Keys, Responses
<1>3. h \in Globals
  BY <1>1, <1>2, Times, Zenon DEF Init, Globals
<1>4. Good(h)
  <2>1. Held(h)
    BY <1>1 DEF Init, Held
  <2> QED BY <1>3, <2>1 DEF Init, Good, Line
<1>5. main \in ProgramStates /\ dev \in Keyboards
  <2>1. main \in ProgramStates
    BY <1>1, Zenon DEF Init, ProgramStates
  <2>2. dev \in Keyboards
    BY <1>1, <1>2, Frames, Zenon DEF Init, Keyboards
  <2> QED BY <2>1, <2>2
<1>6. Types
  BY <1>1, <1>5 DEF Init, Types
<1> QED BY <1>4, <1>6 DEF Init, Inv, NoFrame, Progress, Listens, Requested, InCall

(* The keyboard. *)
LEMMA RecordFacts ==
  ASSUME Types, NEW kind, NEW byte, [kind |-> kind, byte |-> byte] \in Edges,
         Record(kind, byte)
  PROVE  edges' = <<>> \/ \E e \in Edges : edges' = <<e>>
BY DEF Types, Record

LEMMA OutgoingFacts ==
  ASSUME Types, Waiting
  PROVE  Outgoing \in Keys
<1>1. dev.replies \in Seq(Responses) /\ dev.keys \in Seq(LockKeys)
  BY DEF Types, Keyboards
<1>2. CASE dev.replies # <<>>
  BY <1>1, <1>2 DEF Outgoing, Keys
<1>3. CASE dev.replies = <<>>
  BY <1>1, <1>3 DEF Outgoing, Waiting, Keys
<1> QED BY <1>2, <1>3

LEMMA TakeByteFacts ==
  ASSUME Types, NEW b \in HostBytes
  PROVE  /\ TakeByte(b) \in Keyboards /\ TakeByte(b).frame = dev.frame
         /\ Reply(<<"RESEND">>) \in Keyboards /\ Reply(<<"RESEND">>).frame = dev.frame
<1>1. dev \in Keyboards
  BY DEF Types
<1>2. \A r \in Seq(Responses) : Reply(r) \in Keyboards /\ Reply(r).frame = dev.frame
  BY <1>1 DEF Reply, Keyboards
<1>3. /\ <<"ACK", "BAT">> \in Seq(Responses) /\ <<"ACK">> \in Seq(Responses)
      /\ <<"RESEND">> \in Seq(Responses)
  BY DEF Responses
<1>4. TakeByte(b) \in Keyboards /\ TakeByte(b).frame = dev.frame
  <2>1. CASE b.name = "RESET"
    <3> DEFINE e == Reply(<<"ACK", "BAT">>)
    <3>1. TakeByte(b) = [e EXCEPT !.leds = {}, !.arg = FALSE, !.bat = FALSE]
      BY <2>1 DEF TakeByte
    <3>2. e \in Keyboards /\ e.frame = dev.frame
      BY <1>2, <1>3
    <3> HIDE DEF e
    <3> QED BY <3>1, <3>2 DEF Keyboards
  <2>2. CASE b.name = "SETLED"
    <3> DEFINE e == Reply(<<"ACK">>)
    <3>1. TakeByte(b) = [e EXCEPT !.arg = TRUE]
      BY <2>2 DEF TakeByte
    <3>2. e \in Keyboards /\ e.frame = dev.frame
      BY <1>2, <1>3
    <3> HIDE DEF e
    <3> QED BY <3>1, <3>2 DEF Keyboards
  <2>3. CASE b.name = "LEDS" /\ dev.arg
    <3> DEFINE e == Reply(<<"ACK">>)
    <3>1. TakeByte(b) = [e EXCEPT !.leds = b.leds, !.arg = FALSE]
      BY <2>3 DEF TakeByte
    <3>2. e \in Keyboards /\ e.frame = dev.frame /\ b.leds \in SUBSET LockKeys
      BY <1>2, <1>3 DEF HostBytes
    <3> HIDE DEF e
    <3> QED BY <3>1, <3>2 DEF Keyboards
  <2>4. CASE b.name = "LEDS" /\ ~dev.arg
    BY <1>2, <1>3, <2>4 DEF TakeByte
  <2>5. CASE b.name = "RESEND" /\ dev.last \in LockKeys
    <3>1. TakeByte(b) = [dev EXCEPT !.keys = <<dev.last>> \o dev.keys]
      BY <1>1, <2>5 DEF TakeByte, Keyboards
    <3>2. <<dev.last>> \o dev.keys \in Seq(LockKeys)
      BY <1>1, <2>5 DEF Keyboards
    <3> QED BY <1>1, <3>1, <3>2 DEF Keyboards
  <2>6. CASE b.name = "RESEND" /\ dev.last \notin LockKeys
    <3>1. TakeByte(b) = [dev EXCEPT !.replies = <<dev.last>> \o dev.replies]
      BY <1>1, <2>6 DEF TakeByte, Keyboards
    <3>2. <<dev.last>> \o dev.replies \in Seq(Responses)
      BY <1>1, <2>6 DEF Keyboards, Keys
    <3> QED BY <1>1, <3>1, <3>2 DEF Keyboards
  <2> QED BY <2>1, <2>2, <2>3, <2>4, <2>5, <2>6 DEF HostBytes
<1> QED BY <1>2, <1>3, <1>4

(* A step of the keyboard alone. *)
LEMMA KeyboardStep ==
  ASSUME Inv, UNCHANGED <<h, main>>, Types',
         h.ps2status = "WAIT100us" \/ Requested => dev'.frame = 0
  PROVE  Inv'
BY DEF Inv, Good, Held, Line, NoFrame, Progress, Listens, Requested, InCall

LEMMA PressLockInv ==
  ASSUME Inv, NEW k \in LockKeys, PressLock(k)
  PROVE  Inv'
<1>1. dev \in Keyboards /\ UNCHANGED <<h, edges, main>>
  BY DEF Inv, Types, PressLock
<1>2. dev' = [dev EXCEPT !.keys = Append(dev.keys, k)]
  BY <1>1 DEF PressLock, Keyboards
<1>3. Append(dev.keys, k) \in Seq(LockKeys) /\ Append(dev.keys, k) # <<>>
  <2>1. dev.keys \in Seq(LockKeys)
    BY <1>1 DEF Keyboards
  <2>2. Append(dev.keys, k) \in Seq(LockKeys) /\ Len(Append(dev.keys, k)) = Len(dev.keys) + 1
    BY <2>1
  <2>3. Len(dev.keys) \in Nat /\ Len(<<>>) = 0
    BY <2>1
  <2> QED BY <2>2, <2>3
<1>4. /\ dev' \in Keyboards /\ dev'.frame = dev.frame
      /\ dev'.keys # <<>>
  BY <1>1, <1>2, <1>3 DEF Keyboards
<1>5. Types'
  BY <1>1, <1>4 DEF Inv, Types, Waiting
<1> QED BY <1>1, <1>4, <1>5, KeyboardStep DEF Inv, NoFrame

LEMMA SendStartInv ==
  ASSUME Inv, SendStart
  PROVE  Inv'
<1>1. /\ dev \in Keyboards /\ UNCHANGED <<h, main>> /\ Waiting
      /\ ~h.clklow /\ ~Requested
      /\ dev' = [dev EXCEPT !.frame = 1, !.sent = TRUE]
  BY DEF Inv, Types, SendStart, LineFree
<1>2. dev' \in Keyboards /\ Waiting'
  BY <1>1, Frames DEF Keyboards, Waiting
<1>3. edges' = <<>> \/ \E e \in Edges : edges' = <<e>>
  BY RecordFacts DEF Inv, SendStart, Edges
<1>4. Types'
  BY <1>1, <1>2, <1>3 DEF Inv, Types
<1> QED BY <1>1, <1>4, KeyboardStep DEF Inv, Good, Line

LEMMA SendBitsInv ==
  ASSUME Inv, SendBits
  PROVE  Inv'
<1>1. /\ dev \in Keyboards /\ UNCHANGED <<h, main>>
      /\ ~h.clklow /\ ~Requested
      /\ dev' = [dev EXCEPT !.frame = dev.frame + 1, !.sent = TRUE]
  BY DEF Inv, Types, SendBits, LineFree, Keyboards
<1>2. dev.frame + 1 \in 0 .. FrameTicks - 1 /\ dev.frame > 0
  BY Frames DEF SendBits
<1>3. dev' \in Keyboards /\ Waiting'
  BY <1>1, <1>2 DEF Keyboards, Waiting, Inv, Types
<1>4. edges' = <<>> \/ \E e \in Edges : edges' = <<e>>
  BY RecordFacts DEF Inv, SendBits, Edges
<1>5. Types'
  BY <1>1, <1>3, <1>4 DEF Inv, Types
<1> QED BY <1>1, <1>5, KeyboardStep DEF Inv, Good, Line

LEMMA SendEndInv ==
  ASSUME Inv, SendEnd
  PROVE  Inv'
<1>1. /\ dev \in Keyboards /\ UNCHANGED <<h, main>> /\ Types
      /\ dev.frame = FrameTicks - 1
  BY DEF Inv, Types, SendEnd
<1>2. Waiting
  BY <1>1, Frames, FrameAssumption, Times DEF Types
<1>3. Outgoing \in Keys
  BY <1>1, <1>2, OutgoingFacts
<1>4. dev' \in Keyboards /\ dev'.frame = 0
  <2> DEFINE rs == IF dev.replies # <<>> THEN Tail(dev.replies) ELSE dev.replies
             ks == IF dev.replies # <<>> THEN dev.keys ELSE Tail(dev.keys)
             bat == dev.bat \/ Outgoing = "BAT"
  <2>1. dev' = [dev EXCEPT !.frame = 0, !.sent = TRUE, !.last = Outgoing,
                           !.replies = rs, !.keys = ks, !.bat = bat]
    BY <1>1 DEF SendEnd, Keyboards
  <2>2. dev.replies \in Seq(Responses) /\ dev.keys \in Seq(LockKeys)
    BY <1>1 DEF Keyboards
  <2>3. rs \in Seq(Responses) /\ ks \in Seq(LockKeys) /\ bat \in BOOLEAN
    BY <1>2, <2>2 DEF Waiting
  <2> HIDE DEF rs, ks, bat
  <2>4. dev' \in Keyboards
    BY <1>1, <1>3, <2>1, <2>3, Frames, Zenon DEF Keyboards
  <2> QED BY <1>1, <2>1, <2>4 DEF Keyboards
<1>5. edges' = <<>> \/ \E e \in Edges : edges' = <<e>>
  <2>1. CASE Record("end", Outgoing)
    BY <1>1, <1>3, <2>1, RecordFacts DEF Edges
  <2>2. CASE Record("end", "bad")
    BY <1>1, <2>2, RecordFacts DEF Edges
  <2>3. CASE UNCHANGED edges
    BY <1>1, <2>3 DEF Types
  <2> QED BY <2>1, <2>2, <2>3 DEF SendEnd
<1>6. Types'
  BY <1>1, <1>4, <1>5 DEF Inv, Types
<1> QED BY <1>1, <1>4, <1>6, KeyboardStep
LEMMA ClockInInv ==
  ASSUME Inv, ClockIn
  PROVE  Inv'
<1> DEFINE b == Head(h.ps2sendcomdata)
<1>1. /\ h \in Globals /\ Held(h) /\ Line(h) /\ dev \in Keyboards /\ Types
      /\ h.ps2status = "SENDING" /\ h.ps2sending /\ ~h.clklow
      /\ h' = SendDone(h) /\ UNCHANGED <<edges, main>>
  BY DEF Inv, Good, Types, ClockIn, Requested
<1>2. b \in HostBytes
  <2>1. h.ps2sendcomdata \in Seq(HostBytes) /\ Len(h.ps2sendcomdata) > 0
    BY <1>1 DEF Globals, Held
  <2> QED BY <2>1
<1>3. dev.frame = 0
  BY DEF Inv, NoFrame, ClockIn
<1>4. dev' \in Keyboards /\ dev'.frame = 0
  BY <1>1, <1>2, <1>3, TakeByteFacts DEF ClockIn
<1>5. Types'
  BY <1>1, <1>4 DEF Types
<1>6. h' = [h EXCEPT !.ps2sending = FALSE, !.clkint = FALSE, !.dma = TRUE]
  BY <1>1 DEF SendDone
<1>7. h' \in Globals
  BY <1>1, <1>6, Zenon DEF Globals
<1>8. /\ h'.ps2status = "SENDING" /\ h'.ps2sending = FALSE /\ h'.clkint = FALSE
      /\ h'.dma = TRUE /\ h'.clklow = h.clklow
      /\ h'.ps2sendcombyte = h.ps2sendcombyte /\ h'.ps2sendcomdata = h.ps2sendcomdata
  BY <1>1, <1>6 DEF Globals
<1>9. Good(h')
  BY <1>1, <1>7, <1>8 DEF Good, Held, Line
<1>10. Progress'
  BY <1>1, <1>8 DEF Inv, Progress, InCall
<1> QED BY <1>4, <1>5, <1>8, <1>9, <1>10 DEF Inv, NoFrame, Listens

(* Timer5, whatever the keyboard does at the same time. *)
LEMMA TimerStep ==
  ASSUME Inv, TickAllowed, Good(h'), Moves(h, h'),
         main' = [main EXCEPT !.preempted = InCall]
  PROVE  /\ main' \in ProgramStates /\ main'.bytes = main.bytes
         /\ Progress' /\ Listens'
<1>1. main \in ProgramStates /\ InCall \in BOOLEAN
  BY DEF Inv, Types, InCall
<1>2. /\ main' \in ProgramStates /\ main'.pc = main.pc /\ main'.bytes = main.bytes
      /\ main'.preempted = InCall
  BY <1>1 DEF ProgramStates
<1>3. InCall' = InCall
  BY <1>2 DEF InCall
<1>4. Progress'
  <2>1. InCall => ~main.preempted
    BY DEF TickAllowed
  <2>2. main.pc \in {"call", "drain", "fill", "status", "count"} <=> InCall
    BY DEF InCall
  <2>3. h'.ps2status = "INIT" => main'.pc = "spin" /\ main'.bytes = <<>>
    BY <1>2 DEF Inv, Progress, Moves
  <2>4. main.pc \in {"call", "drain", "fill", "status"} =>
          /\ h.ps2status = "0" /\ InCall
          /\ h'.ps2status \in {"0", "SENDSTART"}
    BY <2>1, <2>2 DEF Inv, Progress, Moves
  <2>5. main.pc = "count" => h'.ps2status \in {"SENDSTART", "WAIT100us"} /\ InCall
    BY <2>1, <2>2 DEF Inv, Progress, Moves
  <2>6. main.pc \in {"fill", "status"} => ~h'.dma /\ ~h'.clkint
    BY <2>4 DEF Inv, Progress, Moves, Good, Line
  <2>7. main.pc = "status" => h'.ps2sendcombyte > 0
    BY <2>4 DEF Inv, Progress, Moves, Good, Held
  <2> QED BY <1>2, <1>3, <2>3, <2>4, <2>5, <2>6, <2>7 DEF Inv, Progress
<1>5. Listens'
  BY <1>2, <1>3 DEF Inv, Progress, Listens, Moves
<1> QED BY <1>2, <1>4, <1>5

LEMMA T5HandlerInv ==
  ASSUME Inv, T5Handler
  PROVE  Inv'
<1>1. PICK g \in GetDMABUFdata(h) : h' = T5(g) /\ dev' = Period(h')
  BY DEF T5Handler
<1>2. Good(g) /\ SameLine(h, g)
  BY GetDMABUFdataFacts, SameLineIsGood DEF Inv, Good
<1>3. Good(h') /\ Moves(g, h')
  BY <1>1, <1>2, T5Facts
<1>4. Moves(h, h')
  BY <1>2, <1>3 DEF Moves, SameLine
<1>5. /\ main' \in ProgramStates /\ main'.bytes = main.bytes
      /\ Progress' /\ Listens'
  BY <1>3, <1>4, TimerStep DEF T5Handler
<1>6. /\ dev' \in Keyboards /\ (dev'.frame # 0 => dev'.frame = dev.frame /\ ~h'.clklow)
      /\ dev'.replies = dev.replies /\ dev'.keys = dev.keys
  <2> DEFINE f == IF h'.clklow THEN 0 ELSE dev.frame
  <2>1. dev \in Keyboards
    BY DEF Inv, Types
  <2>2. dev' = [dev EXCEPT !.sent = FALSE, !.frame = f]
    BY <1>1, <2>1 DEF Period, Keyboards
  <2>3. f \in 0 .. FrameTicks - 1
    BY <2>1, Frames DEF Keyboards
  <2>4. f # 0 => f = dev.frame /\ ~h'.clklow
    OBVIOUS
  <2> HIDE DEF f
  <2> QED BY <2>1, <2>2, <2>3, <2>4 DEF Keyboards
<1>7. Types'
  <2>1. dev'.frame > 0 => Waiting'
    <3>1. dev'.frame > 0 => dev'.frame = dev.frame
      BY <1>6 DEF Keyboards
    <3> QED BY <1>6, <3>1 DEF Inv, Types, Waiting
  <2> QED BY <1>5, <1>6, <2>1 DEF Inv, Types, T5Handler
<1>8. NoFrame'
  <2>1. CASE h'.ps2status = "WAIT100us"
    BY <1>3, <1>6, <2>1 DEF Good, Line, NoFrame
  <2>2. CASE h'.ps2status = "SENDING" /\ h'.ps2sending
    <3>1. h.ps2status = "WAIT100us" \/ Requested
      BY <1>4, <2>2 DEF Inv, Moves, Requested, Good, Line
    <3> QED BY <1>6, <3>1 DEF Inv, NoFrame
  <2> QED BY <2>1, <2>2 DEF NoFrame, Requested
<1> QED BY <1>3, <1>5, <1>7, <1>8 DEF Inv

LEMMA LastClockInTimeoutInv ==
  ASSUME Inv, LastClockInTimeout
  PROVE  Inv'
<1>1. Good(h') /\ Moves(h, h')
  BY T5Facts DEF Inv, LastClockInTimeout
<1>2. /\ main' \in ProgramStates /\ main'.bytes = main.bytes
      /\ Progress' /\ Listens'
  BY <1>1, TimerStep DEF LastClockInTimeout
<1>3. Head(h.ps2sendcomdata) \in HostBytes
  <2>1. h.ps2sendcomdata \in Seq(HostBytes) /\ Len(h.ps2sendcomdata) > 0
    BY DEF Inv, Good, Globals, Held, LastClockInTimeout, Requested
  <2> QED BY <2>1
<1>4. dev.frame = 0
  BY DEF Inv, NoFrame, LastClockInTimeout
<1>5. dev' \in Keyboards /\ dev'.frame = 0
  BY <1>3, <1>4, TakeByteFacts DEF Inv, LastClockInTimeout
<1>6. Types'
  BY <1>2, <1>5 DEF Inv, Types, LastClockInTimeout
<1> QED BY <1>1, <1>2, <1>5, <1>6 DEF Inv, NoFrame

(* ps2init() and ps2command() in the program. *)
LEMMA CallFacts ==
  ASSUME NEW bytes \in Seq(HostBytes)
  PROVE  /\ Call(bytes) \in ProgramStates
         /\ Call(bytes).pc = "call" /\ Call(bytes).bytes = bytes
BY DEF Call, ProgramStates

LEMMA ReturnFacts ==
  ASSUME main \in ProgramStates, NEW pc \in {"spin", "ok", "failed"}
  PROVE  /\ Return(pc) \in ProgramStates
         /\ Return(pc).pc = pc /\ Return(pc).bytes = main.bytes
BY DEF Return, ProgramStates

LEMMA SpinInv ==
  ASSUME Inv, Spin
  PROVE  Inv'
<1>1. /\ main \in ProgramStates /\ h \in Globals /\ main.pc = "spin" /\ h.ps2status = "0"
      /\ UNCHANGED <<h, edges, dev>>
  BY DEF Inv, Good, Types, Spin
<1>2. \/ \E bytes \in Seq(HostBytes) :
           main' = Call(bytes) /\ bytes # <<>> /\ Len(bytes) <= 2
      \/ \E pc \in {"ok", "failed"} : main' = Return(pc) /\ main.bytes # <<>>
  <2>1. /\ <<Byte("RESET")>> # <<>> /\ SetLeds(h) # <<>>
    BY DEF SetLeds
  <2>2. /\ SetLeds(h) \in Seq(HostBytes) /\ Len(SetLeds(h)) = 2
        /\ <<Byte("RESET")>> \in Seq(HostBytes) /\ Len(<<Byte("RESET")>>) = 1
    BY <1>1, BytesFacts
  <2>3. CASE main.bytes = <<>>
    <3>1. main' = Call(<<Byte("RESET")>>)
      BY <2>3 DEF Spin
    <3>2. Len(<<Byte("RESET")>>) <= 2
      BY <2>2
    <3> QED BY <2>1, <2>2, <3>1, <3>2, Zenon
  <2>4. CASE main.bytes # <<>>
    <3>1. main' \in {Return("failed"), Call(SetLeds(h)), Return("ok")}
      BY <2>4 DEF Spin
    <3>2. Len(SetLeds(h)) <= 2
      BY <2>2
    <3> QED BY <2>1, <2>2, <2>4, <3>1, <3>2, Zenon
  <2> QED BY <2>3, <2>4
<1>3. ASSUME NEW bytes \in Seq(HostBytes), main' = Call(bytes), bytes # <<>>, Len(bytes) <= 2
      PROVE  Inv'
  <2>1. main' \in ProgramStates /\ main'.pc = "call" /\ main'.bytes = bytes
    BY <1>1, <1>3, CallFacts
  <2>2. Types'
    BY <1>1, <1>3, <2>1 DEF Inv, Types, Waiting
  <2> QED BY <1>1, <1>3, <2>1, <2>2
          DEF Inv, Good, Held, Line, NoFrame, Progress, Listens, Requested, InCall
<1>4. ASSUME NEW pc \in {"ok", "failed"}, main' = Return(pc), main.bytes # <<>>
      PROVE  Inv'
  <2>1. main' \in ProgramStates /\ main'.pc = pc /\ main'.bytes = main.bytes
    BY <1>1, <1>4, ReturnFacts
  <2>2. Types'
    BY <1>1, <2>1 DEF Inv, Types, Waiting
  <2> QED BY <1>1, <1>4, <2>1, <2>2
          DEF Inv, Good, Held, Line, NoFrame, Progress, Listens, Requested, InCall
<1> QED BY <1>2, <1>3, <1>4

LEMMA CallGivesUpInv ==
  ASSUME Inv, CallGivesUp
  PROVE  Inv'
<1>1. main \in ProgramStates /\ main.pc = "call" /\ UNCHANGED <<h, edges, dev>>
  BY DEF Inv, Types, CallGivesUp
<1>2. CASE h.ps2status # "0"
  <2>1. main' = Return("spin")
    BY <1>2 DEF CallGivesUp
  <2>2. main' \in ProgramStates /\ main'.pc = "spin" /\ main'.bytes = main.bytes
    BY <1>1, <2>1, ReturnFacts
  <2>3. Types'
    BY <1>1, <2>2 DEF Inv, Types, Waiting
  <2> QED BY <1>1, <1>2, <2>2, <2>3
          DEF Inv, Good, Held, Line, NoFrame, Progress, Listens, Requested, InCall
<1>3. CASE h.ps2status = "0"
  <2>1. main' = [main EXCEPT !.pc = "drain"]
    BY <1>3 DEF CallGivesUp
  <2>2. main' \in ProgramStates /\ main'.pc = "drain" /\ main'.bytes = main.bytes
    BY <1>1, <2>1 DEF ProgramStates
  <2>3. Types'
    BY <1>1, <2>2 DEF Inv, Types, Waiting
  <2> QED BY <1>1, <1>3, <2>2, <2>3
          DEF Inv, Good, Held, Line, NoFrame, Progress, Listens, Requested, InCall
<1> QED BY <1>2, <1>3

(* A step of ps2command() to pc that leaves the phase to Timer5 and the      *)
(* keyboard alone.                                                          *)
LEMMA CommandStep ==
  ASSUME Inv, NEW pc \in {"fill", "status", "count", "spin"},
         main' = [main EXCEPT !.pc = pc], UNCHANGED dev,
         edges' \in {<<>>, edges}
  PROVE  /\ Types' /\ main'.pc = pc /\ main'.bytes = main.bytes
         /\ main'.preempted = main.preempted
<1>1. main \in ProgramStates
  BY DEF Inv, Types
<1>2. /\ main' \in ProgramStates /\ main'.pc = pc /\ main'.bytes = main.bytes
      /\ main'.preempted = main.preempted
  BY <1>1 DEF ProgramStates
<1> QED BY <1>2 DEF Inv, Types, Waiting

LEMMA DrainInv ==
  ASSUME Inv, Drain
  PROVE  Inv'
<1> DEFINE e == [h EXCEPT !.clkint = FALSE, !.dma = FALSE]
<1>1. h \in Globals /\ Held(h) /\ Line(h) /\ main.pc = "drain"
      /\ h.ps2status \in {"0", "SENDSTART"}
  BY DEF Inv, Good, Drain, Progress
<1>2. /\ e \in Globals /\ e.ps2status = h.ps2status /\ e.ps2sending = h.ps2sending
      /\ ~e.dma /\ ~e.clkint /\ e.ps2sendcombyte = h.ps2sendcombyte
      /\ e.ps2sendcomdata = h.ps2sendcomdata
  BY <1>1 DEF Globals
<1>3. h' \in GetDMABUFdata(e)
  BY DEF Drain
<1> HIDE DEF e
<1>4. Good(e)
  BY <1>1, <1>2 DEF Good, Held, Line
<1>5. h' \in Globals /\ SameLine(e, h')
  BY <1>2, <1>3, GetDMABUFdataFacts DEF Inv
<1>6. Good(h')
  BY <1>4, <1>5, SameLineIsGood
<1>7. /\ Types' /\ main'.pc = "fill" /\ main'.bytes = main.bytes
      /\ main'.preempted = main.preempted
  BY CommandStep DEF Drain
<1> QED BY <1>1, <1>2, <1>5, <1>6, <1>7
        DEF Inv, SameLine, NoFrame, Progress, Listens, Requested, InCall

LEMMA FillInv ==
  ASSUME Inv, Fill
  PROVE  Inv'
<1>1. /\ h \in Globals /\ Held(h) /\ Line(h) /\ main.pc = "fill"
      /\ h.ps2status \in {"0", "SENDSTART"} /\ ~h.dma /\ ~h.clkint
      /\ main.bytes \in Seq(HostBytes) /\ main.bytes # <<>> /\ Len(main.bytes) <= 2
  BY DEF Inv, Good, Fill, Progress, InCall, Types, ProgramStates
<1>2. Len(main.bytes) \in {0, 1, 2} /\ Len(main.bytes) > 0
  <2>1. ASSUME NEW s \in Seq(HostBytes), s # <<>>, Len(s) <= 2
        PROVE  Len(s) \in {0, 1, 2} /\ Len(s) > 0
    <3>1. Len(s) \in Nat /\ Len(s) # 0
      BY <2>1
    <3>2. \A n \in Nat : n # 0 /\ n <= 2 => n \in {0, 1, 2} /\ n > 0
      OBVIOUS
    <3> QED BY <2>1, <3>1, <3>2, Zenon
  <2> QED BY <1>1, <2>1
<1>3. h' = [h EXCEPT !.ps2receivecommand = "none", !.ps2sendError = FALSE,
                     !.ps2sendcomdata = main.bytes,
                     !.ps2sendcombyte = Len(main.bytes)]
  BY DEF Fill
<1>4. h' \in Globals
  BY <1>1, <1>2, <1>3, Zenon DEF Globals
<1>5. /\ h'.ps2status = h.ps2status /\ h'.ps2sending = h.ps2sending
      /\ h'.dma = h.dma /\ h'.clkint = h.clkint /\ h'.clklow = h.clklow
      /\ h'.ps2sendcombyte = Len(main.bytes) /\ h'.ps2sendcomdata = main.bytes
  BY <1>1, <1>3 DEF Globals
<1>6. Held(h')
  BY <1>2, <1>5 DEF Held
<1>7. Good(h')
  BY <1>1, <1>4, <1>5, <1>6 DEF Good, Line
<1>8. /\ Types' /\ main'.pc = "status" /\ main'.bytes = main.bytes
      /\ main'.preempted = main.preempted
  BY CommandStep DEF Fill
<1> QED BY <1>1, <1>2, <1>5, <1>7, <1>8
        DEF Inv, NoFrame, Progress, Listens, Requested, InCall

LEMMA SetStatusInv ==
  ASSUME Inv, SetStatus
  PROVE  Inv'
<1>1. /\ h \in Globals /\ Held(h) /\ Line(h) /\ main.pc = "status"
      /\ h.ps2status \in {"0", "SENDSTART"} /\ ~h.dma /\ ~h.clkint
      /\ h.ps2sendcombyte > 0
  BY DEF Inv, Good, SetStatus, Progress
<1>2. h' = [h EXCEPT !.ps2status = "SENDSTART"] /\ "SENDSTART" \in Phases
  BY DEF SetStatus, Phases
<1>3. h' \in Globals
  BY <1>1, <1>2, Zenon DEF Globals
<1>4. /\ h'.ps2status = "SENDSTART" /\ h'.ps2sending = h.ps2sending
      /\ h'.dma = h.dma /\ h'.clkint = h.clkint /\ h'.clklow = h.clklow
      /\ h'.ps2sendcombyte = h.ps2sendcombyte /\ h'.ps2sendcomdata = h.ps2sendcomdata
  BY <1>1, <1>2 DEF Globals
<1>5. Good(h')
  BY <1>1, <1>3, <1>4 DEF Good, Held, Line
<1>6. /\ Types' /\ main'.pc = "count" /\ main'.bytes = main.bytes
  BY CommandStep DEF SetStatus
<1> QED BY <1>1, <1>4, <1>5, <1>6
        DEF Inv, NoFrame, Progress, Listens, Requested, InCall

LEMMA SetCountInv ==
  ASSUME Inv, SetCount
  PROVE  Inv'
<1>1. /\ h \in Globals /\ Good(h) /\ main.pc = "count" /\ main \in ProgramStates
      /\ h.ps2status \in {"SENDSTART", "WAIT100us"}
  BY DEF Inv, Good, SetCount, Progress, Types
<1>2. h' = [h EXCEPT !.ps2statuscount = PS2TIME_PRESEND]
  BY DEF SetCount
<1>3. h' \in Globals
  BY <1>1, <1>2, Times, Zenon DEF Globals
<1>4. SameLine(h, h')
  BY <1>1, <1>2 DEF Globals, SameLine
<1>5. Good(h')
  BY <1>1, <1>3, <1>4, SameLineIsGood
<1>6. main' \in ProgramStates /\ main'.pc = "spin" /\ main'.bytes = main.bytes
  BY <1>1, ReturnFacts DEF SetCount
<1>7. Types'
  BY <1>6 DEF Inv, Types, Waiting, SetCount
<1> QED BY <1>1, <1>4, <1>5, <1>6, <1>7
        DEF Inv, SetCount, SameLine, NoFrame, Progress, Listens, Requested, InCall

-----------------------------------------------------------------------------
LEMMA InvStep == Inv /\ [Next]_vars => Inv'
<1> SUFFICES ASSUME Inv, [Next]_vars PROVE Inv'
  OBVIOUS
<1>1. CASE Program
  BY <1>1, SpinInv, CallGivesUpInv, DrainInv, FillInv, SetStatusInv, SetCountInv
     DEF Program
<1>2. CASE Keyboard
  BY <1>2, SendStartInv, SendBitsInv, SendEndInv, ClockInInv DEF Keyboard
<1>3. CASE T5Handler
  BY <1>3, T5HandlerInv
<1>4. CASE LastClockInTimeout
  BY <1>4, LastClockInTimeoutInv
<1>5. CASE \E k \in LockKeys : PressLock(k)
  BY <1>5, PressLockInv
<1>6. CASE UNCHANGED vars
  BY <1>6 DEF vars, Inv, Types, Waiting, Good, Held, Line, NoFrame, Progress, Listens,
              Requested, InCall
<1> QED BY <1>1, <1>2, <1>3, <1>4, <1>5, <1>6 DEF Next

LEMMA InvHolds == Spec => []Inv
BY InitInv, InvStep, PTL DEF Spec

(* The driver's globals, the DMA's record and the keyboard keep their types  *)
(* in every interleaving.                                                   *)
THEOREM TypeHolds == Spec => []TypeOK
<1>1. Inv => TypeOK
  <2> SUFFICES ASSUME Inv PROVE TypeOK
    OBVIOUS
  <2>1. Len(edges) <= 1
    <3>1. Len(<<>>) = 0 /\ \A e \in Edges : Len(<<e>>) = 1
      OBVIOUS
    <3>2. CASE edges = <<>>
      BY <3>1, <3>2
    <3>3. ASSUME NEW e \in Edges, edges = <<e>>
          PROVE  Len(edges) <= 1
      BY <3>1, <3>3
    <3> QED BY <3>2, <3>3 DEF Inv, Types
  <2> QED BY <2>1 DEF Inv, Good, Types, Globals, ProgramStates, Keyboards, TypeOK
<1> QED BY <1>1, InvHolds, PTL

(* Whenever ps2init() has begun a command and none is running, the DMA       *)
(* records, CLK is released, its interrupt is off and no byte is half sent,  *)
(* whatever frames broke, went lost, were not answered or came late.        *)
THEOREM IdleListensHolds == Spec => []IdleListens
<1>1. Inv => IdleListens
  BY DEF Inv, Listens, Good, Line, InCall, IdleListens
<1> QED BY <1>1, InvHolds, PTL

(* The DMA records neither a byte the host clocks out nor the host holding  *)
(* CLK low, whatever Timer5 and the program do in between.                  *)
THEOREM NoEchoHolds == Spec => []NoEcho
<1>1. Inv => NoEcho
  BY DEF Inv, Good, Line, Globals, Phases, NoEcho, Requested
<1> QED BY <1>1, InvHolds, PTL
==============================================================================
