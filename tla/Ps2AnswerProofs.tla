---------------------------- MODULE Ps2AnswerProofs ----------------------------
(***************************************************************************)
(* Ps2Command with a keyboard that takes every byte, however late, through *)
(* broken and lost frames and requests to send again: the ACK that the     *)
(* driver acts on is the answer to the byte it sent last.                  *)
(***************************************************************************)
EXTENDS Ps2CommandProofs

Ended == edges # <<>> /\ edges[1].kind = "end"
Unheard == h.ps2receivecommand = "none" /\ ~Ended
NoAck(replies) == \A i \in 1 .. Len(replies) : replies[i] # "ACK"
Clocked == h.ps2status = "SENDING" /\ ~h.ps2sending
Taken(b) == /\ b.name = "SETLED" => dev.arg
            /\ b.name = "LEDS" => ~dev.arg /\ dev.leds = b.leds

(* The end of a frame is recorded in the period in which it is sent.       *)
Recorded == Ended => dev.sent /\ dev.frame = 0

(* Until the keyboard has clocked the byte out, no answer is heard: where   *)
(* the DMA records in SENDSTART, the time is too short for a frame.        *)
Early ==
  /\ h.ps2status \in {"SENDSTART", "WAIT100us"} \/ (h.ps2status = "SENDING" /\ h.ps2sending)
       => Unheard
  /\ h.ps2status = "SENDSTART" /\ h.dma =>
       /\ h.ps2statuscount > 0
       /\ dev.frame + h.ps2statuscount <= PS2TIME_PRESEND + (IF dev.sent THEN 1 ELSE 0)

(* The first frame that ends after that is the answer, the only one with an *)
(* ACK, and there is an ACK only from a keyboard that has taken the byte.  *)
Answered ==
  /\ h.ps2receivecommand = "none"
  /\ Ended => NoAck(dev.replies)
  /\ Ended /\ edges[1].byte = "ACK" => Taken(Head(h.ps2sendcomdata))
  /\ ~NoAck(dev.replies) => /\ Taken(Head(h.ps2sendcomdata))
                            /\ dev.replies[1] = "ACK" /\ NoAck(Tail(dev.replies))

Answer ==
  /\ Clocked => Unheard /\ dev.frame <= 1 /\ (dev.frame = 1 => dev.sent)
  /\ h.ps2status = "WAITACK" \/ (Clocked /\ Sent(h) # "RESEND") => Answered

(* ps2command() in the program has turned the DMA off and emptied it.      *)
Calling ==
  /\ main.pc \in {"fill", "status"} => ~Ended
  /\ main.pc = "status" => h.ps2receivecommand = "none"
  /\ main.pc = "count" => ~h.dma

(* The keyboard takes every byte or asks for it again.                     *)
Obeys == "silent" \in DOMAIN budget /\ budget.silent = 0

AInv == Recorded /\ Early /\ Answer /\ Calling /\ Obeys

-----------------------------------------------------------------------------
(* What receiving makes of the answer. *)
LEMMA GotHears ==
  ASSUME NEW g \in Globals, NEW b
  PROVE  /\ Got(g, b).ps2statuscount = g.ps2statuscount
         /\ Got(g, b).ps2receivecommand = IF b \in Responses THEN b ELSE g.ps2receivecommand
BY DEF Got, Globals

LEMMA ReceiveHears ==
  ASSUME NEW g \in Globals, NEW e \in Edges, NEW n \in Receive(g, e)
  PROVE  /\ n.ps2statuscount = g.ps2statuscount
         /\ \/ n.ps2receivecommand = g.ps2receivecommand
            \/ e.kind = "end" /\ n.ps2receivecommand \in {"ODD", e.byte}
<1> DEFINE Same(x) == /\ x.ps2statuscount = g.ps2statuscount
                      /\ x.ps2receivecommand = g.ps2receivecommand
           Fine(x) == /\ x.ps2statuscount = g.ps2statuscount
                      /\ x.ps2receivecommand \in {g.ps2receivecommand, "ODD", e.byte}
<1>1. Same(g) /\ Same(Error(g))
  BY DEF Error, Globals
<1>2. /\ Same([g EXCEPT !.receivecount = 1, !.ps2receivetime = 0])
      /\ Same([g EXCEPT !.receivecount = 2, !.ps2receivetime = 0])
      /\ Same([g EXCEPT !.receivecount = 2])
  BY DEF Globals
<1>3. Fine(Got(g, e.byte))
  BY GotHears
<1>4. \A x \in Misread(g) : Fine(x)
  <2>1. \A b \in LockKeys : b \notin Responses
    BY KeysAssumption
  <2>2. \A b \in {"ODD"} \cup LockKeys : Fine(Got(g, b))
    BY <2>1, GotHears
  <2> QED BY <1>1, <2>2 DEF Misread
<1>5. \A x : Same(x) => Fine(x)
  OBVIOUS
<1>6. e.kind \in {"start", "bits", "end"} /\ g.receivecount \in {0, 1, 2}
  BY DEF Edges, Globals
<1> HIDE DEF Same, Fine
<1>7. CASE g.ps2receiveError
  BY <1>1, <1>7 DEF Receive, Same
<1>8. CASE ~g.ps2receiveError /\ e.kind = "start"
  BY <1>1, <1>2, <1>8 DEF Receive, Same
<1>9. CASE ~g.ps2receiveError /\ e.kind = "bits"
  BY <1>1, <1>2, <1>9 DEF Receive, Same
<1>10. CASE ~g.ps2receiveError /\ e.kind = "end"
  <2>1. Fine(n)
    <3>1. CASE g.receivecount = 0
      BY <1>1, <1>2, <1>5, <1>10, <3>1 DEF Receive
    <3>2. CASE g.receivecount = 1 /\ e.byte = "bad"
      BY <1>1, <1>5, <1>10, <3>2 DEF Receive
    <3>3. CASE g.receivecount = 1 /\ e.byte # "bad"
      BY <1>3, <1>10, <3>3 DEF Receive
    <3>4. CASE g.receivecount = 2
      BY <1>4, <1>10, <3>4 DEF Receive
    <3> QED BY <1>6, <3>1, <3>2, <3>3, <3>4
  <2> QED BY <1>10, <2>1 DEF Fine
<1> QED BY <1>6, <1>7, <1>8, <1>9, <1>10

LEMMA GetDMABUFdataHears ==
  ASSUME Types, NEW g \in Globals, NEW n \in GetDMABUFdata(g)
  PROVE  /\ n.ps2statuscount = g.ps2statuscount
         /\ \/ n.ps2receivecommand = g.ps2receivecommand
            \/ Ended /\ n.ps2receivecommand \in {"ODD", edges[1].byte}
<1>1. CASE edges = <<>>
  BY <1>1 DEF GetDMABUFdata
<1>2. CASE edges # <<>>
  <2>1. edges[1] \in Edges
    BY <1>2 DEF Types
  <2> QED BY <1>2, <2>1, ReceiveHears DEF GetDMABUFdata, Ended
<1> QED BY <1>1, <1>2

-----------------------------------------------------------------------------
(* What an interrupt makes of it. *)
SameAnswer(g, n) ==
  /\ n.ps2status = g.ps2status /\ n.ps2statuscount = g.ps2statuscount
  /\ n.ps2sending = g.ps2sending /\ n.dma = g.dma
  /\ n.ps2receivecommand = g.ps2receivecommand /\ n.ps2sendcomdata = g.ps2sendcomdata

New(n) == n.ps2status = "SENDSTART" /\ n.ps2receivecommand = "none" /\ ~n.dma

Hears(g, n) ==
  /\ g.ps2status = "0" => SameAnswer(g, n) \/ New(n)
  /\ n.ps2status = "SENDSTART" =>
       \/ New(n)
       \/ /\ g.ps2status = "SENDSTART" /\ n.ps2receivecommand = g.ps2receivecommand
          /\ n.dma = g.dma
          /\ n.ps2statuscount = Minus1(g.ps2statuscount) /\ n.ps2statuscount # 0
       \/ /\ g.ps2status = "WAITACK" /\ g.ps2receivecommand # "none"
          /\ n.ps2receivecommand = "none" /\ n.ps2statuscount = PS2TIME_PRESEND
  /\ n.ps2status = "WAIT100us" => /\ g.ps2status \in {"SENDSTART", "WAIT100us"}
                                  /\ n.ps2receivecommand = g.ps2receivecommand
  /\ n.ps2status = "SENDING" =>
       /\ g.ps2status = "WAIT100us" \/ (g.ps2status = "SENDING" /\ g.ps2sending)
       /\ n.ps2sending /\ n.ps2receivecommand = g.ps2receivecommand
  /\ n.ps2status = "WAITACK" =>
       /\ \/ g.ps2status = "WAITACK" /\ g.ps2receivecommand = "none"
          \/ g.ps2status = "SENDING" /\ ~g.ps2sending /\ Sent(g) # "RESEND"
       /\ n.ps2receivecommand = g.ps2receivecommand /\ n.ps2sendcomdata = g.ps2sendcomdata

(* Each phase, with the count already down. *)
LEMMA EnterHears ==
  ASSUME NEW g \in Globals, NEW phase, NEW time
  PROVE  /\ Enter(g, phase, time).ps2status = phase
         /\ Enter(g, phase, time).ps2statuscount = time
         /\ Enter(g, phase, time).ps2sending = g.ps2sending
         /\ Enter(g, phase, time).dma = g.dma
         /\ Enter(g, phase, time).ps2receivecommand = g.ps2receivecommand
         /\ Enter(g, phase, time).ps2sendcomdata = g.ps2sendcomdata
BY DEF Enter, Globals

LEMMA EarlyPhases ==
  ASSUME NEW g \in Globals
  PROVE  /\ g.ps2status = "INIT" => ProgressInit(g).ps2status \in {"INIT", "0"}
         /\ g.ps2status = "SENDSTART" =>
              LET n == ProgressSendStart(g) IN
                /\ n.ps2receivecommand = g.ps2receivecommand
                /\ \/ n.ps2status = "WAIT100us"
                   \/ /\ n.ps2status = "SENDSTART" /\ n.dma = g.dma
                      /\ n.ps2statuscount = g.ps2statuscount /\ g.ps2statuscount # 0
         /\ g.ps2status = "WAIT100us" =>
              LET n == ProgressWait100us(g) IN
                /\ n.ps2status \in {"WAIT100us", "SENDING"}
                /\ n.ps2receivecommand = g.ps2receivecommand
                /\ n.ps2sending = g.ps2sending
<1>1. g.ps2status = "INIT" => ProgressInit(g).ps2status \in {"INIT", "0"}
  BY FinishFacts DEF ProgressInit
<1>2. ASSUME g.ps2status = "SENDSTART", g.ps2statuscount = 0
      PROVE  /\ ProgressSendStart(g).ps2status = "WAIT100us"
             /\ ProgressSendStart(g).ps2receivecommand = g.ps2receivecommand
  BY <1>2 DEF ProgressSendStart, Enter, Globals
<1>3. ASSUME g.ps2status = "WAIT100us", g.ps2statuscount = 0
      PROVE  /\ ProgressWait100us(g).ps2status = "SENDING"
             /\ ProgressWait100us(g).ps2receivecommand = g.ps2receivecommand
             /\ ProgressWait100us(g).ps2sending = g.ps2sending
  BY <1>3 DEF ProgressWait100us, Enter, Globals
<1>4. g.ps2statuscount # 0 => ProgressSendStart(g) = g /\ ProgressWait100us(g) = g
  BY DEF ProgressSendStart, ProgressWait100us
<1> QED BY <1>1, <1>2, <1>3, <1>4

LEMMA SendingPhase ==
  ASSUME NEW g \in Globals, g.ps2status = "SENDING", NEW n, n = ProgressSending(g)
  PROVE  \/ n.ps2status = "0"
         \/ /\ ~g.ps2sending /\ Sent(g) # "RESEND" /\ n.ps2status = "WAITACK"
            /\ n.ps2receivecommand = g.ps2receivecommand
            /\ n.ps2sendcomdata = g.ps2sendcomdata
         \/ g.ps2sending /\ n = g
<1>1. CASE ~g.ps2sending /\ Sent(g) = "RESEND"
  BY <1>1, FinishFacts DEF ProgressSending
<1>2. CASE ~g.ps2sending /\ Sent(g) # "RESEND"
  <2>1. n = [Enter(g, "WAITACK", PS2TIME_ACKTIMEOUT) EXCEPT !.ps2receiveError = FALSE]
    BY <1>2 DEF ProgressSending
  <2> QED BY <1>2, <2>1 DEF Enter, Globals
<1>3. CASE g.ps2sending /\ g.ps2statuscount = 0
  <2>1. n = [Finish(g) EXCEPT !.ps2sendError = TRUE, !.ps2sending = FALSE,
                              !.clkint = FALSE, !.dma = TRUE]
    BY <1>3 DEF ProgressSending
  <2> QED BY <2>1 DEF Finish, Globals
<1>4. CASE g.ps2sending /\ g.ps2statuscount # 0
  BY <1>4 DEF ProgressSending
<1> QED BY <1>1, <1>2, <1>3, <1>4

LEMMA SendAgainHears ==
  ASSUME NEW g \in Globals
  PROVE  /\ SendAgain(g).ps2status = "SENDSTART"
         /\ SendAgain(g).ps2statuscount = PS2TIME_PRESEND
         /\ SendAgain(g).ps2receivecommand = g.ps2receivecommand
BY DEF SendAgain, Enter, Globals

LEMMA WaitAckPhase ==
  ASSUME NEW g0, Good(g0), g0.ps2status = "WAITACK", NEW n, n = ProgressWaitAck(g0)
  PROVE  \/ n.ps2status \in {"0", "WAITBAT"}
         \/ /\ n.ps2status = "SENDSTART" /\ n.ps2statuscount = PS2TIME_PRESEND
            /\ g0.ps2receivecommand # "none" /\ n.ps2receivecommand = "none"
         \/ /\ n.ps2status = "WAITACK" /\ g0.ps2receivecommand = "none"
            /\ n.ps2receivecommand = "none" /\ n.ps2sendcomdata = g0.ps2sendcomdata
<1> DEFINE g == [g0 EXCEPT !.ps2receivecommand = "none"]
           e == [g EXCEPT !.ps2sendcombyte = @ - 1, !.ps2sendcomdata = Tail(@)]
           answer == g0.ps2receivecommand
<1>1. g0 \in Globals /\ Held(g0)
  BY DEF Good
<1>2. /\ g \in Globals /\ g.ps2status = "WAITACK" /\ g.ps2receivecommand = "none"
      /\ g.ps2sendcomdata = g0.ps2sendcomdata
  <2>1. g \in Globals
    BY <1>1, Zenon DEF Globals
  <2> QED BY <1>1, <2>1 DEF Globals
<1>3. n = CASE answer = "RESEND" -> SendAgain(g)
            [] answer = "ACK" /\ Sent(g) = "RESET" ->
                 [Enter(g, "WAITBAT", PS2TIME_BATTIMEOUT) EXCEPT
                    !.ps2sendcombyte = 0, !.ps2receiveError = FALSE]
            [] (answer = "ACK" /\ Sent(g) # "RESET") \/ answer \in {"BAT", "ODD"} ->
                 IF g.ps2sendcombyte > 1 THEN SendAgain(e)
                 ELSE [Finish(g) EXCEPT !.ps2sendcombyte = 0]
            [] answer = "none" /\ g.ps2statuscount = 0 ->
                 [Finish(g) EXCEPT !.ps2sendError = TRUE, !.ps2sendcombyte = 0]
            [] OTHER -> g
  BY DEF ProgressWaitAck
<1>4. answer \in {"ACK", "RESEND", "BAT", "ODD", "none"}
  BY <1>1 DEF Globals, Responses
<1>5. /\ SendAgain(g).ps2status = "SENDSTART"
      /\ SendAgain(g).ps2statuscount = PS2TIME_PRESEND
      /\ SendAgain(g).ps2receivecommand = "none"
  BY <1>2, SendAgainHears
<1>6. /\ SendAgain(e).ps2status = "SENDSTART"
      /\ SendAgain(e).ps2statuscount = PS2TIME_PRESEND
      /\ SendAgain(e).ps2receivecommand = "none"
  BY <1>2 DEF SendAgain, Enter, Globals
<1>7. /\ [Enter(g, "WAITBAT", PS2TIME_BATTIMEOUT) EXCEPT
            !.ps2sendcombyte = 0, !.ps2receiveError = FALSE].ps2status = "WAITBAT"
      /\ [Finish(g) EXCEPT !.ps2sendcombyte = 0].ps2status = "0"
      /\ [Finish(g) EXCEPT !.ps2sendError = TRUE, !.ps2sendcombyte = 0].ps2status = "0"
  BY <1>2 DEF Enter, Finish, Globals
<1> HIDE DEF g, e
<1>8. CASE answer = "RESEND"
  BY <1>3, <1>5, <1>8
<1>9. CASE answer = "ACK" /\ Sent(g) = "RESET"
  BY <1>3, <1>7, <1>9
<1>10. CASE (answer = "ACK" /\ Sent(g) # "RESET") \/ answer \in {"BAT", "ODD"}
  BY <1>3, <1>6, <1>7, <1>10
<1>11. CASE answer = "none"
  BY <1>2, <1>3, <1>7, <1>11
<1> QED BY <1>4, <1>8, <1>9, <1>10, <1>11

LEMMA StatusProgressHears ==
  ASSUME NEW g0, Good(g0), NEW n, n = StatusProgress(g0)
  PROVE  Hears(g0, n)
<1> DEFINE g == [g0 EXCEPT !.ps2statuscount = Minus1(@)]
<1>1. g0 \in Globals /\ Line(g0) /\ g0.ps2statuscount \in Nat
  BY DEF Good, Globals
<1>2. g \in Globals
  <2>1. Minus1(g0.ps2statuscount) \in Nat
    BY <1>1 DEF Minus1, Wrapped
  <2> QED BY <1>1, <2>1, Zenon DEF Globals
<1>3. /\ g.ps2status = g0.ps2status /\ g.ps2sending = g0.ps2sending /\ g.dma = g0.dma
      /\ g.ps2receivecommand = g0.ps2receivecommand
      /\ g.ps2sendcomdata = g0.ps2sendcomdata
      /\ g.ps2statuscount = Minus1(g0.ps2statuscount)
  BY <1>1 DEF Globals
<1>4. Good(g)
  <2>1. SameLine(g0, g)
    BY <1>1 DEF Globals, SameLine
  <2> QED BY <1>2, <2>1, SameLineIsGood
<1>5. n = CASE g.ps2status = "0" -> g0
            [] g.ps2status = "INIT" -> ProgressInit(g)
            [] g.ps2status = "SENDSTART" -> ProgressSendStart(g)
            [] g.ps2status = "WAIT100us" -> ProgressWait100us(g)
            [] g.ps2status = "SENDING" -> ProgressSending(g)
            [] g.ps2status = "WAITACK" -> ProgressWaitAck(g)
            [] g.ps2status = "WAITBAT" -> ProgressWaitBat(g)
  BY DEF StatusProgress
<1> HIDE DEF g
<1>6. CASE g.ps2status = "0"
  BY <1>3, <1>5, <1>6 DEF Hears, SameAnswer
<1>7. CASE g.ps2status = "INIT"
  BY <1>2, <1>3, <1>5, <1>7, EarlyPhases DEF Hears
<1>8. CASE g.ps2status = "SENDSTART"
  BY <1>2, <1>3, <1>5, <1>8, EarlyPhases DEF Hears
<1>9. CASE g.ps2status = "WAIT100us"
  <2>1. g.ps2sending
    BY <1>4, <1>9 DEF Good, Line
  <2> QED BY <1>2, <1>3, <1>5, <1>9, <2>1, EarlyPhases DEF Hears
<1>10. CASE g.ps2status = "SENDING"
  <2>1. n = ProgressSending(g)
    BY <1>5, <1>10
  <2>2. Sent(g) = Sent(g0)
    BY <1>3 DEF Sent
  <2> QED BY <1>2, <1>3, <1>10, <2>1, <2>2, SendingPhase DEF Hears
<1>11. CASE g.ps2status = "WAITACK"
  <2>1. n = ProgressWaitAck(g)
    BY <1>5, <1>11
  <2> QED BY <1>3, <1>4, <1>11, <2>1, WaitAckPhase DEF Hears
<1>12. CASE g.ps2status = "WAITBAT"
  <2>1. n = ProgressWaitBat(g)
    BY <1>5, <1>12
  <2>2. n.ps2status \in {"0", "WAITBAT"}
    BY <1>2, <1>12, <2>1 DEF ProgressWaitBat, Finish, Globals
  <2> QED BY <1>3, <1>12, <2>2 DEF Hears
<1>13. g.ps2status \in {"0", "INIT", "SENDSTART", "WAIT100us", "SENDING", "WAITACK", "WAITBAT"}
  BY <1>2 DEF Globals, Phases
<1> QED BY <1>6, <1>7, <1>8, <1>9, <1>10, <1>11, <1>12, <1>13

LEMMA CommandHears ==
  ASSUME NEW g \in Globals, NEW bytes, NEW n, n = Command(g, bytes)
  PROVE  n = g \/ (g.ps2status = "0" /\ New(n))
BY DEF Command, Globals, New

LEMMA ReceiveTimeoutHears ==
  ASSUME NEW g \in Globals
  PROVE  SameAnswer(g, ReceiveTimeout(g))
BY DEF ReceiveTimeout, Globals, SameAnswer

LEMMA RequestResendHears ==
  ASSUME NEW g \in Globals, NEW n, n = RequestResend(g)
  PROVE  SameAnswer(g, n) \/ (g.ps2status = "0" /\ New(n))
<1> DEFINE e == [g EXCEPT !.ps2receiveError = FALSE]
<1>1. e \in Globals /\ SameAnswer(g, e) /\ e.ps2status = g.ps2status
  BY DEF Globals, SameAnswer
<1>2. n = g \/ n = Command(e, <<Byte("RESEND")>>)
  BY DEF RequestResend
<1> HIDE DEF e
<1>3. CASE n = Command(e, <<Byte("RESEND")>>)
  BY <1>1, <1>3, CommandHears
<1> QED BY <1>2, <1>3 DEF SameAnswer

LEMMA ReadScanCodeHears ==
  ASSUME NEW g \in Globals, NEW n, n = ReadScanCode(g)
  PROVE  SameAnswer(g, n) \/ (g.ps2status = "0" /\ New(n))
<1> DEFINE rest == [g EXCEPT !.scancodebuf = Tail(@)]
           k == [rest EXCEPT !.lock = @ \cup {Head(g.scancodebuf)}]
<1>1. CASE g.scancodebuf = <<>>
  BY <1>1 DEF ReadScanCode, SameAnswer
<1>2. CASE g.scancodebuf # <<>>
  <2>1. g.scancodebuf \in Seq(LockKeys) /\ Head(g.scancodebuf) \in LockKeys
        /\ Tail(g.scancodebuf) \in Seq(LockKeys)
    BY <1>2 DEF Globals
  <2>2. n = rest \/ n = Command(k, SetLeds(k))
    BY <1>2 DEF ReadScanCode
  <2>3. rest \in Globals /\ SameAnswer(g, rest)
    BY <2>1 DEF Globals, SameAnswer
  <2>4. k \in Globals /\ SameAnswer(g, k) /\ k.ps2status = g.ps2status
    BY <2>1 DEF Globals, SameAnswer
  <2> HIDE DEF k
  <2>5. CASE n = Command(k, SetLeds(k))
    BY <2>4, <2>5, CommandHears
  <2> QED BY <2>2, <2>3, <2>5
<1> QED BY <1>1, <1>2

LEMMA T5Hears ==
  ASSUME NEW g, Good(g), NEW n, n = T5(g)
  PROVE  Hears(g, n)
<1> DEFINE a == StatusProgress(g)
           b == ReceiveTimeout(a)
           c == RequestResend(b)
<1>1. Good(a) /\ Hears(g, a)
  BY StatusProgressFacts, StatusProgressHears
<1> HIDE DEF a
<1>2. Good(b) /\ SameAnswer(a, b)
  BY <1>1, ReceiveTimeoutFacts, ReceiveTimeoutHears DEF Good
<1> HIDE DEF b
<1>3. Good(c) /\ (SameAnswer(b, c) \/ (b.ps2status = "0" /\ New(c)))
  BY <1>2, RequestResendFacts, RequestResendHears DEF Good
<1>4. n = ReadScanCode(c)
  BY DEF T5, a, b
<1> HIDE DEF c
<1>5. SameAnswer(c, n) \/ (c.ps2status = "0" /\ New(n))
  BY <1>3, <1>4, ReadScanCodeHears DEF Good
<1>6. SameAnswer(a, n) \/ (a.ps2status = "0" /\ New(n))
  BY <1>2, <1>3, <1>5 DEF SameAnswer, New
<1>7. CASE SameAnswer(a, n)
  BY <1>1, <1>7 DEF Hears, SameAnswer, New
<1>8. CASE a.ps2status = "0" /\ New(n)
  BY <1>8 DEF Hears, New
<1> QED BY <1>6, <1>7, <1>8

-----------------------------------------------------------------------------
LEMMA InitAnswer == MaxSilent = 0 /\ Init => AInv
<1> SUFFICES ASSUME MaxSilent = 0, Init PROVE AInv
  OBVIOUS
<1>1. Obeys
  BY DEF Init, Obeys
<1> QED BY <1>1 DEF AInv, Init, Recorded, Early, Answer, Calling, Ended, Clocked

(* An edge of the keyboard's frame that is no end of it. *)
LEMMA NoEndRecorded ==
  ASSUME Recorded, ~dev.sent, NEW kind, kind # "end", NEW byte, Record(kind, byte)
  PROVE  ~Ended /\ ~Ended'
BY DEF Recorded, Ended, Record

LEMMA BudgetKept ==
  ASSUME Obeys, NEW what, what # "silent", Spend(what)
  PROVE  Obeys'
BY DEF Obeys, Spend

LEMMA NotSilent ==
  ASSUME Obeys
  PROVE  ~Spend("silent")
BY DEF Obeys, Spend

(* What Answered says stays while the keyboard does not answer. *)
LEMMA StillAnswered ==
  ASSUME Answered, ~Ended',
         h'.ps2receivecommand = "none", h'.ps2sendcomdata = h.ps2sendcomdata,
         dev'.replies = dev.replies, dev'.arg = dev.arg, dev'.leds = dev.leds
  PROVE  Answered'
BY DEF Answered, Taken, NoAck

LEMMA PressLockAnswer ==
  ASSUME Inv, AInv, NEW k \in LockKeys, PressLock(k)
  PROVE  AInv'
<1>1. dev \in Keyboards /\ UNCHANGED <<h, edges, main>>
  BY DEF Inv, Types, PressLock
<1>2. /\ dev'.frame = dev.frame /\ dev'.sent = dev.sent /\ dev'.replies = dev.replies
      /\ dev'.arg = dev.arg /\ dev'.leds = dev.leds
  BY <1>1 DEF PressLock, Keyboards
<1>3. Obeys'
  BY DEF AInv, Obeys, PressLock
<1> QED BY <1>1, <1>2, <1>3
        DEF AInv, Recorded, Early, Answer, Answered, Calling, Ended, Unheard, Clocked,
            NoAck, Taken, Sent

LEMMA SendStartAnswer ==
  ASSUME Inv, AInv, SendStart
  PROVE  AInv'
<1>1. /\ dev \in Keyboards /\ UNCHANGED <<h, main, budget>>
      /\ ~h.clklow /\ ~Requested /\ ~dev.sent /\ dev.frame = 0
  BY DEF Inv, Types, SendStart, LineFree
<1>2. /\ dev'.frame = 1 /\ dev'.sent = TRUE /\ dev'.replies = dev.replies
      /\ dev'.arg = dev.arg /\ dev'.leds = dev.leds
  BY <1>1 DEF SendStart, Keyboards
<1>3. ~Ended /\ ~Ended'
  BY <1>1, NoEndRecorded DEF AInv, SendStart
<1>4. Early'
  <2>1. h.ps2statuscount \in Nat
    BY DEF Inv, Good, Globals
  <2> QED BY <1>1, <1>2, <1>3, <2>1, Times DEF AInv, Early, Unheard
<1>5. Answer'
  BY <1>1, <1>2, <1>3, StillAnswered DEF AInv, Answer, Answered, Clocked, Unheard, Sent
<1> QED BY <1>1, <1>3, <1>4, <1>5 DEF AInv, Recorded, Calling, Obeys

LEMMA SendBitsAnswer ==
  ASSUME Inv, AInv, SendBits
  PROVE  AInv'
<1>1. /\ dev \in Keyboards /\ UNCHANGED <<h, main, budget>>
      /\ ~h.clklow /\ ~Requested /\ ~dev.sent /\ dev.frame > 0 /\ dev.frame \in Nat
  BY Frames DEF Inv, Types, SendBits, LineFree
<1>2. /\ dev'.frame = dev.frame + 1 /\ dev'.sent = TRUE /\ dev'.replies = dev.replies
      /\ dev'.arg = dev.arg /\ dev'.leds = dev.leds
  BY <1>1 DEF SendBits, Keyboards
<1>3. ~Ended /\ ~Ended'
  BY <1>1, NoEndRecorded DEF AInv, SendBits
<1>4. Early'
  <2>1. h.ps2statuscount \in Nat
    BY DEF Inv, Good, Globals
  <2> QED BY <1>1, <1>2, <1>3, <2>1, Times DEF AInv, Early, Unheard
<1>5. ~Clocked
  BY <1>1 DEF AInv, Answer
<1>6. Answer'
  BY <1>1, <1>2, <1>3, <1>5, StillAnswered DEF AInv, Answer, Answered, Clocked
<1> QED BY <1>1, <1>3, <1>4, <1>6 DEF AInv, Recorded, Calling, Obeys

LEMMA SendEndAnswer ==
  ASSUME Inv, AInv, SendEnd
  PROVE  AInv'
<1>1. /\ dev \in Keyboards /\ h \in Globals /\ Line(h) /\ UNCHANGED <<h, main>>
      /\ ~h.clklow /\ ~Requested /\ ~dev.sent /\ dev.frame = FrameTicks - 1
      /\ dev.replies \in Seq(Responses)
  BY DEF Inv, Good, Types, Keyboards, SendEnd, LineFree
<1>2. Waiting
  BY <1>1, Frames, FrameAssumption, Times DEF Inv, Types
<1>3. /\ dev'.frame = 0 /\ dev'.sent = TRUE
      /\ dev'.replies = IF dev.replies # <<>> THEN Tail(dev.replies) ELSE dev.replies
      /\ dev'.arg = dev.arg /\ dev'.leds = dev.leds
  BY <1>1 DEF SendEnd, Keyboards
<1>4. ~Ended
  BY <1>1 DEF AInv, Recorded
<1>5. ~h.dma => ~Ended'
  <2>1. ~h.dma => edges' = edges
    BY DEF SendEnd, Record
  <2> QED BY <1>4, <2>1 DEF Ended
<1>6. Obeys'
  BY BudgetKept DEF AInv, SendEnd, Obeys
<1>7. ~(h.ps2status = "SENDSTART" /\ h.dma) /\ ~Clocked /\ h.ps2status # "WAIT100us"
      /\ ~(h.ps2status = "SENDING" /\ h.ps2sending)
  <2>1. dev.frame > PS2TIME_PRESEND /\ dev.frame > 1 /\ dev.frame \in Nat
    BY <1>1, FrameAssumption, TimesAssumption
  <2>2. ~(h.ps2status = "SENDSTART" /\ h.dma)
    <3>1. h.ps2status = "SENDSTART" /\ h.dma =>
            h.ps2statuscount > 0 /\ dev.frame + h.ps2statuscount <= PS2TIME_PRESEND
      BY <1>1, Times DEF AInv, Early
    <3>2. h.ps2statuscount \in Nat
      BY <1>1 DEF Globals
    <3> QED BY <2>1, <3>1, <3>2, Times
  <2>3. ~Clocked
    <3>1. Clocked => dev.frame <= 1
      BY DEF AInv, Answer
    <3> QED BY <2>1, <3>1
  <2> QED BY <1>1, <2>2, <2>3 DEF Line, Requested
<1>8. Early'
  BY <1>1, <1>5, <1>7 DEF AInv, Early, Unheard
<1>9. Answer'
  <2> SUFFICES ASSUME h.ps2status = "WAITACK" PROVE Answered'
    BY <1>1, <1>7 DEF Answer, Clocked
  <2>1. Answered
    BY DEF AInv, Answer
  <2>2. NoAck(dev'.replies)
    <3>1. CASE dev.replies = <<>>
      BY <1>3, <3>1 DEF NoAck
    <3>2. CASE dev.replies # <<>> /\ NoAck(dev.replies)
      BY <1>1, <1>3, <3>2 DEF NoAck
    <3>3. CASE dev.replies # <<>> /\ ~NoAck(dev.replies)
      BY <1>3, <2>1, <3>3 DEF Answered
    <3> QED BY <3>1, <3>2, <3>3
  <2>3. Ended' /\ edges'[1].byte = "ACK" => Outgoing = "ACK"
    BY <1>4 DEF SendEnd, Record, Ended
  <2>4. Outgoing = "ACK" => ~NoAck(dev.replies)
    <3>1. CASE dev.replies = <<>>
      <4>1. Outgoing \in LockKeys
        BY <1>1, <1>2, <3>1 DEF Outgoing, Waiting, Keyboards
      <4> QED BY <4>1, KeysAssumption DEF Responses
    <3>2. CASE dev.replies # <<>>
      <4>1. Outgoing = dev.replies[1] /\ 1 \in 1 .. Len(dev.replies)
        BY <1>1, <3>2 DEF Outgoing
      <4> QED BY <4>1 DEF NoAck
    <3> QED BY <3>1, <3>2
  <2>5. Ended' /\ edges'[1].byte = "ACK" => Taken(Head(h.ps2sendcomdata))
    BY <2>1, <2>3, <2>4 DEF Answered
  <2> QED BY <1>1, <1>3, <2>1, <2>2, <2>5 DEF Answered, Taken, NoAck
<1>10. Calling'
  BY <1>1, <1>5 DEF AInv, Calling, Inv, Progress
<1> QED BY <1>3, <1>6, <1>8, <1>9, <1>10 DEF AInv, Recorded

(* A byte the keyboard takes is answered once. *)
LEMMA TakenAnswer ==
  ASSUME dev \in Keyboards, NEW b \in HostBytes, b.name # "RESEND",
         dev' = TakeByte(b) \/ dev' = Reply(<<"RESEND">>)
  PROVE  ~NoAck(dev'.replies) => Taken(b)' /\ dev'.replies[1] = "ACK" /\ NoAck(Tail(dev'.replies))
<1>1. NoAck(Tail(<<"ACK">>)) /\ NoAck(Tail(<<"ACK", "BAT">>)) /\ NoAck(<<"RESEND">>)
  BY DEF NoAck
<1>2. CASE dev' = Reply(<<"RESEND">>)
  BY <1>1, <1>2 DEF Reply, Keyboards
<1>3. CASE dev' = TakeByte(b) /\ b.name = "RESET"
  <2>1. dev'.replies = <<"ACK", "BAT">>
    BY <1>3 DEF TakeByte, Reply, Keyboards
  <2> QED BY <1>1, <1>3, <2>1 DEF Taken
<1>4. CASE dev' = TakeByte(b) /\ b.name = "SETLED"
  <2>1. dev'.replies = <<"ACK">> /\ dev'.arg = TRUE
    BY <1>4 DEF TakeByte, Reply, Keyboards
  <2> QED BY <1>1, <1>4, <2>1 DEF Taken
<1>5. CASE dev' = TakeByte(b) /\ b.name = "LEDS" /\ dev.arg
  <2>1. dev'.replies = <<"ACK">> /\ dev'.arg = FALSE /\ dev'.leds = b.leds
    BY <1>5 DEF TakeByte, Reply, Keyboards
  <2> QED BY <1>1, <1>5, <2>1 DEF Taken
<1>6. CASE dev' = TakeByte(b) /\ b.name = "LEDS" /\ ~dev.arg
  BY <1>1, <1>6 DEF TakeByte, Reply, Keyboards
<1> QED BY <1>2, <1>3, <1>4, <1>5, <1>6 DEF HostBytes

LEMMA ClockInAnswer ==
  ASSUME Inv, AInv, ClockIn
  PROVE  AInv'
<1> DEFINE b == Head(h.ps2sendcomdata)
<1>1. /\ h \in Globals /\ Held(h) /\ dev \in Keyboards /\ dev.frame = 0
      /\ h.ps2status = "SENDING" /\ h.ps2sending /\ Unheard
      /\ h' = SendDone(h) /\ UNCHANGED <<edges, main>>
  BY DEF Inv, Good, Types, NoFrame, AInv, Early, ClockIn, Requested
<1>2. b \in HostBytes
  <2>1. h.ps2sendcomdata \in Seq(HostBytes) /\ Len(h.ps2sendcomdata) > 0
    BY <1>1 DEF Globals, Held
  <2> QED BY <2>1
<1>3. (dev' = TakeByte(b) /\ UNCHANGED budget) \/ (dev' = Reply(<<"RESEND">>) /\ Spend("resend"))
  BY NotSilent DEF AInv, ClockIn
<1>4. dev'.frame = 0 /\ Obeys'
  BY <1>1, <1>2, <1>3, TakeByteFacts, BudgetKept DEF Inv, AInv, Obeys
<1>5. /\ h'.ps2status = "SENDING" /\ ~h'.ps2sending
      /\ h'.ps2receivecommand = "none" /\ h'.ps2sendcomdata = h.ps2sendcomdata
  BY <1>1 DEF SendDone, Globals, Unheard
<1>6. ~Ended /\ ~Ended'
  BY <1>1 DEF Unheard, Ended
<1>7. Answer'
  <2>1. b.name = Sent(h)'
    BY <1>5 DEF Sent
  <2>2. Sent(h)' # "RESEND" => Answered'
    BY <1>1, <1>2, <1>3, <1>5, <1>6, <2>1, TakenAnswer DEF Answered, Taken
  <2> QED BY <1>4, <1>5, <1>6, <2>2 DEF Answer, Unheard
<1>8. Calling'
  BY <1>1 DEF Inv, Progress, Calling
<1> QED BY <1>4, <1>5, <1>6, <1>7, <1>8 DEF AInv, Recorded, Early

(* Timer5, whatever the keyboard does at the same time: what it finds in     *)
(* the record, and what it leaves where a command goes on.                  *)
LEMMA TimerCalls ==
  ASSUME Inv, AInv, TickAllowed, NEW g, Good(g), SameLine(h, g),
         g.ps2receivecommand = h.ps2receivecommand \/ Ended,
         Hears(g, h'), Moves(g, h'), Good(h'), main'.pc = main.pc, ~Ended'
  PROVE  Calling'
<1>1. main.pc \in {"status", "count"} => ~main.preempted
  BY DEF TickAllowed, InCall
<1>2. main.pc = "status" => h'.ps2receivecommand = "none"
  BY <1>1 DEF Inv, Progress, AInv, Calling, Hears, SameAnswer, SameLine, New
<1>3. main.pc = "count" => ~h'.dma
  <2> SUFFICES ASSUME main.pc = "count" PROVE ~h'.dma
    OBVIOUS
  <2>1. h.ps2status = "SENDSTART" /\ ~h.dma
    BY <1>1 DEF Inv, Progress, AInv, Calling
  <2>2. g.ps2status = "SENDSTART" /\ ~g.dma
    BY <2>1 DEF SameLine
  <2>3. h'.ps2status \in {"SENDSTART", "WAIT100us"}
    BY <2>2 DEF Moves
  <2> QED BY <2>2, <2>3 DEF Hears, New, Good, Line
<1> QED BY <1>2, <1>3 DEF Calling

LEMMA T5HandlerAnswer ==
  ASSUME Inv, AInv, T5Handler
  PROVE  AInv'
<1>1. PICK g \in GetDMABUFdata(h) : h' = T5(g) /\ dev' = Period(h')
  BY DEF T5Handler
<1>2. /\ h \in Globals /\ Types /\ dev \in Keyboards /\ dev.frame \in Nat
      /\ edges' = <<>> /\ TickAllowed /\ main' = [main EXCEPT !.preempted = InCall]
  BY Frames DEF Inv, Good, Types, Keyboards, T5Handler
<1>3. /\ g \in Globals /\ Good(g) /\ SameLine(h, g) /\ Sent(g) = Sent(h)
      /\ g.ps2statuscount = h.ps2statuscount
      /\ g.ps2receivecommand = h.ps2receivecommand \/ Ended
      /\ g.ps2receivecommand = h.ps2receivecommand
           \/ g.ps2receivecommand \in {"ODD", edges[1].byte}
  BY <1>2, GetDMABUFdataFacts, GetDMABUFdataHears, SameLineIsGood DEF Inv, Good, SameLine, Sent
<1>4. Good(h') /\ Moves(g, h') /\ Hears(g, h')
  BY <1>1, <1>3, T5Facts, T5Hears
<1>5. /\ dev'.sent = FALSE /\ dev'.frame \in {0, dev.frame}
      /\ dev'.replies = dev.replies /\ dev'.arg = dev.arg /\ dev'.leds = dev.leds
  BY <1>1, <1>2 DEF Period, Keyboards
<1>6. ~Ended'
  BY <1>2 DEF Ended
<1>7. Obeys'
  <2>1. Lag
    BY DEF T5Handler
  <2> QED BY <2>1, BudgetKept DEF AInv, Lag, Obeys
<1>8. Calling'
  <2>1. main'.pc = main.pc
    BY <1>2 DEF Inv, Types, ProgramStates
  <2> QED BY <1>2, <1>3, <1>4, <1>6, <2>1, TimerCalls
(* A command that goes on hears nothing but an answer. *)
<1>9. h'.ps2status \in {"WAIT100us", "SENDING"} => h'.ps2receivecommand = "none"
  BY <1>3, <1>4 DEF AInv, Early, Unheard, Hears, SameLine
<1>10. h'.ps2status = "SENDSTART" => h'.ps2receivecommand = "none"
  BY <1>3, <1>4 DEF AInv, Early, Unheard, Hears, SameLine, New
<1>11. h'.ps2status = "SENDSTART" /\ h'.dma =>
         /\ h'.ps2statuscount > 0
         /\ dev'.frame + h'.ps2statuscount <= PS2TIME_PRESEND
  <2> SUFFICES ASSUME h'.ps2status = "SENDSTART", h'.dma
               PROVE  /\ h'.ps2statuscount > 0
                      /\ dev'.frame + h'.ps2statuscount <= PS2TIME_PRESEND
    OBVIOUS
  <2>1. CASE g.ps2status = "SENDSTART"
    <3>1. h.ps2status = "SENDSTART" /\ h.dma /\ h'.ps2statuscount # 0
          /\ h'.ps2statuscount = Minus1(h.ps2statuscount)
      BY <1>3, <1>4, <2>1 DEF Hears, New, SameLine
    <3>2. /\ h.ps2statuscount \in Nat /\ h.ps2statuscount > 0
          /\ dev.frame + h.ps2statuscount <= PS2TIME_PRESEND + 1
      BY <1>2, <3>1, Times DEF AInv, Early, Globals
    <3>3. h'.ps2statuscount = h.ps2statuscount - 1
      BY <3>1, <3>2 DEF Minus1
    <3> QED BY <1>2, <1>5, <3>1, <3>2, <3>3, Times
  <2>2. CASE g.ps2status # "SENDSTART"
    <3>1. /\ h.ps2status = "WAITACK" /\ g.ps2receivecommand # "none"
          /\ h'.ps2statuscount = PS2TIME_PRESEND
      BY <1>3, <1>4, <2>2 DEF Hears, New, SameLine
    <3>2. Ended
      BY <1>3, <3>1 DEF AInv, Answer, Answered
    <3>3. dev.frame = 0
      BY <3>2 DEF AInv, Recorded
    <3> QED BY <1>5, <3>1, <3>3, TimesAssumption
  <2> QED BY <2>1, <2>2
<1>12. Early'
  <2>1. h'.ps2statuscount \in Nat /\ dev'.frame \in Nat
    BY <1>2, <1>4, <1>5 DEF Good, Globals
  <2> QED BY <1>5, <1>6, <1>9, <1>10, <1>11, <2>1, Times DEF Early, Unheard
<1>13. Answer'
  <2>1. ~Clocked'
    BY <1>4 DEF Hears, Clocked
  <2> SUFFICES ASSUME h'.ps2status = "WAITACK" PROVE Answered'
    BY <2>1 DEF Answer
  <2>2. /\ h'.ps2receivecommand = g.ps2receivecommand
        /\ h'.ps2sendcomdata = h.ps2sendcomdata
        /\ \/ h.ps2status = "WAITACK" /\ g.ps2receivecommand = "none"
           \/ Clocked /\ Sent(h) # "RESEND"
    BY <1>3, <1>4 DEF Hears, SameLine, Clocked
  <2>3. Answered
    BY <2>2 DEF AInv, Answer
  <2>4. g.ps2receivecommand = "none"
    <3>1. Clocked => ~Ended
      BY DEF AInv, Answer, Unheard
    <3> QED BY <1>3, <2>2, <2>3, <3>1 DEF Answered
  <2> QED BY <1>5, <1>6, <2>2, <2>3, <2>4, StillAnswered
<1> QED BY <1>6, <1>7, <1>8, <1>12, <1>13 DEF AInv, Recorded

LEMMA LastClockInTimeoutAnswer ==
  ASSUME Inv, AInv, LastClockInTimeout
  PROVE  AInv'
<1>1. /\ h \in Globals /\ Good(h) /\ TickAllowed /\ UNCHANGED <<edges, budget>>
      /\ h.ps2status = "SENDING" /\ h.ps2sending /\ Unheard /\ h' = T5(h)
      /\ main' = [main EXCEPT !.preempted = InCall]
  BY DEF Inv, Good, AInv, Early, LastClockInTimeout, Requested
<1>2. Good(h') /\ Moves(h, h') /\ Hears(h, h')
  BY <1>1, T5Facts, T5Hears
<1>3. ~Ended /\ ~Ended'
  BY <1>1 DEF Unheard, Ended
<1>4. main'.pc = main.pc
  BY <1>1 DEF Inv, Types, ProgramStates
<1>5. Calling'
  BY <1>1, <1>2, <1>3, <1>4, TimerCalls DEF SameLine
<1>6. h'.ps2status \notin {"WAIT100us", "WAITACK"} /\ ~Clocked'
  BY <1>1, <1>2 DEF Hears, Clocked
<1>7. h'.ps2status = "SENDSTART" => New(h')
  BY <1>1, <1>2 DEF Hears
<1>8. h'.ps2status = "SENDING" => h'.ps2receivecommand = "none"
  BY <1>1, <1>2 DEF Hears, Unheard
<1> QED BY <1>1, <1>3, <1>5, <1>6, <1>7, <1>8
        DEF AInv, Recorded, Early, Answer, Unheard, Obeys, New

-----------------------------------------------------------------------------
(* The program: it moves no command that is under way. *)
LEMMA WaitAnswer ==
  ASSUME Inv, AInv, Spin \/ CallGivesUp
  PROVE  AInv'
<1>1. UNCHANGED <<h, edges, dev, budget>>
  BY DEF Spin, CallGivesUp
<1>2. main'.pc \in {"call", "drain", "spin", "ok", "failed"}
  <2>1. main \in ProgramStates
    BY DEF Inv, Types
  <2>2. \A pc \in {"spin", "ok", "failed"} : Return(pc).pc = pc
    BY <2>1, ReturnFacts
  <2>3. \A bytes : Call(bytes).pc = "call"
    BY DEF Call
  <2>4. [main EXCEPT !.pc = "drain"].pc = "drain"
    BY <2>1 DEF ProgramStates
  <2>5. CASE Spin
    BY <2>2, <2>3, <2>5 DEF Spin
  <2>6. CASE CallGivesUp
    BY <2>2, <2>4, <2>6 DEF CallGivesUp
  <2> QED BY <2>5, <2>6
<1> QED BY <1>1, <1>2
        DEF AInv, Recorded, Early, Answer, Answered, Calling, Obeys, Ended, Unheard, Clocked,
            NoAck, Taken, Sent

LEMMA DrainAnswer ==
  ASSUME Inv, AInv, Drain
  PROVE  AInv'
<1> DEFINE e == [h EXCEPT !.clkint = FALSE, !.dma = FALSE]
<1>1. h \in Globals /\ h.ps2status \in {"0", "SENDSTART"} /\ h' \in GetDMABUFdata(e)
      /\ UNCHANGED <<dev, budget>> /\ edges' = <<>>
  BY DEF Inv, Good, Progress, Drain
<1>2. /\ e \in Globals /\ ~e.dma /\ e.ps2status = h.ps2status
      /\ e.ps2receivecommand = h.ps2receivecommand
  BY <1>1 DEF Globals
<1> HIDE DEF e
<1>3. /\ h'.ps2status = h.ps2status /\ ~h'.dma
      /\ h'.ps2receivecommand = h.ps2receivecommand \/ Ended
  BY <1>1, <1>2, GetDMABUFdataFacts, GetDMABUFdataHears DEF Inv, SameLine
<1>4. ~Ended'
  BY <1>1 DEF Ended
<1>5. main'.pc = "fill"
  BY DEF Inv, Types, ProgramStates, Drain
<1> QED BY <1>1, <1>3, <1>4, <1>5
        DEF AInv, Recorded, Early, Answer, Calling, Obeys, Unheard, Clocked

LEMMA FillAnswer ==
  ASSUME Inv, AInv, Fill
  PROVE  AInv'
<1>1. /\ h \in Globals /\ h.ps2status \in {"0", "SENDSTART"} /\ ~h.dma /\ ~Ended
      /\ UNCHANGED <<edges, dev, budget>>
  BY DEF Inv, Good, Progress, AInv, Calling, Fill
<1>2. h'.ps2status = h.ps2status /\ ~h'.dma /\ h'.ps2receivecommand = "none"
  BY <1>1 DEF Fill, Globals
<1>3. main'.pc = "status"
  BY DEF Inv, Types, ProgramStates, Fill
<1>4. ~Ended'
  BY <1>1 DEF Ended
<1> QED BY <1>1, <1>2, <1>3, <1>4
        DEF AInv, Recorded, Early, Answer, Calling, Obeys, Unheard, Clocked

LEMMA SetStatusAnswer ==
  ASSUME Inv, AInv, SetStatus
  PROVE  AInv'
<1>1. /\ h \in Globals /\ ~h.dma /\ ~Ended /\ h.ps2receivecommand = "none"
      /\ UNCHANGED <<edges, dev, budget>>
  BY DEF Inv, Good, Progress, AInv, Calling, SetStatus
<1>2. h'.ps2status = "SENDSTART" /\ ~h'.dma /\ h'.ps2receivecommand = "none"
  BY <1>1 DEF SetStatus, Globals
<1>3. main'.pc = "count"
  BY DEF Inv, Types, ProgramStates, SetStatus
<1>4. ~Ended'
  BY <1>1 DEF Ended
<1> QED BY <1>1, <1>2, <1>3, <1>4
        DEF AInv, Recorded, Early, Answer, Calling, Obeys, Unheard, Clocked

LEMMA SetCountAnswer ==
  ASSUME Inv, AInv, SetCount
  PROVE  AInv'
<1>1. /\ h \in Globals /\ h.ps2status \in {"SENDSTART", "WAIT100us"} /\ ~h.dma
      /\ UNCHANGED <<edges, dev, budget>>
  BY DEF Inv, Good, Progress, AInv, Calling, SetCount
<1>2. /\ h'.ps2status = h.ps2status /\ ~h'.dma
      /\ h'.ps2receivecommand = h.ps2receivecommand
  BY <1>1 DEF SetCount, Globals
<1>3. main'.pc = "spin"
  BY ReturnFacts DEF Inv, Types, SetCount
<1>4. Ended' = Ended
  BY <1>1 DEF Ended
<1> QED BY <1>1, <1>2, <1>3, <1>4
        DEF AInv, Recorded, Early, Answer, Calling, Obeys, Unheard, Clocked

-----------------------------------------------------------------------------
LEMMA AnswerStep == Inv /\ AInv /\ [Next]_vars => AInv'
<1> SUFFICES ASSUME Inv, AInv, [Next]_vars PROVE AInv'
  OBVIOUS
<1>1. CASE Program
  BY <1>1, WaitAnswer, DrainAnswer, FillAnswer, SetStatusAnswer, SetCountAnswer DEF Program
<1>2. CASE Keyboard
  BY <1>2, SendStartAnswer, SendBitsAnswer, SendEndAnswer, ClockInAnswer DEF Keyboard
<1>3. CASE T5Handler
  BY <1>3, T5HandlerAnswer
<1>4. CASE LastClockInTimeout
  BY <1>4, LastClockInTimeoutAnswer
<1>5. CASE \E k \in LockKeys : PressLock(k)
  BY <1>5, PressLockAnswer
<1>6. CASE UNCHANGED vars
  BY <1>6 DEF vars, AInv, Recorded, Early, Answer, Answered, Calling, Obeys, Ended, Unheard,
              Clocked, NoAck, Taken, Sent
<1> QED BY <1>1, <1>2, <1>3, <1>4, <1>5, <1>6 DEF Next

(* If the keyboard takes every byte, at once or after asking for it again,  *)
(* then the ACK the driver acts on means that it has, however late it comes  *)
(* and whatever frames broke or went lost.                                  *)
THEOREM AckMeansTakenHolds == MaxSilent = 0 /\ Spec => []AckMeansTaken
<1>1. Inv /\ AInv => AckMeansTaken
  <2> SUFFICES ASSUME Inv, AInv, NEW g \in GetDMABUFdata(h),
                      g.ps2status = "WAITACK", g.ps2receivecommand = "ACK"
               PROVE  Taken(Head(g.ps2sendcomdata)) /\ NoAck(dev.replies)
    BY DEF AckMeansTaken, Taken, NoAck
  <2>1. h \in Globals /\ Types
    BY DEF Inv, Good
  <2>2. SameLine(h, g) /\ (g.ps2receivecommand = h.ps2receivecommand
                           \/ (Ended /\ g.ps2receivecommand \in {"ODD", edges[1].byte}))
    BY <2>1, GetDMABUFdataFacts, GetDMABUFdataHears
  <2>3. Answered
    BY <2>2 DEF AInv, Answer, SameLine
  <2>4. Ended /\ edges[1].byte = "ACK"
    BY <2>2, <2>3 DEF Answered
  <2> QED BY <2>2, <2>3, <2>4 DEF Answered, SameLine
<1> QED BY <1>1, InvHolds, InitAnswer, AnswerStep, PTL DEF Spec
================================================================================
