--------------------------- MODULE ProtocolProofs ---------------------------
(***************************************************************************)
(* What holds of the SMTP dialogue for every number of commands, and of    *)
(* the argument that a tunnel's two handlers share for every number of     *)
(* threads and of chunks.                                                  *)
(***************************************************************************)
EXTENDS Smtp, Tunnel, SequenceTheorems, FiniteSetTheorems, TLAPS

-----------------------------------------------------------------------------
(* Smtp: the dialogue keeps to the handler's protocol *)

\* The fields of a session
SmtpRecord ==
    smtp = [open |-> smtp.open, started |-> smtp.started, decoder |-> smtp.decoder,
            mAuthStep |-> smtp.mAuthStep, mSeenAuth |-> smtp.mSeenAuth,
            mSeenHelo |-> smtp.mSeenHelo, mSeenSender |-> smtp.mSeenSender,
            mRcptCount |-> smtp.mRcptCount, mSeenData |-> smtp.mSeenData,
            mDataMode |-> smtp.mDataMode]

\* A call of the user's handler
CallNames == {"from", "rcpt", "data"}
Calls == [name : CallNames, res : Results]

\* What the proof needs to know of the fields
SmtpTyped ==
    /\ SmtpRecord
    /\ calls \in Seq(Calls)
    /\ smtp.mRcptCount \in Nat

\* The handler has accepted a call of this name since rset.
Had(name) == \E j \in DOMAIN calls : calls[j] = [name |-> name, res |-> "eAccept"]

\* What the flags of the session remember of the calls
Remembered ==
    /\ smtp.mSeenSender <=> Had("from")
    /\ smtp.mRcptCount > 0 => Had("rcpt")
    /\ ~smtp.mSeenData => \A j \in DOMAIN calls : calls[j].name # "data"
    /\ smtp.mDataMode => smtp.mSeenData /\ Had("rcpt")

\* SmtpDialogue says what the calls look like and nothing of the flags that the
\* guards of handle() test: the invariant adds what each flag stands for.
SmtpInv ==
    /\ SmtpTyped
    /\ Remembered
    /\ HandlerProtocol
    /\ smtp.started => smtp.decoder = IF smtp.mDataMode THEN "DotTermChunk" ELSE "Line"
    /\ ~smtp.started => ~smtp.mDataMode

\* A new session has made no call.
LEMMA SmtpInvInit == SmtpInit => SmtpInv
  <1> SUFFICES ASSUME SmtpInit PROVE SmtpInv
    OBVIOUS
  <1>1. /\ SmtpRecord /\ calls = <<>> /\ ~smtp.started /\ smtp.mRcptCount = 0
        /\ ~smtp.mSeenSender /\ ~smtp.mSeenData /\ ~smtp.mDataMode
    BY DEF SmtpInit, NewSmtp, SmtpRecord
  <1>2. DOMAIN calls = {}
    BY <1>1
  <1> QED
    BY <1>1, <1>2 DEF SmtpInv, SmtpTyped, Remembered, Had, HandlerProtocol

\* The steps that make no call: a plain command, start() and DATA.
LEMMA SmtpSilent ==
    ASSUME SmtpInv, SmtpRecord', calls' = calls,
           smtp'.mSeenSender = smtp.mSeenSender, smtp'.mRcptCount = smtp.mRcptCount,
           \/ /\ smtp'.mSeenData = smtp.mSeenData
              /\ smtp'.mDataMode = smtp.mDataMode
              /\ smtp'.started = smtp.started
              /\ smtp'.decoder = smtp.decoder
           \/ /\ smtp'.mSeenData = smtp.mSeenData
              /\ smtp'.mDataMode = smtp.mDataMode
              /\ ~smtp.started /\ smtp'.decoder = "Line" /\ smtp'.started
           \/ /\ smtp'.mSeenData /\ smtp'.mDataMode /\ smtp.mRcptCount > 0
              /\ smtp'.started /\ smtp'.decoder = "DotTermChunk"
    PROVE  SmtpInv'
  BY DEF SmtpInv, SmtpTyped, Remembered, Had, HandlerProtocol, Accepted

\* What one more call adds to the calls.
LEMMA SmtpAppend ==
    ASSUME SmtpTyped, NEW name \in CallNames, NEW res \in Results, Called(name, res)
    PROVE  /\ calls' \in Seq(Calls)
           /\ Len(calls) \in Nat
           /\ DOMAIN calls = 1 .. Len(calls)
           /\ DOMAIN calls' = 1 .. (Len(calls) + 1)
           /\ \A j \in 1 .. Len(calls) : calls'[j] = calls[j]
           /\ calls'[Len(calls) + 1] = [name |-> name, res |-> res]
           /\ \A x : Had(x)' <=> Had(x) \/ (x = name /\ res = "eAccept")
  <1> DEFINE c == [name |-> name, res |-> res]
             n == Len(calls)
  <1>1. c \in Calls /\ calls' = Append(calls, c)
    BY DEF Calls, Called
  <1>2. calls \in Seq(Calls)
    BY DEF SmtpTyped
  <1>3. calls' \in Seq(Calls) /\ n \in Nat /\ DOMAIN calls = 1 .. n
        /\ DOMAIN calls' = 1 .. (n + 1)
        /\ (\A j \in 1 .. n : calls'[j] = calls[j])
        /\ calls'[n + 1] = c
    BY <1>1, <1>2, AppendProperties
  <1>4. ASSUME NEW x
        PROVE  Had(x)' <=> Had(x) \/ (x = name /\ res = "eAccept")
    <2> DEFINE a == [name |-> x, res |-> "eAccept"]
    <2>1. c = a <=> x = name /\ res = "eAccept"
      OBVIOUS
    <2>2. (\E j \in 1 .. (n + 1) : calls'[j] = a) <=> (\E j \in 1 .. n : calls[j] = a) \/ c = a
      <3> HIDE DEF a, c
      <3>1. 1 .. (n + 1) = (1 .. n) \cup {n + 1}
        BY <1>3
      <3> QED
        BY <1>3, <3>1
    <2> QED
      BY <1>3, <2>1, <2>2 DEF Had
  <1> QED
    BY <1>3, <1>4

\* A call of another name leaves the calls without data.
LEMMA SmtpNoData ==
    ASSUME SmtpTyped, NEW name \in CallNames, NEW res \in Results, Called(name, res),
           name # "data", \A j \in DOMAIN calls : calls[j].name # "data"
    PROVE  \A j \in DOMAIN calls' : calls'[j].name # "data"
  <1> DEFINE n == Len(calls)
  <1>1. /\ n \in Nat /\ DOMAIN calls = 1 .. n /\ DOMAIN calls' = 1 .. (n + 1)
        /\ \A j \in 1 .. n : calls'[j] = calls[j]
        /\ calls'[n + 1] = [name |-> name, res |-> res]
    BY SmtpAppend
  <1>2. \A j \in 1 .. (n + 1) : j \in 1 .. n \/ j = n + 1
    BY <1>1
  <1> QED
    BY <1>1, <1>2

\* The protocol is extended by a call that keeps to it.
LEMMA SmtpCall ==
    ASSUME SmtpTyped, HandlerProtocol,
           NEW name \in CallNames, NEW res \in Results, Called(name, res),
           name = "data" => Had("rcpt"),
           name = "rcpt" => Had("from") /\ \A j \in DOMAIN calls : calls[j].name # "data",
           name = "from" => ~Had("from")
    PROVE  HandlerProtocol'
  <1> DEFINE n == Len(calls)
  <1>1. /\ calls' \in Seq(Calls)
        /\ n \in Nat
        /\ DOMAIN calls = 1 .. n
        /\ DOMAIN calls' = 1 .. (n + 1)
        /\ \A j \in 1 .. n : calls'[j] = calls[j]
        /\ calls'[n + 1] = [name |-> name, res |-> res]
    BY SmtpAppend
  <1>2. \A x, i : i \in 1 .. (n + 1) => (Accepted(x, i)' <=> Accepted(x, i))
    <2> SUFFICES ASSUME NEW x, NEW i \in 1 .. (n + 1)
                 PROVE  Accepted(x, i)' <=> Accepted(x, i)
      OBVIOUS
    <2>1. \A j \in 1 .. (i - 1) : j \in 1 .. n
      BY <1>1
    <2> QED
      BY <1>1, <2>1 DEF Accepted
  <1>3. \A x : Accepted(x, n + 1) <=> Had(x)
    <2>1. (n + 1) - 1 = n
      BY <1>1
    <2> QED
      BY <1>1, <2>1 DEF Accepted, Had
  <1> DEFINE Good(c, i) ==
        /\ c.name = "data" => Accepted("rcpt", i)
        /\ c.name = "rcpt" => Accepted("from", i) /\ \A j \in 1 .. (i - 1) : calls[j].name # "data"
        /\ c.name = "from" => ~Accepted("from", i)
  <1>4. \A i \in 1 .. n : Good(calls[i], i)
    BY <1>1 DEF HandlerProtocol
  <1>5. Good(calls'[n + 1], n + 1)
    <2>1. (n + 1) - 1 = n
      BY <1>1
    <2> QED
      BY <1>1, <1>3, <2>1
  <1>6. ASSUME NEW i \in DOMAIN calls'
        PROVE  CASE calls'[i].name = "data" -> Accepted("rcpt", i)'
                 [] calls'[i].name = "rcpt" -> Accepted("from", i)'
                          /\ \A j \in 1 .. (i - 1) : calls'[j].name # "data"
                 [] calls'[i].name = "from" -> ~Accepted("from", i)'
    <2>1. Good(calls'[i], i)
      <3>1. CASE i \in 1 .. n
        BY <1>1, <1>4, <3>1
      <3>2. CASE i = n + 1
        BY <1>5, <3>2
      <3> QED
        BY <1>1, <1>6, <3>1, <3>2
    <2>2. calls'[i].name \in CallNames
      <3>1. calls'[i] \in Calls
        BY <1>1, <1>6, ElementOfSeq
      <3> QED
        BY <3>1 DEF Calls
    <2>3. \A j \in 1 .. (i - 1) : calls'[j] = calls[j]
      BY <1>1, <1>6
    <2>4. /\ Accepted("rcpt", i)' <=> Accepted("rcpt", i)
          /\ Accepted("from", i)' <=> Accepted("from", i)
      BY <1>1, <1>2, <1>6
    <2>5. CASE calls'[i].name = "data"
      BY <2>1, <2>4, <2>5
    <2>6. CASE calls'[i].name = "rcpt"
      BY <2>1, <2>3, <2>4, <2>6
    <2>7. CASE calls'[i].name = "from"
      BY <2>1, <2>4, <2>7
    <2> QED
      BY <2>2, <2>5, <2>6, <2>7 DEF CallNames
  <1> QED
    BY <1>6 DEF HandlerProtocol

\* Every step keeps the invariant.
LEMMA SmtpInvNext == SmtpInv /\ [SmtpNext]_smtpVars => SmtpInv'
  <1> SUFFICES ASSUME SmtpInv, [SmtpNext]_smtpVars
               PROVE  SmtpInv'
    OBVIOUS
  <1>0. SmtpTyped /\ SmtpRecord /\ HandlerProtocol /\ Remembered
    BY DEF SmtpInv, SmtpTyped
  <1>1. ASSUME NEW res \in Results, Start(res)
        PROVE  SmtpInv'
    <2>1. /\ SmtpRecord' /\ calls' = calls /\ ~smtp.started /\ smtp'.started
          /\ smtp'.decoder = "Line" /\ smtp'.mSeenSender = smtp.mSeenSender
          /\ smtp'.mRcptCount = smtp.mRcptCount /\ smtp'.mSeenData = smtp.mSeenData
          /\ smtp'.mDataMode = smtp.mDataMode
      BY <1>0, <1>1 DEF Start, SmtpRecord
    <2> QED
      BY <2>1, SmtpSilent
  <1>2. ASSUME NEW res \in Results,
               \/ HandlePass(res) \/ Ehlo(res) \/ Helo(res) \/ NoopHelp(res)
               \/ HandleUser \/ Auth \/ Quit
        PROVE  SmtpInv'
    <2>1. /\ SmtpRecord' /\ calls' = calls /\ smtp'.started = smtp.started
          /\ smtp'.decoder = smtp.decoder /\ smtp'.mSeenSender = smtp.mSeenSender
          /\ smtp'.mRcptCount = smtp.mRcptCount /\ smtp'.mSeenData = smtp.mSeenData
          /\ smtp'.mDataMode = smtp.mDataMode
      <3>1. CASE HandlePass(res)
        BY <1>0, <3>1 DEF HandlePass, Finish, SmtpRecord
      <3>2. CASE Ehlo(res) \/ Helo(res)
        BY <1>0, <3>2 DEF Ehlo, Helo, Finish, With, SmtpRecord
      <3>3. CASE NoopHelp(res) \/ Quit
        BY <1>0, <3>3 DEF NoopHelp, Quit, Finish, SmtpRecord
      <3>4. CASE HandleUser \/ Auth
        BY <1>0, <3>4 DEF HandleUser, Auth, With, SmtpRecord
      <3> QED
        BY <1>2, <3>1, <3>2, <3>3, <3>4
    <2> QED
      BY <2>1, SmtpSilent
  <1>3. CASE DataCmd
    <2>1. /\ SmtpRecord' /\ calls' = calls /\ smtp.started /\ smtp'.started
          /\ smtp'.decoder = "DotTermChunk" /\ smtp'.mSeenSender = smtp.mSeenSender
          /\ smtp'.mRcptCount = smtp.mRcptCount /\ smtp'.mSeenData
          /\ smtp'.mDataMode /\ smtp.mRcptCount > 0
      BY <1>0, <1>3 DEF DataCmd, Command, Ready, With, SetDataMode, SmtpRecord
    <2> QED
      BY <2>1, SmtpSilent
  <1>4. ASSUME NEW res \in Results, Rset(res)
        PROVE  SmtpInv'
    <2>1. /\ SmtpRecord' /\ calls' = <<>> /\ smtp'.started = smtp.started
          /\ smtp'.decoder = smtp.decoder /\ ~smtp'.mSeenSender
          /\ smtp'.mRcptCount = 0 /\ ~smtp'.mSeenData /\ ~smtp'.mDataMode /\ ~smtp.mDataMode
      BY <1>0, <1>4 DEF Rset, Command, Finish, ResetSession, SmtpRecord
    <2>2. DOMAIN calls' = {}
      BY <2>1
    <2> QED
      BY <2>1, <2>2 DEF SmtpInv, SmtpTyped, Remembered, Had, HandlerProtocol
  <1>5. ASSUME NEW res \in Results, HandleText(res)
        PROVE  SmtpInv'
    <2>1. /\ SmtpRecord' /\ Called("data", res) /\ smtp'.started = smtp.started
          /\ smtp.mDataMode /\ smtp'.decoder = "Line" /\ smtp'.mSeenSender = smtp.mSeenSender
          /\ smtp'.mRcptCount = smtp.mRcptCount /\ (smtp'.mSeenData <=> smtp.mSeenData)
          /\ ~smtp'.mDataMode
      BY <1>0, <1>5 DEF HandleText, Finish, With, SetDataMode, SmtpRecord
    <2>2. HandlerProtocol'
      BY <1>0, <2>1, SmtpCall DEF Remembered, CallNames
    <2>3. calls' \in Seq(Calls) /\ \A x : Had(x)' <=> Had(x) \/ (x = "data" /\ res = "eAccept")
      BY <1>0, <2>1, SmtpAppend DEF CallNames
    <2>4. SmtpTyped'
      BY <1>0, <2>1, <2>3 DEF SmtpTyped
    <2>5. Remembered'
      BY <1>0, <2>1, <2>3 DEF Remembered
    <2> QED
      BY <2>1, <2>2, <2>4, <2>5 DEF SmtpInv
  <1>6. ASSUME NEW res \in Results, Mail(res)
        PROVE  SmtpInv'
    <2>1. /\ SmtpRecord' /\ Called("from", res) /\ smtp'.started = smtp.started
          /\ ~smtp.mSeenSender /\ smtp'.mSeenSender = (res = "eAccept")
          /\ smtp'.mRcptCount = smtp.mRcptCount /\ smtp'.mSeenData = smtp.mSeenData
          /\ smtp'.mDataMode = smtp.mDataMode /\ smtp'.decoder = smtp.decoder
      BY <1>0, <1>6 DEF Mail, Finish, With, SmtpRecord
    <2>2. HandlerProtocol'
      BY <1>0, <2>1, SmtpCall DEF Remembered, CallNames
    <2>3. /\ calls' \in Seq(Calls) /\ \A x : Had(x)' <=> Had(x) \/ (x = "from" /\ res = "eAccept")
          /\ (\A j \in DOMAIN calls : calls[j].name # "data")
                => \A j \in DOMAIN calls' : calls'[j].name # "data"
      BY <1>0, <2>1, SmtpAppend, SmtpNoData DEF CallNames
    <2>4. SmtpTyped'
      BY <1>0, <2>1, <2>3 DEF SmtpTyped
    <2>5. Remembered'
      BY <1>0, <2>1, <2>3 DEF Remembered
    <2> QED
      BY <2>1, <2>2, <2>4, <2>5 DEF SmtpInv
  <1>7. ASSUME NEW res \in Results, Rcpt(res)
        PROVE  SmtpInv'
    <2>1. PICK c : /\ c = (IF res = "eAccept" THEN smtp.mRcptCount + 1 ELSE smtp.mRcptCount)
                   /\ smtp' = [smtp EXCEPT !.mRcptCount = c, !.open = res # "eClose"]
      BY <1>7, <1>0 DEF Rcpt, Finish, SmtpRecord
    <2>2. /\ SmtpRecord' /\ Called("rcpt", res) /\ smtp'.started = smtp.started
          /\ smtp.mSeenSender /\ ~smtp.mSeenData /\ smtp'.mSeenSender = smtp.mSeenSender
          /\ smtp'.mRcptCount = c /\ smtp'.mSeenData = smtp.mSeenData
          /\ smtp'.mDataMode = smtp.mDataMode /\ smtp'.decoder = smtp.decoder
      BY <1>0, <2>1, <1>7 DEF Rcpt, SmtpRecord
    <2>3. HandlerProtocol'
      BY <1>0, <2>2, SmtpCall DEF Remembered, CallNames
    <2>4. /\ calls' \in Seq(Calls) /\ \A x : Had(x)' <=> Had(x) \/ (x = "rcpt" /\ res = "eAccept")
          /\ (\A j \in DOMAIN calls : calls[j].name # "data")
                => \A j \in DOMAIN calls' : calls'[j].name # "data"
      BY <1>0, <2>2, SmtpAppend, SmtpNoData DEF CallNames
    <2>5. SmtpTyped'
      BY <1>0, <2>1, <2>2, <2>4 DEF SmtpTyped
    <2>6. Remembered'
      BY <1>0, <2>1, <2>2, <2>4 DEF Remembered
    <2> QED
      BY <2>2, <2>3, <2>5, <2>6 DEF SmtpInv
  <1>8. CASE UNCHANGED smtpVars
    BY <1>8, <1>0, SmtpSilent DEF smtpVars, SmtpRecord
  <1> QED
    BY <1>1, <1>2, <1>3, <1>4, <1>5, <1>6, <1>7, <1>8 DEF SmtpNext, Results

\* For dialogues of any length: the handler's calls come in the order that the
\* comments of SP_SmtpHandler promise, and the decoder that handle() casts is of
\* the class it is cast to.
THEOREM DialogueSafe == SmtpSpec => []SmtpDialogue
  <1>1. SmtpInv => SmtpDialogue
    BY DEF SmtpInv, SmtpDialogue, DecoderMatchesMode, Ready
  <1> QED
    BY <1>1, SmtpInvInit, SmtpInvNext, PTL DEF SmtpSpec

-----------------------------------------------------------------------------
(* Tunnel: the shared argument *)

LiveStates == {"starting", "up", "wouldExit", "exit"}
SideStates == LiveStates \cup {"none", "pushed", "ending", "gone"}

TunnelFields ==
    {"threads", "arg", "blocks", "session", "running", "task", "armed", "writable", "sent",
     "inBuffer", "decoder", "outList", "got", "responses", "worker"}

\* The fields of the tunnel that the proof speaks of
TunnelTyped(t) ==
    /\ DOMAIN t = TunnelFields
    /\ t.session \in [Sides -> SideStates]
    /\ DOMAIN t.running = Sides /\ DOMAIN t.task = Sides
    /\ DOMAIN t.armed = Sides /\ DOMAIN t.writable = Sides
    /\ DOMAIN t.worker = TunnelWorkers
    /\ \A w \in TunnelWorkers :
          DOMAIN t.worker[w] = {"pc", "side", "to", "data"} /\ t.worker[w].side \in Sides
    /\ DOMAIN t.arg = {"refCount", "status", "sid", "deleted"}

\* The thread is inside a task of side s: the push of its response is no part of
\* that, because mRunning is 0 before it.
Inside(t, w, s) == t.worker[w].side = s /\ t.worker[w].pc \notin {"idle", "push"}

\* A side has one task at a time: queued or inside a thread, of a session that is
\* marked running, or the last task of one that ends.
SideOK(t, s) ==
    /\ t.armed[s] \/ t.writable[s] \/ t.running[s] => t.session[s] \in LiveStates
    /\ t.task[s] \in {"start", "handle"} => t.running[s]
    /\ t.task[s] = "end" => t.session[s] = "ending"
    /\ \A w \in TunnelWorkers : Inside(t, w, s) =>
          /\ t.task[s] = "none"
          /\ IF t.worker[w].pc = "delete" THEN t.session[s] = "ending" ELSE t.running[s]
    /\ \A v, w \in TunnelWorkers : Inside(t, v, s) /\ Inside(t, w, s) => v = w

\* A handler of this side points to the argument.
Refs(state) == IF state \in {"none", "gone"} THEN 0 ELSE 1

\* The backend's session is made by the start task of the tunnel's.
RefsOK(t) ==
    /\ t.arg.refCount = Refs(t.session["tunnel"]) + Refs(t.session["backend"])
    /\ t.arg.deleted <=> t.arg.refCount = 0
    /\ t.task["tunnel"] = "start" => t.session["backend"] = "none"

TunnelGood(t) ==
    /\ TunnelTyped(t)
    /\ \A s \in Sides : SideOK(t, s)
    /\ RefsOK(t)

\* A new connection.
LEMMA TunnelGoodInit == TunnelInit => TunnelGood(tn)
  <1> SUFFICES ASSUME TunnelInit PROVE TunnelGood(tn)
    OBVIOUS
  <1>1. PICK threads : tn = NewTunnel(threads)
    BY DEF TunnelInit
  <1>2. /\ tn.arg = NewTunnelArg
        /\ tn.session = [tunnel |-> "starting", backend |-> "none"]
        /\ tn.running = [tunnel |-> TRUE, backend |-> FALSE]
        /\ tn.task = [tunnel |-> "start", backend |-> "none"]
        /\ tn.armed = EverySide(FALSE) /\ tn.writable = EverySide(FALSE)
        /\ tn.worker = [w \in TunnelWorkers |-> NoWork]
    BY <1>1 DEF NewTunnel
  <1>3. TunnelTyped(tn)
    <2>1. tn.session \in [Sides -> SideStates]
      BY <1>2 DEF Sides, SideStates, LiveStates
    <2>2. /\ DOMAIN tn.running = Sides /\ DOMAIN tn.task = Sides
          /\ DOMAIN tn.armed = Sides /\ DOMAIN tn.writable = Sides
      BY <1>2 DEF Sides, EverySide
    <2>3. DOMAIN tn.worker = TunnelWorkers /\ \A w \in TunnelWorkers : tn.worker[w] = NoWork
      BY <1>2
    <2>4. DOMAIN tn = TunnelFields
      BY <1>1 DEF NewTunnel, TunnelFields
    <2>5. DOMAIN tn.arg = {"refCount", "status", "sid", "deleted"}
      BY <1>2 DEF NewTunnelArg
    <2>6. \A w \in TunnelWorkers :
              DOMAIN tn.worker[w] = {"pc", "side", "to", "data"} /\ tn.worker[w].side \in Sides
      BY <2>3 DEF NoWork, Sides
    <2> QED
      BY <2>1, <2>2, <2>3, <2>4, <2>5, <2>6 DEF TunnelTyped
  <1>4. \A s \in Sides : SideOK(tn, s)
    <2>1. \A w \in TunnelWorkers : tn.worker[w].pc = "idle"
      BY <1>2 DEF NoWork
    <2> QED
      BY <1>2, <2>1 DEF SideOK, Inside, Sides, EverySide, LiveStates
  <1>5. RefsOK(tn)
    BY <1>2 DEF RefsOK, Refs, NewTunnelArg
  <1> QED
    BY <1>3, <1>4, <1>5 DEF TunnelGood

-----------------------------------------------------------------------------
(* Steps of the loop *)

\* What a step leaves of a side
SameSide(t, u, r) ==
    /\ u.session[r] = t.session[r] /\ u.running[r] = t.running[r] /\ u.task[r] = t.task[r]
    /\ u.armed[r] = t.armed[r] /\ u.writable[r] = t.writable[r]

\* A step of the loop changes one side, whose session stays where it is or goes on
\* among the live states, or ends without a task under way.
LEMMA LoopGood ==
    ASSUME NEW t, TunnelGood(t), NEW u, TunnelTyped(u), NEW s \in Sides,
           u.worker = t.worker, u.arg = t.arg,
           \A r \in Sides \ {s} : SameSide(t, u, r),
           Refs(u.session[s]) = Refs(t.session[s]), t.session[s] = "none" => u.session[s] = "none",
           u.task[s] = "start" => s = "backend" \/ t.task[s] = "start",
           SideOK(u, s)
    PROVE  TunnelGood(u)
  <1>1. ASSUME NEW r \in Sides \ {s} PROVE SideOK(u, r)
    <2>1. SideOK(t, r) /\ r # s
      BY <1>1 DEF TunnelGood
    <2>2. /\ u.session[r] = t.session[r] /\ u.running[r] = t.running[r]
          /\ u.task[r] = t.task[r] /\ u.armed[r] = t.armed[r]
          /\ u.writable[r] = t.writable[r] /\ u.worker = t.worker
      BY <1>1 DEF SameSide
    <2> QED
      BY <2>1, <2>2 DEF SideOK, Inside
  <1>2. RefsOK(u)
    <2>1. Refs(u.session["tunnel"]) = Refs(t.session["tunnel"])
          /\ Refs(u.session["backend"]) = Refs(t.session["backend"])
      BY DEF Sides, SameSide
    <2>2. u.task["tunnel"] = "start" => t.task["tunnel"] = "start"
      BY DEF Sides, SameSide
    <2>3. t.session["backend"] = "none" => u.session["backend"] = "none"
      BY DEF Sides, SameSide
    <2> QED
      BY <2>1, <2>2, <2>3 DEF TunnelGood, RefsOK
  <1> QED
    BY <1>1, <1>2 DEF TunnelGood

\* What decode() leaves: the tunnel with other bytes in this side's buffers.
LEMMA InputCases ==
    ASSUME NEW t, TunnelTyped(t), NEW s \in Sides
    PROVE  LET u == TunnelInput(t, s)
           IN  /\ TunnelTyped(u)
               /\ u.worker = t.worker /\ u.arg = t.arg /\ u.session = t.session
               /\ u.armed = t.armed /\ u.writable = t.writable
               /\ \/ u.running = t.running /\ u.task = t.task
                  \/ /\ ~t.running[s] /\ t.session[s] = "up"
                     /\ u.running = [t.running EXCEPT ![s] = TRUE]
                     /\ u.task = [t.task EXCEPT ![s] = "handle"]
  <1> DEFINE d == TunnelDecode(t, s)
  <1> DEFINE quiet == [d EXCEPT !.inBuffer[s] = <<>>]
  <1> DEFINE busy == [d EXCEPT !.running[s] = TRUE, !.task[s] = "handle"]
  <1>1. /\ TunnelTyped(d) /\ d.worker = t.worker /\ d.arg = t.arg /\ d.session = t.session
        /\ d.armed = t.armed /\ d.writable = t.writable /\ d.running = t.running /\ d.task = t.task
    BY DEF TunnelTyped, TunnelFields, TunnelDecode
  <1> HIDE DEF d
  <1>2. /\ TunnelTyped(quiet) /\ quiet.worker = d.worker /\ quiet.arg = d.arg
        /\ quiet.session = d.session /\ quiet.armed = d.armed /\ quiet.writable = d.writable
        /\ quiet.running = d.running /\ quiet.task = d.task
    BY <1>1 DEF TunnelTyped, TunnelFields
  <1>3. /\ TunnelTyped(busy) /\ busy.worker = d.worker /\ busy.arg = d.arg
        /\ busy.session = d.session /\ busy.armed = d.armed /\ busy.writable = d.writable
        /\ busy.running = [d.running EXCEPT ![s] = TRUE]
        /\ busy.task = [d.task EXCEPT ![s] = "handle"]
    BY <1>1 DEF TunnelTyped, TunnelFields
  <1>4. \/ TunnelInput(t, s) = t
        \/ ~t.running[s] /\ TunnelInput(t, s) \in {d, quiet}
        \/ ~t.running[s] /\ d.session[s] = "up" /\ TunnelInput(t, s) = busy
    BY DEF TunnelInput, TunnelDoWork, d
  <1> HIDE DEF quiet, busy
  <1> QED
    BY <1>1, <1>2, <1>3, <1>4

\* The input of a live session.
LEMMA InputGood ==
    ASSUME NEW t, TunnelGood(t), NEW s \in Sides, t.session[s] \in LiveStates
    PROVE  TunnelGood(TunnelInput(t, s))
  <1> DEFINE u == TunnelInput(t, s)
  <1>1. /\ TunnelTyped(u)
        /\ u.worker = t.worker /\ u.arg = t.arg /\ u.session = t.session
        /\ u.armed = t.armed /\ u.writable = t.writable
        /\ \/ u.running = t.running /\ u.task = t.task
           \/ /\ ~t.running[s] /\ t.session[s] = "up"
              /\ u.running = [t.running EXCEPT ![s] = TRUE]
              /\ u.task = [t.task EXCEPT ![s] = "handle"]
    BY InputCases DEF TunnelGood
  <1>2. DOMAIN t.running = Sides /\ DOMAIN t.task = Sides
    BY DEF TunnelGood, TunnelTyped
  <1>3. SideOK(t, s)
    BY DEF TunnelGood
  <1> HIDE DEF u
  <1>4. SideOK(u, s)
    <2>1. CASE u.running = t.running /\ u.task = t.task
      BY <1>1, <1>3, <2>1 DEF SideOK, Inside
    <2>2. CASE /\ ~t.running[s] /\ t.session[s] = "up"
               /\ u.running = [t.running EXCEPT ![s] = TRUE]
               /\ u.task = [t.task EXCEPT ![s] = "handle"]
      <3>1. u.running[s] = TRUE /\ u.task[s] = "handle"
        BY <1>2, <2>2
      <3>2. \A w \in TunnelWorkers : ~Inside(t, w, s)
        BY <1>3, <2>2 DEF SideOK
      <3>3. \A w \in TunnelWorkers : ~Inside(u, w, s)
        BY <1>1, <3>2 DEF Inside
      <3> QED
        BY <1>1, <2>2, <3>1, <3>3 DEF SideOK, LiveStates
    <2> QED
      BY <1>1, <2>1, <2>2
  <1>5. /\ \A r \in Sides \ {s} : SameSide(t, u, r)
        /\ Refs(u.session[s]) = Refs(t.session[s])
        /\ t.session[s] = "none" => u.session[s] = "none"
        /\ u.task[s] = "start" => s = "backend" \/ t.task[s] = "start"
    BY <1>1, <1>2 DEF SameSide
  <1>6. TunnelGood(u)
    BY <1>1, <1>4, <1>5, LoopGood
  <1> QED
    BY <1>6 DEF u

\* An ending session that runs no task: its last one is queued.
LEMMA EndGood ==
    ASSUME NEW t, TunnelGood(t), NEW s \in Sides, t.session[s] \in LiveStates, ~t.running[s]
    PROVE  TunnelGood(TunnelEnd(t, s))
  <1> DEFINE u == TunnelEnd(t, s)
  <1>1. TunnelTyped(t) /\ SideOK(t, s)
    BY DEF TunnelGood
  <1>2. /\ TunnelTyped(u) /\ u.worker = t.worker /\ u.arg = t.arg /\ u.running = t.running
        /\ u.session = [t.session EXCEPT ![s] = "ending"] /\ u.armed = [t.armed EXCEPT ![s] = FALSE]
        /\ u.writable = [t.writable EXCEPT ![s] = FALSE] /\ u.task = [t.task EXCEPT ![s] = "end"]
    BY <1>1 DEF TunnelTyped, TunnelFields, TunnelEnd, SideStates
  <1> HIDE DEF u
  <1>3. /\ u.session[s] = "ending" /\ ~u.armed[s] /\ ~u.writable[s] /\ u.task[s] = "end" /\ ~u.running[s]
        /\ \A r \in Sides \ {s} : /\ u.session[r] = t.session[r] /\ u.task[r] = t.task[r]
                                  /\ u.armed[r] = t.armed[r] /\ u.writable[r] = t.writable[r]
    BY <1>1, <1>2 DEF TunnelTyped
  <1>4. \A w \in TunnelWorkers : ~Inside(u, w, s)
    BY <1>1, <1>2 DEF SideOK, Inside, LiveStates
  <1>5. SideOK(u, s)
    BY <1>3, <1>4 DEF SideOK
  <1>6. Refs(u.session[s]) = Refs(t.session[s]) /\ t.session[s] # "none"
    BY <1>3 DEF Refs, LiveStates
  <1>7. /\ \A r \in Sides \ {s} : SameSide(t, u, r)
        /\ t.session[s] = "none" => u.session[s] = "none"
        /\ u.task[s] = "start" => s = "backend" \/ t.task[s] = "start"
    BY <1>2, <1>3, <1>6 DEF SameSide
  <1>8. TunnelGood(u)
    BY <1>2, <1>5, <1>6, <1>7, LoopGood
  <1> QED
    BY <1>8 DEF u

\* Data that moves changes nothing of who holds the argument.
LEMMA SameGood ==
    ASSUME NEW t, TunnelGood(t), NEW u, TunnelTyped(u),
           u.session = t.session, u.running = t.running, u.task = t.task, u.armed = t.armed,
           u.writable = t.writable, u.worker = t.worker, u.arg = t.arg
    PROVE  TunnelGood(u)
  BY DEF TunnelGood, SideOK, Inside, RefsOK

LEMMA OnPushGood == TunnelGood(tn) /\ TunnelOnPush => TunnelGood(tn')
  <1> SUFFICES ASSUME TunnelGood(tn), TunnelOnPush PROVE TunnelGood(tn')
    OBVIOUS
  <1> DEFINE s == "backend"
  <1>1. TunnelTyped(tn) /\ SideOK(tn, s) /\ s \in Sides
    BY DEF TunnelGood, Sides
  <1>2. /\ TunnelTyped(tn') /\ tn'.worker = tn.worker /\ tn'.arg = tn.arg
        /\ tn'.armed = tn.armed /\ tn'.writable = tn.writable
        /\ tn'.session = [tn.session EXCEPT ![s] = "starting"]
        /\ tn'.running = [tn.running EXCEPT ![s] = TRUE] /\ tn'.task = [tn.task EXCEPT ![s] = "start"]
        /\ tn.session[s] = "pushed"
    BY <1>1 DEF TunnelOnPush, TunnelTyped, TunnelFields, SideStates, LiveStates
  <1>3. /\ tn'.session[s] = "starting" /\ tn'.running[s] = TRUE /\ tn'.task[s] = "start"
        /\ \A r \in Sides \ {s} : SameSide(tn, tn', r)
    BY <1>1, <1>2 DEF TunnelTyped, SameSide
  <1>4. \A w \in TunnelWorkers : ~Inside(tn', w, s)
    BY <1>1, <1>2 DEF SideOK, Inside, LiveStates
  <1>5. SideOK(tn', s)
    BY <1>3, <1>4 DEF SideOK, LiveStates
  <1>6. Refs(tn'.session[s]) = Refs(tn.session[s]) /\ tn.session[s] # "none"
    BY <1>2, <1>3 DEF Refs
  <1>7. tn'.task[s] = "start" => s = "backend" \/ tn.task[s] = "start"
    OBVIOUS
  <1> HIDE DEF s
  <1> QED
    BY <1>1, <1>2, <1>3, <1>5, <1>6, <1>7, LoopGood

LEMMA OnReadGood ==
    ASSUME NEW s \in Sides, TunnelGood(tn), TunnelOnRead(s)
    PROVE  TunnelGood(tn')
  <1> DEFINE t == [tn EXCEPT !.sent[s] = @ + 1, !.inBuffer[s] = Append(@, tn.sent[s] + 1)]
  <1>1. /\ TunnelTyped(t)
        /\ t.session = tn.session /\ t.running = tn.running /\ t.task = tn.task /\ t.armed = tn.armed
        /\ t.writable = tn.writable /\ t.worker = tn.worker /\ t.arg = tn.arg
    BY DEF TunnelGood, TunnelTyped, TunnelFields
  <1>2. tn.armed[s] /\ tn' = TunnelInput(t, s)
    BY DEF TunnelOnRead
  <1> HIDE DEF t
  <1>3. TunnelGood(t)
    BY <1>1, SameGood
  <1>4. t.session[s] \in LiveStates
    BY <1>1, <1>2, <1>3 DEF TunnelGood, SideOK
  <1> QED
    BY <1>2, <1>3, <1>4, InputGood

LEMMA HangupGood ==
    ASSUME NEW s \in Sides, TunnelGood(tn), TunnelHangup(s)
    PROVE  TunnelGood(tn')
  <1>1. tn.session[s] \in LiveStates /\ ~tn.running[s] /\ tn' = TunnelEnd(tn, s)
    BY DEF TunnelHangup, TunnelGood, SideOK
  <1> QED
    BY <1>1, EndGood

LEMMA OnWriteGood ==
    ASSUME NEW s \in Sides, NEW n, TunnelGood(tn), TunnelOnWrite(s, n)
    PROVE  TunnelGood(tn')
  <1> DEFINE out == SubSeq(tn.outList[s], n + 1, Len(tn.outList[s]))
  <1> DEFINE t == [tn EXCEPT !.writable[s] = (out # <<>>), !.outList[s] = out,
                             !.got[s] = @ \o SubSeq(tn.outList[s], 1, n)]
  <1>1. /\ TunnelTyped(t) /\ t.worker = tn.worker /\ t.arg = tn.arg
        /\ t.session = tn.session /\ t.running = tn.running /\ t.task = tn.task /\ t.armed = tn.armed
        /\ \A r \in Sides \ {s} : t.writable[r] = tn.writable[r]
    BY DEF TunnelGood, TunnelTyped, TunnelFields
  <1>2. /\ tn.writable[s]
        /\ tn' = IF out = <<>> /\ t.session[s] = "exit"
                 THEN IF t.running[s] THEN t ELSE TunnelEnd(t, s)
                 ELSE TunnelInput(t, s)
    BY DEF TunnelOnWrite
  <1> HIDE DEF t
  <1>3. SideOK(tn, s) /\ tn.session[s] \in LiveStates
    BY <1>2 DEF TunnelGood, SideOK
  <1>4. SideOK(t, s)
    BY <1>1, <1>3 DEF SideOK, Inside
  <1>5. /\ \A r \in Sides \ {s} : SameSide(tn, t, r)
        /\ Refs(t.session[s]) = Refs(tn.session[s])
        /\ tn.session[s] = "none" => t.session[s] = "none"
        /\ t.task[s] = "start" => s = "backend" \/ tn.task[s] = "start"
    BY <1>1 DEF SameSide
  <1>6. TunnelGood(t)
    BY <1>1, <1>4, <1>5, LoopGood
  <1>7. t.session[s] \in LiveStates
    BY <1>1, <1>3
  <1> QED
    BY <1>2, <1>6, <1>7, InputGood, EndGood

\* The response's events and its message each concern a session that is known.
LEMMA SenderGood ==
    ASSUME NEW t, TunnelGood(t), NEW s PROVE TunnelGood(FromSender(t, s))
  <1> SUFFICES ASSUME Known(t, s) PROVE TunnelGood(FromSender(t, s))
    BY DEF FromSender
  <1> DEFINE u == FromSender(t, s)
  <1>1. s \in Sides /\ t.session[s] \in LiveStates /\ TunnelTyped(t) /\ SideOK(t, s)
    BY DEF Known, LiveStates, TunnelGood
  <1>2. /\ TunnelTyped(u) /\ u.worker = t.worker /\ u.arg = t.arg
        /\ u.running = t.running /\ u.task = t.task
        /\ u.session = [t.session EXCEPT ![s] = IF @ = "wouldExit" THEN "exit" ELSE @]
        /\ \A r \in Sides \ {s} : u.armed[r] = t.armed[r] /\ u.writable[r] = t.writable[r]
    BY <1>1 DEF FromSender, TunnelTyped, TunnelFields, SideStates, LiveStates
  <1> HIDE DEF u
  <1>3. u.session[s] \in LiveStates /\ \A r \in Sides \ {s} : u.session[r] = t.session[r]
    BY <1>1, <1>2 DEF TunnelTyped, LiveStates
  <1>4. \A w \in TunnelWorkers : Inside(t, w, s) => t.worker[w].pc # "delete"
    BY <1>1 DEF SideOK, LiveStates
  <1>5. SideOK(u, s)
    BY <1>1, <1>2, <1>3, <1>4 DEF SideOK, Inside, LiveStates
  <1>6. /\ \A r \in Sides \ {s} : SameSide(t, u, r)
        /\ Refs(u.session[s]) = Refs(t.session[s])
        /\ t.session[s] = "none" => u.session[s] = "none"
        /\ u.task[s] = "start" => s = "backend" \/ t.task[s] = "start"
    BY <1>1, <1>2, <1>3 DEF Refs, LiveStates, SameSide
  <1>7. TunnelGood(u)
    BY <1>1, <1>2, <1>5, <1>6, LoopGood
  <1> QED
    BY <1>7 DEF u

LEMMA ReceiverGood ==
    ASSUME NEW t, TunnelGood(t), NEW s, NEW data PROVE TunnelGood(ToReceiver(t, s, data))
  <1> SUFFICES ASSUME Known(t, s), ToReceiver(t, s, data) # t
               PROVE  TunnelGood(ToReceiver(t, s, data))
    BY DEF ToReceiver
  <1> DEFINE u == ToReceiver(t, s, data)
  <1>1. s \in Sides /\ t.session[s] \in LiveStates /\ TunnelTyped(t) /\ SideOK(t, s)
    BY DEF Known, LiveStates, TunnelGood
  <1>2. /\ TunnelTyped(u) /\ u.worker = t.worker /\ u.arg = t.arg /\ u.session = t.session
        /\ u.running = t.running /\ u.task = t.task /\ u.armed = t.armed
        /\ \A r \in Sides \ {s} : u.writable[r] = t.writable[r]
    BY <1>1 DEF ToReceiver, TunnelTyped, TunnelFields
  <1> HIDE DEF u
  <1>3. SideOK(u, s)
    BY <1>1, <1>2 DEF SideOK, Inside
  <1>4. /\ \A r \in Sides \ {s} : SameSide(t, u, r)
        /\ Refs(u.session[s]) = Refs(t.session[s])
        /\ t.session[s] = "none" => u.session[s] = "none"
        /\ u.task[s] = "start" => s = "backend" \/ t.task[s] = "start"
    BY <1>2 DEF SameSide
  <1>5. TunnelGood(u)
    BY <1>1, <1>2, <1>3, <1>4, LoopGood
  <1> QED
    BY <1>5 DEF u

LEMMA OnTunnelResponseGood == TunnelGood(tn) /\ TunnelOnResponse => TunnelGood(tn')
  <1> SUFFICES ASSUME TunnelGood(tn), TunnelOnResponse PROVE TunnelGood(tn')
    OBVIOUS
  <1> DEFINE t == [tn EXCEPT !.responses = Tail(@)]
  <1> DEFINE r == Head(tn.responses)
  <1>1. /\ TunnelTyped(t)
        /\ t.session = tn.session /\ t.running = tn.running /\ t.task = tn.task /\ t.armed = tn.armed
        /\ t.writable = tn.writable /\ t.worker = tn.worker /\ t.arg = tn.arg
    BY DEF TunnelGood, TunnelTyped, TunnelFields
  <1>2. tn' = ToReceiver(FromSender(t, r.side), r.to, r.data)
    BY DEF TunnelOnResponse
  <1> HIDE DEF t, r
  <1>3. TunnelGood(FromSender(t, r.side))
    BY <1>1, SameGood, SenderGood
  <1> QED
    BY <1>2, <1>3, ReceiverGood

-----------------------------------------------------------------------------
(* Steps of the threads *)

\* What a step of thread w leaves as it is
SameOthers(t, u, w) == \A x \in TunnelWorkers \ {w} : u.worker[x] = t.worker[x]

\* The thread enters no task of the side.
NotInto(t, u, w, r) == Inside(u, w, r) =>
    Inside(t, w, r) /\ (u.worker[w].pc = "delete" <=> t.worker[w].pc = "delete")

LEMMA SideKept ==
    ASSUME NEW t, NEW u, NEW r, SideOK(t, r), NEW w,
           SameSide(t, u, r), SameOthers(t, u, w), NotInto(t, u, w, r)
    PROVE  SideOK(u, r)
  <1>1. \A x \in TunnelWorkers : Inside(u, x, r) =>
            Inside(t, x, r) /\ (u.worker[x].pc = "delete" <=> t.worker[x].pc = "delete")
    BY DEF Inside, SameOthers, NotInto
  <1> QED
    BY <1>1, Zenon DEF SideOK, SameSide

\* An idle thread takes the one task of a side.
LEMMA TakeGood ==
    ASSUME NEW t, TunnelGood(t), NEW u, TunnelTyped(u), NEW s \in Sides, NEW w \in TunnelWorkers,
           t.worker[w].pc = "idle",
           t.task[s] \in {"start", "handle", "end"}, u.task = [t.task EXCEPT ![s] = "none"],
           u.session = t.session, u.running = t.running, u.armed = t.armed,
           u.writable = t.writable,
           SameOthers(t, u, w),
           u.worker[w].side = s, u.worker[w].pc \notin {"idle", "push"},
           u.worker[w].pc = "delete" <=> t.task[s] = "end",
           u.arg.refCount = t.arg.refCount, u.arg.deleted = t.arg.deleted
    PROVE  TunnelGood(u)
  <1>1. SideOK(t, s) /\ TunnelTyped(t) /\ RefsOK(t)
    BY DEF TunnelGood
  <1>2. u.task[s] = "none" /\ \A r \in Sides \ {s} : u.task[r] = t.task[r]
    BY <1>1 DEF TunnelTyped
  <1>3. SideOK(u, s)
    <2>1. \A x \in TunnelWorkers : Inside(u, x, s) => x = w
      <3>1. \A x \in TunnelWorkers : ~Inside(t, x, s)
        BY <1>1 DEF SideOK
      <3> QED
        BY <3>1 DEF Inside, SameOthers
    <2>2. IF u.worker[w].pc = "delete" THEN u.session[s] = "ending" ELSE u.running[s]
      BY <1>1 DEF SideOK
    <2>3. u.armed[s] \/ u.writable[s] \/ u.running[s] => u.session[s] \in LiveStates
      BY <1>1 DEF SideOK
    <2> QED
      BY <1>2, <2>1, <2>2, <2>3 DEF SideOK
  <1>4. ASSUME NEW r \in Sides \ {s} PROVE SideOK(u, r)
    <2>1. ~Inside(u, w, r) /\ SideOK(t, r)
      BY <1>4 DEF Inside, TunnelGood
    <2>2. SameSide(t, u, r) /\ NotInto(t, u, w, r)
      BY <1>2, <2>1 DEF SameSide, NotInto
    <2> QED
      BY <2>1, <2>2, SideKept
  <1>5. RefsOK(u)
    <2>1. u.task["tunnel"] = "start" => t.task["tunnel"] = "start"
      BY <1>2 DEF Sides
    <2> QED
      BY <1>1, <2>1 DEF RefsOK
  <1> QED
    BY <1>3, <1>4, <1>5 DEF TunnelGood

\* A thread goes on inside its task, or hands over its response.
LEMMA MoveGood ==
    ASSUME NEW t, TunnelGood(t), NEW u, TunnelTyped(u), NEW w \in TunnelWorkers,
           u.session = t.session, u.running = t.running, u.task = t.task, u.armed = t.armed,
           u.writable = t.writable,
           SameOthers(t, u, w),
           \/ u.worker[w].pc = "idle"
           \/ /\ u.worker[w].side = t.worker[w].side
              /\ t.worker[w].pc \notin {"idle", "push", "delete"} /\ u.worker[w].pc # "delete",
           u.arg.refCount = t.arg.refCount, u.arg.deleted = t.arg.deleted
    PROVE  TunnelGood(u)
  <1>1. ASSUME NEW r \in Sides PROVE SideOK(u, r)
    <2>1. SideOK(t, r)
      BY DEF TunnelGood
    <2>2. SameSide(t, u, r) /\ NotInto(t, u, w, r)
      BY DEF SameSide, NotInto, Inside
    <2> QED
      BY <2>1, <2>2, SideKept
  <1>2. RefsOK(u)
    BY DEF RefsOK, TunnelGood
  <1> QED
    BY <1>1, <1>2 DEF TunnelGood

\* A thread's task is over: its session is not running any more, and lives on.
LEMMA LeaveGood ==
    ASSUME NEW t, TunnelGood(t), NEW u, TunnelTyped(u), NEW s \in Sides, NEW w \in TunnelWorkers,
           Inside(t, w, s), t.worker[w].pc # "delete",
           u.session[s] = t.session[s] \/ u.session[s] \in {"up", "wouldExit"},
           \A r \in Sides \ {s} : u.session[r] = t.session[r],
           u.running = [t.running EXCEPT ![s] = FALSE],
           u.task = t.task, u.armed = t.armed, u.writable = t.writable,
           SameOthers(t, u, w),
           u.worker[w].pc = "push", u.arg = t.arg
    PROVE  TunnelGood(u)
  <1>1. SideOK(t, s) /\ TunnelTyped(t) /\ RefsOK(t)
    BY DEF TunnelGood
  <1>2. u.running[s] = FALSE /\ \A r \in Sides \ {s} : u.running[r] = t.running[r]
    BY <1>1 DEF TunnelTyped
  <1>3. t.session[s] \in LiveStates /\ u.session[s] \in LiveStates /\ t.task[s] = "none"
    BY <1>1 DEF SideOK, LiveStates
  <1>4. \A x \in TunnelWorkers : ~Inside(u, x, s)
    <2>1. \A x \in TunnelWorkers \ {w} : ~Inside(t, x, s)
      BY <1>1 DEF SideOK
    <2> QED
      BY <2>1 DEF Inside, SameOthers
  <1>5. SideOK(u, s)
    BY <1>2, <1>3, <1>4 DEF SideOK
  <1>6. ASSUME NEW r \in Sides \ {s} PROVE SideOK(u, r)
    <2>1. ~Inside(u, w, r) /\ SideOK(t, r)
      BY DEF Inside, TunnelGood
    <2>2. SameSide(t, u, r) /\ NotInto(t, u, w, r)
      BY <1>2, <2>1 DEF SameSide, NotInto
    <2> QED
      BY <2>1, <2>2, SideKept
  <1>7. RefsOK(u)
    <2>1. Refs(u.session[s]) = Refs(t.session[s]) /\ t.session[s] # "none"
      BY <1>3 DEF Refs, LiveStates
    <2>2. \A r \in Sides : Refs(u.session[r]) = Refs(t.session[r]) /\
              (t.session[r] = "none" => u.session[r] = "none")
      BY <2>1
    <2>3. /\ Refs(u.session["tunnel"]) = Refs(t.session["tunnel"])
          /\ Refs(u.session["backend"]) = Refs(t.session["backend"])
          /\ t.session["backend"] = "none" => u.session["backend"] = "none"
      BY <2>2 DEF Sides
    <2> QED
      BY <1>1, <2>3 DEF RefsOK
  <1> QED
    BY <1>5, <1>6, <1>7 DEF TunnelGood

\* The handler of an ended session is destroyed, and releases the argument.
LEMMA DeleteGood ==
    ASSUME NEW t, TunnelGood(t), NEW u, TunnelTyped(u), NEW s \in Sides, NEW w \in TunnelWorkers,
           t.worker[w].pc = "delete", t.worker[w].side = s,
           u.session = [t.session EXCEPT ![s] = "gone"],
           u.running = t.running, u.task = t.task, u.armed = t.armed, u.writable = t.writable,
           SameOthers(t, u, w),
           u.worker[w].pc = "idle", u.arg = Release(t.arg)
    PROVE  TunnelGood(u)
  <1>1. SideOK(t, s) /\ TunnelTyped(t) /\ RefsOK(t) /\ Inside(t, w, s)
    BY DEF TunnelGood, Inside
  <1>2. u.session[s] = "gone" /\ \A r \in Sides \ {s} : u.session[r] = t.session[r]
    BY <1>1 DEF TunnelTyped
  <1>3. t.session[s] = "ending" /\ t.task[s] = "none"
    BY <1>1 DEF SideOK
  <1>4. ~u.armed[s] /\ ~u.writable[s] /\ ~u.running[s]
    BY <1>1, <1>3 DEF SideOK, LiveStates
  <1>5. \A x \in TunnelWorkers : ~Inside(u, x, s)
    <2>1. \A x \in TunnelWorkers \ {w} : ~Inside(t, x, s)
      BY <1>1 DEF SideOK
    <2> QED
      BY <2>1 DEF Inside, SameOthers
  <1>6. SideOK(u, s)
    BY <1>3, <1>4, <1>5 DEF SideOK
  <1>7. ASSUME NEW r \in Sides \ {s} PROVE SideOK(u, r)
    <2>1. ~Inside(u, w, r) /\ SideOK(t, r)
      BY DEF Inside, TunnelGood
    <2>2. SameSide(t, u, r) /\ NotInto(t, u, w, r)
      BY <1>2, <2>1 DEF SameSide, NotInto
    <2> QED
      BY <2>1, <2>2, SideKept
  <1>8. RefsOK(u)
    <2>1. u.arg.refCount = t.arg.refCount - 1 /\ (u.arg.deleted <=> t.arg.refCount - 1 <= 0)
      BY <1>1 DEF Release, TunnelTyped
    <2>2. Refs(t.session[s]) = 1 /\ Refs(u.session[s]) = 0
      BY <1>2, <1>3 DEF Refs
    <2>3. \A state : Refs(state) \in {0, 1}
      BY DEF Refs
    <2>4. \A r \in Sides \ {s} : Refs(u.session[r]) = Refs(t.session[r])
      BY <1>2
    <2>5. u.task["tunnel"] = "start" => u.session["backend"] = "none"
      BY <1>1, <1>2, <1>3 DEF RefsOK, Sides
    <2>6. CASE s = "tunnel"
      BY <1>1, <2>1, <2>2, <2>3, <2>4, <2>5, <2>6 DEF RefsOK, Sides
    <2>7. CASE s = "backend"
      BY <1>1, <2>1, <2>2, <2>3, <2>4, <2>5, <2>7 DEF RefsOK, Sides
    <2> QED
      BY <2>6, <2>7 DEF Sides
  <1> QED
    BY <1>6, <1>7, <1>8 DEF TunnelGood

\* The thread that runs a task of the tunnel's handler, or of the backend's
LEMMA WorkingEffect ==
    ASSUME NEW t, TunnelTyped(t), NEW s \in Sides, NEW w \in TunnelWorkers, NEW pc
    PROVE  LET u == Working(t, w, pc, s)
           IN  /\ TunnelTyped(u)
               /\ u.task = [t.task EXCEPT ![s] = "none"]
               /\ u.session = t.session /\ u.running = t.running /\ u.armed = t.armed
               /\ u.writable = t.writable /\ u.arg = t.arg
               /\ SameOthers(t, u, w)
               /\ u.worker[w].pc = pc /\ u.worker[w].side = s
  BY DEF Working, TunnelTyped, TunnelFields, SameOthers

\* start() of the tunnel's handler: the backend has no handler, session or task
\* before it, so the reference that it adds is the backend's.
LEMMA TunnelStartGood ==
    ASSUME NEW w \in TunnelWorkers, NEW connected, TunnelGood(tn), TunnelStart(w, connected)
    PROVE  TunnelGood(tn')
  <1> DEFINE arg == SetTunnelStatus(SetTunnelSid(tn.arg), "normal")
  <1> DEFINE t == Working(tn, w, IF connected THEN "started" ELSE "refused", "tunnel")
  <1> DEFINE v == [t EXCEPT !.arg = arg]
  <1>1. /\ TunnelTyped(tn) /\ SideOK(tn, "tunnel") /\ SideOK(tn, "backend") /\ RefsOK(tn)
        /\ "tunnel" \in Sides /\ "backend" \in Sides
    BY DEF TunnelGood, Sides
  <1>2. /\ tn.worker[w].pc = "idle" /\ tn.task["tunnel"] = "start"
        /\ tn' = IF connected
                 THEN [t EXCEPT !.arg = AddRef(arg), !.session["backend"] = "pushed"]
                 ELSE v
    BY DEF TunnelStart, TakesTask
  <1>3. /\ TunnelTyped(t)
        /\ t.task = [tn.task EXCEPT !["tunnel"] = "none"]
        /\ t.session = tn.session /\ t.running = tn.running /\ t.armed = tn.armed
        /\ t.writable = tn.writable /\ SameOthers(tn, t, w)
        /\ t.worker[w].pc \in {"started", "refused"} /\ t.worker[w].side = "tunnel"
    <2>1. (IF connected THEN "started" ELSE "refused") \in {"started", "refused"}
      OBVIOUS
    <2> QED
      BY <1>1, <2>1, WorkingEffect
  <1>4. /\ DOMAIN arg = {"refCount", "status", "sid", "deleted"}
        /\ arg.refCount = tn.arg.refCount /\ arg.deleted = tn.arg.deleted
    BY <1>1 DEF TunnelTyped, SetTunnelStatus, SetTunnelSid
  <1> HIDE DEF t, arg
  <1>5. /\ TunnelTyped(v) /\ v.arg = arg
        /\ v.task = t.task /\ v.session = t.session /\ v.running = t.running
        /\ v.armed = t.armed /\ v.writable = t.writable /\ v.worker = t.worker
    BY <1>3, <1>4 DEF TunnelTyped, TunnelFields
  <1>6. connected =>
            /\ TunnelTyped(tn')
            /\ tn'.arg.refCount = arg.refCount + 1 /\ tn'.arg.deleted = arg.deleted
            /\ tn'.session = [t.session EXCEPT !["backend"] = "pushed"]
            /\ tn'.task = t.task /\ tn'.running = t.running
            /\ tn'.armed = t.armed /\ tn'.writable = t.writable /\ tn'.worker = t.worker
    BY <1>2, <1>3, <1>4 DEF TunnelTyped, TunnelFields, AddRef, SideStates
  <1> HIDE DEF v
  <1>7. TunnelGood(v)
    <2>1. SameOthers(tn, v, w)
      BY <1>3, <1>5 DEF SameOthers
    <2> QED
      BY <1>1, <1>2, <1>3, <1>4, <1>5, <2>1, TakeGood
  <1>8. CASE ~connected
    BY <1>2, <1>7, <1>8
  <1>9. CASE connected
    <2>1. v.session["backend"] = "none" /\ Refs(v.session["tunnel"]) = 1
      BY <1>1, <1>2, <1>3, <1>5 DEF RefsOK, SideOK, Refs, LiveStates
    <2>2. tn'.session["backend"] = "pushed" /\ tn'.session["tunnel"] = v.session["tunnel"]
      BY <1>3, <1>5, <1>6, <1>9 DEF TunnelTyped, Sides
    <2>3. SideOK(tn', "tunnel")
      BY <1>1, <1>5, <1>6, <1>7, <1>9, <2>2 DEF TunnelGood, SideOK, Inside
    <2>4. SideOK(tn', "backend")
      <3>1. /\ SideOK(v, "backend")
            /\ ~v.armed["backend"] /\ ~v.writable["backend"] /\ ~v.running["backend"]
        BY <1>1, <1>7, <2>1 DEF TunnelGood, SideOK, LiveStates
      <3>2. \A x \in TunnelWorkers : ~Inside(v, x, "backend")
        BY <2>1, <3>1 DEF SideOK
      <3>3. v.task["backend"] \notin {"start", "handle", "end"}
        BY <2>1, <3>1 DEF SideOK
      <3> QED
        BY <1>5, <1>6, <1>9, <3>1, <3>2, <3>3 DEF SideOK, Inside
    <2>5. RefsOK(tn')
      <3>1. tn'.task["tunnel"] = "none"
        BY <1>1, <1>3, <1>6, <1>9 DEF TunnelTyped
      <3>2. Refs("none") = 0 /\ Refs("pushed") = 1
        BY DEF Refs
      <3> QED
        BY <1>4, <1>5, <1>6, <1>7, <1>9, <2>1, <2>2, <3>1, <3>2 DEF TunnelGood, RefsOK
    <2> QED
      BY <1>6, <1>9, <2>3, <2>4, <2>5 DEF TunnelGood, Sides
  <1> QED
    BY <1>8, <1>9

LEMMA BackendStartGood ==
    ASSUME NEW w \in TunnelWorkers, TunnelGood(tn), BackendStart(w)
    PROVE  TunnelGood(tn')
  <1>1. TunnelTyped(tn) /\ "backend" \in Sides
    BY DEF TunnelGood, Sides
  <1>2. CASE /\ TakesTask(w, "backend", "start")
             /\ tn' = [Working(tn, w, "sid", "backend") EXCEPT !.arg = SetBackendSid(@)]
    <2> DEFINE t == Working(tn, w, "sid", "backend")
    <2>1. /\ TunnelTyped(t)
          /\ t.task = [tn.task EXCEPT !["backend"] = "none"]
          /\ t.session = tn.session /\ t.running = tn.running /\ t.armed = tn.armed
          /\ t.writable = tn.writable /\ t.arg = tn.arg /\ SameOthers(tn, t, w)
          /\ t.worker[w].pc = "sid" /\ t.worker[w].side = "backend"
      BY <1>1, WorkingEffect
    <2>2. tn.worker[w].pc = "idle" /\ tn.task["backend"] = "start"
      BY <1>2 DEF TakesTask
    <2> HIDE DEF t
    <2>3. /\ TunnelTyped(tn') /\ SameOthers(tn, tn', w)
          /\ tn'.task = t.task /\ tn'.session = t.session /\ tn'.running = t.running
          /\ tn'.armed = t.armed /\ tn'.writable = t.writable /\ tn'.worker = t.worker
          /\ tn'.arg.refCount = t.arg.refCount /\ tn'.arg.deleted = t.arg.deleted
      <3>1. tn' = [t EXCEPT !.arg = SetBackendSid(@)]
        BY <1>2 DEF t
      <3> QED
        BY <2>1, <3>1 DEF TunnelTyped, TunnelFields, SetBackendSid, SameOthers
    <2> QED
      BY <1>1, <2>1, <2>2, <2>3, TakeGood
  <1>3. CASE /\ tn.worker[w].pc = "sid" /\ tn.worker[w].side = "backend"
             /\ tn' = [tn EXCEPT !.arg = SetBackendStatus(@, "normal"), !.worker[w].pc = "started"]
    <2>1. /\ TunnelTyped(tn') /\ SameOthers(tn, tn', w)
          /\ tn'.task = tn.task /\ tn'.session = tn.session /\ tn'.running = tn.running
          /\ tn'.armed = tn.armed /\ tn'.writable = tn.writable
          /\ tn'.worker[w].pc = "started" /\ tn'.worker[w].side = tn.worker[w].side
          /\ tn'.arg.refCount = tn.arg.refCount /\ tn'.arg.deleted = tn.arg.deleted
      BY <1>1, <1>3 DEF TunnelTyped, TunnelFields, SetBackendStatus, SameOthers
    <2> QED
      BY <1>3, <2>1, MoveGood
  <1> QED
    BY <1>2, <1>3 DEF BackendStart

\* SP_EventHelper::start after the handler
LEMMA StartedGood ==
    ASSUME NEW w \in TunnelWorkers, NEW channelUp, TunnelGood(tn), Started(w, channelUp)
    PROVE  TunnelGood(tn')
  <1> DEFINE s == tn.worker[w].side
  <1>1. TunnelTyped(tn) /\ s \in Sides
    BY DEF TunnelGood, TunnelTyped
  <1>2. tn.worker[w].pc \in {"started", "refused"} /\ Inside(tn, w, s)
    BY DEF Started, Inside
  <1>3. PICK state \in {"up", "wouldExit"} :
            tn' = [tn EXCEPT !.session[s] = state, !.running[s] = FALSE, !.worker[w].pc = "push"]
    BY DEF Started
  <1> HIDE DEF s
  <1>4. /\ TunnelTyped(tn') /\ SameOthers(tn, tn', w)
        /\ tn'.session[s] = state /\ \A r \in Sides \ {s} : tn'.session[r] = tn.session[r]
        /\ tn'.running = [tn.running EXCEPT ![s] = FALSE]
        /\ tn'.task = tn.task /\ tn'.armed = tn.armed /\ tn'.writable = tn.writable
        /\ tn'.worker[w].pc = "push" /\ tn'.arg = tn.arg
    BY <1>1, <1>3 DEF TunnelTyped, TunnelFields, SideStates, LiveStates, SameOthers
  <1> QED
    BY <1>1, <1>2, <1>4, LeaveGood

\* handle() is over: the session is not running any more.
LEMMA HandleOver ==
    ASSUME NEW w \in TunnelWorkers, NEW s \in Sides, NEW state, TunnelGood(tn),
           tn.worker[w].pc = "ret", tn.worker[w].side = s,
           state \in {tn.session[s], "wouldExit"},
           tn' = [tn EXCEPT !.session[s] = state, !.running[s] = FALSE, !.worker[w].pc = "push"]
    PROVE  TunnelGood(tn')
  <1>1. TunnelTyped(tn) /\ Inside(tn, w, s)
    BY DEF TunnelGood, Inside
  <1>2. /\ TunnelTyped(tn') /\ SameOthers(tn, tn', w)
        /\ tn'.session[s] = state /\ \A r \in Sides \ {s} : tn'.session[r] = tn.session[r]
        /\ tn'.running = [tn.running EXCEPT ![s] = FALSE]
        /\ tn'.task = tn.task /\ tn'.armed = tn.armed /\ tn'.writable = tn.writable
        /\ tn'.worker[w].pc = "push" /\ tn'.arg = tn.arg
    BY <1>1 DEF TunnelTyped, TunnelFields, SideStates, LiveStates, SameOthers
  <1> QED
    BY <1>1, <1>2, LeaveGood

LEMMA TunnelHandleGood ==
    ASSUME NEW w \in TunnelWorkers, TunnelGood(tn), TunnelHandle(w)
    PROVE  TunnelGood(tn')
  <1>1. TunnelTyped(tn) /\ "tunnel" \in Sides
    BY DEF TunnelGood, Sides
  <1>2. CASE /\ TakesTask(w, "tunnel", "handle")
             /\ tn' = [TakeBuffer(Working(tn, w, "ret", "tunnel"), "tunnel") EXCEPT
                           !.blocks = @ \o tn.decoder["tunnel"]]
    <2>1. /\ TunnelTyped(tn') /\ SameOthers(tn, tn', w)
          /\ tn'.task = [tn.task EXCEPT !["tunnel"] = "none"] /\ tn'.session = tn.session
          /\ tn'.running = tn.running /\ tn'.armed = tn.armed /\ tn'.writable = tn.writable
          /\ tn'.worker[w].pc = "ret" /\ tn'.worker[w].side = "tunnel" /\ tn'.arg = tn.arg
      BY <1>1, <1>2 DEF TunnelTyped, TunnelFields, TakeBuffer, Working, SameOthers
    <2>2. tn.worker[w].pc = "idle" /\ tn.task["tunnel"] = "handle"
      BY <1>2 DEF TakesTask
    <2> QED
      BY <1>1, <2>1, <2>2, TakeGood
  <1>3. CASE /\ TakesTask(w, "tunnel", "handle")
             /\ tn' = [TakeBuffer(Working(tn, w, "address", "tunnel"), "tunnel") EXCEPT
                           !.worker[w].data = tn.decoder["tunnel"]]
    <2>1. /\ TunnelTyped(tn') /\ SameOthers(tn, tn', w)
          /\ tn'.task = [tn.task EXCEPT !["tunnel"] = "none"] /\ tn'.session = tn.session
          /\ tn'.running = tn.running /\ tn'.armed = tn.armed /\ tn'.writable = tn.writable
          /\ tn'.worker[w].pc = "address" /\ tn'.worker[w].side = "tunnel" /\ tn'.arg = tn.arg
      BY <1>1, <1>3 DEF TunnelTyped, TunnelFields, TakeBuffer, Working, SameOthers
    <2>2. tn.worker[w].pc = "idle" /\ tn.task["tunnel"] = "handle"
      BY <1>3 DEF TakesTask
    <2> QED
      BY <1>1, <2>1, <2>2, TakeGood
  <1>4. CASE /\ tn.worker[w].pc = "address"
             /\ tn' = [tn EXCEPT !.worker[w].to = tn.arg.sid["backend"],
                                 !.worker[w].data = tn.blocks \o @,
                                 !.worker[w].pc = "ret", !.blocks = <<>>]
    <2>1. /\ TunnelTyped(tn') /\ SameOthers(tn, tn', w)
          /\ tn'.task = tn.task /\ tn'.session = tn.session /\ tn'.running = tn.running
          /\ tn'.armed = tn.armed /\ tn'.writable = tn.writable
          /\ tn'.worker[w].pc = "ret" /\ tn'.worker[w].side = tn.worker[w].side
          /\ tn'.arg = tn.arg
      BY <1>1, <1>4 DEF TunnelTyped, TunnelFields, SameOthers
    <2> QED
      BY <1>4, <2>1, MoveGood
  <1>5. CASE /\ tn.worker[w].pc = "ret" /\ tn.worker[w].side = "tunnel"
             /\ tn' = [tn EXCEPT !.session["tunnel"] = IF tn.arg.status["backend"] = "destroy"
                                                       THEN "wouldExit" ELSE @,
                                 !.running["tunnel"] = FALSE, !.worker[w].pc = "push"]
    <2>1. PICK state \in {tn.session["tunnel"], "wouldExit"} :
              tn' = [tn EXCEPT !.session["tunnel"] = state, !.running["tunnel"] = FALSE,
                               !.worker[w].pc = "push"]
      BY <1>5
    <2> QED
      BY <1>1, <1>5, <2>1, HandleOver
  <1> QED
    BY <1>2, <1>3, <1>4, <1>5 DEF TunnelHandle

LEMMA BackendHandleGood ==
    ASSUME NEW w \in TunnelWorkers, TunnelGood(tn), BackendHandle(w)
    PROVE  TunnelGood(tn')
  <1>1. TunnelTyped(tn) /\ "backend" \in Sides
    BY DEF TunnelGood, Sides
  <1>2. CASE /\ TakesTask(w, "backend", "handle")
             /\ tn' = [TakeBuffer(Working(tn, w, "ret", "backend"), "backend") EXCEPT
                           !.worker[w].to = tn.arg.sid["tunnel"],
                           !.worker[w].data = tn.decoder["backend"]]
    <2>1. /\ TunnelTyped(tn') /\ SameOthers(tn, tn', w)
          /\ tn'.task = [tn.task EXCEPT !["backend"] = "none"] /\ tn'.session = tn.session
          /\ tn'.running = tn.running /\ tn'.armed = tn.armed /\ tn'.writable = tn.writable
          /\ tn'.worker[w].pc = "ret" /\ tn'.worker[w].side = "backend" /\ tn'.arg = tn.arg
      BY <1>1, <1>2 DEF TunnelTyped, TunnelFields, TakeBuffer, Working, SameOthers
    <2>2. tn.worker[w].pc = "idle" /\ tn.task["backend"] = "handle"
      BY <1>2 DEF TakesTask
    <2> QED
      BY <1>1, <2>1, <2>2, TakeGood
  <1>3. CASE /\ tn.worker[w].pc = "ret" /\ tn.worker[w].side = "backend"
             /\ tn' = [tn EXCEPT !.session["backend"] = IF tn.arg.status["tunnel"] # "normal"
                                                        THEN "wouldExit" ELSE @,
                                 !.running["backend"] = FALSE, !.worker[w].pc = "push"]
    <2>1. PICK state \in {tn.session["backend"], "wouldExit"} :
              tn' = [tn EXCEPT !.session["backend"] = state, !.running["backend"] = FALSE,
                               !.worker[w].pc = "push"]
      BY <1>3
    <2> QED
      BY <1>1, <1>3, <2>1, HandleOver
  <1> QED
    BY <1>2, <1>3 DEF BackendHandle

LEMMA QueueResponseGood ==
    ASSUME NEW w \in TunnelWorkers, TunnelGood(tn), QueueResponse(w)
    PROVE  TunnelGood(tn')
  <1>1. /\ TunnelTyped(tn') /\ SameOthers(tn, tn', w)
        /\ tn'.task = tn.task /\ tn'.session = tn.session /\ tn'.running = tn.running
        /\ tn'.armed = tn.armed /\ tn'.writable = tn.writable
        /\ tn'.worker[w].pc = "idle" /\ tn'.arg = tn.arg
    BY DEF QueueResponse, TunnelGood, TunnelTyped, TunnelFields, SameOthers, NoWork, Sides
  <1> QED
    BY <1>1, MoveGood

\* error(), timeout() or close() of a handler
LEMMA CloseGood ==
    ASSUME NEW w \in TunnelWorkers, TunnelGood(tn), TunnelClose(w) \/ BackendClose(w)
    PROVE  TunnelGood(tn')
  <1>1. TunnelTyped(tn) /\ "tunnel" \in Sides /\ "backend" \in Sides
    BY DEF TunnelGood, Sides
  <1>2. CASE TunnelClose(w)
    <2> DEFINE t == Working(tn, w, "delete", "tunnel")
    <2>1. /\ TunnelTyped(t)
          /\ t.task = [tn.task EXCEPT !["tunnel"] = "none"]
          /\ t.session = tn.session /\ t.running = tn.running /\ t.armed = tn.armed
          /\ t.writable = tn.writable /\ t.arg = tn.arg /\ SameOthers(tn, t, w)
          /\ t.worker[w].pc = "delete" /\ t.worker[w].side = "tunnel"
      BY <1>1, WorkingEffect
    <2>2. tn.worker[w].pc = "idle" /\ tn.task["tunnel"] = "end"
      BY <1>2 DEF TunnelClose, TakesTask
    <2>3. tn' = [t EXCEPT !.arg = SetTunnelStatus(@, "destroy")]
      BY <1>2 DEF TunnelClose
    <2> HIDE DEF t
    <2>4. /\ TunnelTyped(tn') /\ SameOthers(tn, tn', w)
          /\ tn'.task = t.task /\ tn'.session = t.session /\ tn'.running = t.running
          /\ tn'.armed = t.armed /\ tn'.writable = t.writable /\ tn'.worker = t.worker
          /\ tn'.arg.refCount = t.arg.refCount /\ tn'.arg.deleted = t.arg.deleted
      BY <2>1, <2>3 DEF TunnelTyped, TunnelFields, SetTunnelStatus, SameOthers
    <2> QED
      BY <1>1, <2>1, <2>2, <2>4, TakeGood
  <1>3. CASE BackendClose(w)
    <2> DEFINE t == Working(tn, w, "delete", "backend")
    <2>1. /\ TunnelTyped(t)
          /\ t.task = [tn.task EXCEPT !["backend"] = "none"]
          /\ t.session = tn.session /\ t.running = tn.running /\ t.armed = tn.armed
          /\ t.writable = tn.writable /\ t.arg = tn.arg /\ SameOthers(tn, t, w)
          /\ t.worker[w].pc = "delete" /\ t.worker[w].side = "backend"
      BY <1>1, WorkingEffect
    <2>2. tn.worker[w].pc = "idle" /\ tn.task["backend"] = "end"
      BY <1>3 DEF BackendClose, TakesTask
    <2>3. tn' = [t EXCEPT !.arg = SetBackendStatus(@, "destroy")]
      BY <1>3 DEF BackendClose
    <2> HIDE DEF t
    <2>4. /\ TunnelTyped(tn') /\ SameOthers(tn, tn', w)
          /\ tn'.task = t.task /\ tn'.session = t.session /\ tn'.running = t.running
          /\ tn'.armed = t.armed /\ tn'.writable = t.writable /\ tn'.worker = t.worker
          /\ tn'.arg.refCount = t.arg.refCount /\ tn'.arg.deleted = t.arg.deleted
      BY <2>1, <2>3 DEF TunnelTyped, TunnelFields, SetBackendStatus, SameOthers
    <2> QED
      BY <1>1, <2>1, <2>2, <2>4, TakeGood
  <1> QED
    BY <1>2, <1>3

LEMMA DestroyGood ==
    ASSUME NEW w \in TunnelWorkers, TunnelGood(tn), TunnelDelete(w) \/ BackendDelete(w)
    PROVE  TunnelGood(tn')
  <1>1. TunnelTyped(tn)
    BY DEF TunnelGood
  <1>2. PICK s \in Sides :
            /\ tn.worker[w].pc = "delete" /\ tn.worker[w].side = s
            /\ TunnelTyped(tn') /\ SameOthers(tn, tn', w)
            /\ tn'.session = [tn.session EXCEPT ![s] = "gone"]
            /\ tn'.task = tn.task /\ tn'.running = tn.running
            /\ tn'.armed = tn.armed /\ tn'.writable = tn.writable
            /\ tn'.worker[w].pc = "idle" /\ tn'.arg = Release(tn.arg)
    <2>1. CASE TunnelDelete(w)
      BY <1>1, <2>1 DEF TunnelDelete, TunnelTyped, TunnelFields, SideStates, SameOthers, NoWork,
                        Release, Sides
    <2>2. CASE BackendDelete(w)
      BY <1>1, <2>2 DEF BackendDelete, TunnelTyped, TunnelFields, SideStates, SameOthers, NoWork,
                        Release, Sides
    <2> QED
      BY <2>1, <2>2
  <1> QED
    BY <1>2, DeleteGood

LEMMA TunnelGoodNext == TunnelGood(tn) /\ [TunnelNext]_tn => TunnelGood(tn')
  <1> SUFFICES ASSUME TunnelGood(tn), [TunnelNext]_tn PROVE TunnelGood(tn')
    OBVIOUS
  <1>1. CASE TunnelOnPush
    BY <1>1, OnPushGood
  <1>2. CASE TunnelOnResponse
    BY <1>2, OnTunnelResponseGood
  <1>3. ASSUME NEW s \in Sides,
               \/ TunnelOnRead(s) \/ TunnelHangup(s)
               \/ \E n \in 0 .. MaxTunnelData : TunnelOnWrite(s, n)
        PROVE  TunnelGood(tn')
    BY <1>3, OnReadGood, HangupGood, OnWriteGood
  <1>4. ASSUME NEW w \in TunnelWorkers,
               \/ \E b \in BOOLEAN : TunnelStart(w, b) \/ Started(w, b)
               \/ BackendStart(w) \/ TunnelHandle(w) \/ BackendHandle(w)
               \/ QueueResponse(w)
               \/ TunnelClose(w) \/ TunnelDelete(w) \/ BackendClose(w) \/ BackendDelete(w)
        PROVE  TunnelGood(tn')
    BY <1>4, TunnelStartGood, StartedGood, BackendStartGood, TunnelHandleGood, BackendHandleGood,
       QueueResponseGood, CloseGood, DestroyGood
  <1>5. CASE UNCHANGED tn
    BY <1>5
  <1> QED
    BY <1>1, <1>2, <1>3, <1>4, <1>5, Zenon DEF TunnelNext

\* The count is that of the sides whose handler is there.
LEMMA RefsCounted == TunnelGood(tn) => ArgCounted
  <1> SUFFICES ASSUME TunnelGood(tn) PROVE ArgCounted
    OBVIOUS
  <1> DEFINE H == {s \in Sides : tn.session[s] \notin {"none", "gone"}}
  <1>1. Cardinality({}) = 0 /\ IsFiniteSet({})
    BY FS_EmptySet
  <1>2. Cardinality({"tunnel"}) = 1 /\ Cardinality({"backend"}) = 1 /\ IsFiniteSet({"tunnel"})
    BY FS_Singleton
  <1>3. Cardinality({"tunnel"} \cup {"backend"}) = 2
    <2>1. "backend" \notin {"tunnel"}
      OBVIOUS
    <2> QED
      BY <1>2, <2>1, FS_AddElement
  <1>4. H = (IF Refs(tn.session["tunnel"]) = 1 THEN {"tunnel"} ELSE {})
            \cup (IF Refs(tn.session["backend"]) = 1 THEN {"backend"} ELSE {})
    BY DEF Refs, Sides
  <1>5. \A state : Refs(state) \in {0, 1}
    BY DEF Refs
  <1>6. /\ Cardinality(H) = Refs(tn.session["tunnel"]) + Refs(tn.session["backend"])
        /\ H = {} <=> Refs(tn.session["tunnel"]) + Refs(tn.session["backend"]) = 0
    <2> DEFINE a == Refs(tn.session["tunnel"])
    <2> DEFINE b == Refs(tn.session["backend"])
    <2>1. a \in {0, 1} /\ b \in {0, 1}
      BY <1>5
    <2>2. H = (IF a = 1 THEN {"tunnel"} ELSE {}) \cup (IF b = 1 THEN {"backend"} ELSE {})
      BY <1>4
    <2> HIDE DEF a, b, H
    <2>3. CASE a = 0 /\ b = 0
      <3>1. H = {}
        BY <2>2, <2>3
      <3> QED
        BY <1>1, <2>3, <3>1 DEF a, b
    <2>4. CASE a = 1 /\ b = 0
      <3>1. H = {"tunnel"}
        BY <2>2, <2>4
      <3> QED
        BY <1>2, <2>4, <3>1 DEF a, b
    <2>5. CASE a = 0 /\ b = 1
      <3>1. H = {"backend"}
        BY <2>2, <2>5
      <3> QED
        BY <1>2, <2>5, <3>1 DEF a, b
    <2>6. CASE a = 1 /\ b = 1
      <3>1. H = {"tunnel"} \cup {"backend"}
        BY <2>2, <2>6
      <3> QED
        BY <1>3, <2>6, <3>1 DEF a, b
    <2> QED
      BY <2>1, <2>3, <2>4, <2>5, <2>6
  <1> HIDE DEF H
  <1>7. tn.arg.refCount = Cardinality(H) /\ (tn.arg.deleted <=> H = {})
    BY <1>6 DEF TunnelGood, RefsOK
  <1> QED
    BY <1>7 DEF ArgCounted, H

\* In every interleaving of the two sessions' tasks with the loop, for any number of
\* threads and of chunks: SP_TunnelArg's count is the number of the handlers that
\* point to it, and it is destroyed with the last of them and not before.
THEOREM TunnelArgCounted == TunnelSpec => []ArgCounted
  <1>1. TunnelInit => TunnelGood(tn)
    BY TunnelGoodInit
  <1>2. TunnelGood(tn) /\ [TunnelNext]_tn => TunnelGood(tn)'
    BY TunnelGoodNext
  <1>3. TunnelGood(tn) => ArgCounted
    BY RefsCounted
  <1> QED
    BY <1>1, <1>2, <1>3, PTL DEF TunnelSpec
=============================================================================
