-------------------------------- MODULE Smtp --------------------------------
(***************************************************************************)
(* The SMTP dialogue of spserver/spsmtp.cpp: SP_SmtpSession holds the      *)
(* state of one connection, SP_SmtpHandlerAdapter::handle is called with   *)
(* one decoded message at a time and calls the user's SP_SmtpHandler.      *)
(*                                                                         *)
(* A line is its command and what follows it; the replies are left out.    *)
(* The user's handler answers eAccept, eReject or eClose as it likes.      *)
(***************************************************************************)
EXTENDS Integers, Sequences

CONSTANT MaxCalls       \* bound: handler calls between two RSETs

ASSUME SmtpAssumption == MaxCalls \in Nat

VARIABLES
    smtp,       \* SP_SmtpSession, and the decoder of the request
    calls       \* calls of from, rcpt and data since rset, with their results
smtpVars == <<smtp, calls>>

Results == {"eAccept", "eReject", "eClose"}

\* reset()
ResetSession(s) ==
    [s EXCEPT !.mSeenSender = FALSE, !.mRcptCount = 0, !.mSeenData = FALSE, !.mDataMode = FALSE]

\* open: the server still hands messages of the session to the handler.
NewSmtp ==
    [open |-> TRUE, started |-> FALSE, decoder |-> "Default", mAuthStep |-> "eStepOther",
     mSeenAuth |-> FALSE, mSeenHelo |-> FALSE, mSeenSender |-> FALSE, mRcptCount |-> 0,
     mSeenData |-> FALSE, mDataMode |-> FALSE]

SmtpInit == smtp = NewSmtp /\ calls = <<>>

\* The setters: one field is overwritten.
With(s, field, value) == [s EXCEPT ![field] = value]

SetDataMode(s, mode) ==
    [s EXCEPT !.mDataMode = mode, !.mSeenData = @ \/ mode]

\* handle returns -1 for eClose, which ends the session.
Finish(s, res) == smtp' = [s EXCEPT !.open = res # "eClose"]
Called(name, res) == calls' = Append(calls, [name |-> name, res |-> res])

\* start: the value of welcome is the value of start, where all but eAccept
\* (0) ends the session.
Start(res) ==
    /\ smtp.open /\ ~smtp.started
    /\ smtp' = [smtp EXCEPT !.started = TRUE, !.decoder = "Line", !.open = res = "eAccept"]
    /\ UNCHANGED calls

Ready == smtp.open /\ smtp.started

-----------------------------------------------------------------------------
(* handle, by what it is waiting for *)

\* The text of a mail: the decoder is taken for a DotTermChunk decoder.
HandleText(res) ==
    /\ Ready /\ smtp.mDataMode
    /\ Finish(With(SetDataMode(smtp, FALSE), "decoder", "Line"), res)
    /\ Called("data", res)

HandleUser ==
    /\ Ready /\ ~smtp.mDataMode /\ smtp.mAuthStep = "eStepUser"
    /\ smtp' = With(smtp, "mAuthStep", "eStepPass")
    /\ UNCHANGED calls

HandlePass(res) ==
    /\ Ready /\ ~smtp.mDataMode /\ smtp.mAuthStep = "eStepPass"
    /\ Finish([smtp EXCEPT !.mAuthStep = "eStepOther", !.mSeenAuth = @ \/ res = "eAccept"], res)
    /\ UNCHANGED calls

Command == Ready /\ ~smtp.mDataMode /\ smtp.mAuthStep = "eStepOther"

\* EHLO and HELO with a host name, once; without one, and once a greeting was
\* accepted, only a reply is made.
Ehlo(res) ==
    /\ Command /\ ~smtp.mSeenHelo
    /\ Finish(With(smtp, "mSeenHelo", res = "eAccept"), res)
    /\ UNCHANGED calls
Helo(res) ==
    /\ Command /\ ~smtp.mSeenHelo
    /\ Finish(With(smtp, "mSeenHelo", res = "eAccept"), res)
    /\ UNCHANGED calls

\* AUTH LOGIN after a greeting.
Auth ==
    /\ Command /\ smtp.mSeenHelo /\ ~smtp.mSeenAuth
    /\ smtp' = With(smtp, "mAuthStep", "eStepUser")
    /\ UNCHANGED calls

Mail(res) ==
    /\ Command /\ smtp.mSeenHelo /\ ~smtp.mSeenSender
    /\ Finish(With(smtp, "mSeenSender", res = "eAccept"), res)
    /\ Called("from", res)

Rcpt(res) ==
    /\ Command /\ smtp.mSeenHelo /\ smtp.mSeenSender /\ ~smtp.mSeenData
    /\ Finish([smtp EXCEPT !.mRcptCount = IF res = "eAccept" THEN @ + 1 ELSE @], res)
    /\ Called("rcpt", res)

\* Fault: DATA is allowed as soon as there is a sender.
DataEarly ==
    /\ Command /\ smtp.mSeenHelo /\ smtp.mSeenSender
    /\ smtp' = With(SetDataMode(smtp, TRUE), "decoder", "DotTermChunk")
    /\ UNCHANGED calls

\* DATA: the decoder is changed before data mode is entered, in one call.
DataCmd ==
    /\ Command /\ smtp.mSeenHelo /\ smtp.mSeenSender /\ smtp.mRcptCount > 0
    /\ smtp' = With(SetDataMode(smtp, TRUE), "decoder", "DotTermChunk")
    /\ UNCHANGED calls

Rset(res) ==
    /\ Command
    /\ Finish(ResetSession(smtp), res)
    /\ calls' = <<>>

\* NOOP and HELP only call the handler.
NoopHelp(res) == Command /\ Finish(smtp, res) /\ UNCHANGED calls

Quit == Command /\ Finish(smtp, "eClose") /\ UNCHANGED calls

SmtpNext ==
    \/ \E res \in Results : Start(res) \/ HandlePass(res) \/ Ehlo(res) \/ Helo(res)
                            \/ Rset(res) \/ NoopHelp(res)
    \/ /\ Len(calls) < MaxCalls
       /\ \E res \in Results : HandleText(res) \/ Mail(res) \/ Rcpt(res)
    \/ HandleUser \/ Auth \/ DataCmd \/ Quit

SmtpSpec == SmtpInit /\ [][SmtpNext]_smtpVars

-----------------------------------------------------------------------------

Accepted(name, i) == \E j \in 1 .. (i - 1) : calls[j] = [name |-> name, res |-> "eAccept"]

\* "Will only be called if at least one recipient was accepted" and "This will
\* occur after a from() call": between two calls of rset, whatever commands the
\* client sends and however the handler answers, data comes after an accepted
\* rcpt, rcpt after an accepted from and before the first data, and no from
\* after an accepted one.
HandlerProtocol ==
    \A i \in DOMAIN calls :
        CASE calls[i].name = "data" -> Accepted("rcpt", i)
          [] calls[i].name = "rcpt" -> Accepted("from", i)
                                       /\ \A j \in 1 .. (i - 1) : calls[j].name # "data"
          [] calls[i].name = "from" -> ~Accepted("from", i)

\* handle casts the decoder without looking: whenever it takes the branch of a
\* mail's text the decoder is a DotTermChunk decoder, and a line decoder in all
\* the others, so that a dialogue with several mails, RSETs and logins never
\* reads one class as another.
DecoderMatchesMode ==
    Ready => smtp.decoder = IF smtp.mDataMode THEN "DotTermChunk" ELSE "Line"

\* A dialogue keeps to the handler's protocol and to the decoder of its mode.
SmtpDialogue == HandlerProtocol /\ DecoderMatchesMode
=============================================================================
