------------------------------- MODULE UsbLink -------------------------------
(***************************************************************************)
(* A USB session end to end: the view and the session runner on the app's  *)
(* one thread (views/usb_views.py, usb/session.py), the gateway process    *)
(* (usb/gateway.py), the socketpair between them, the HID endpoint, a host *)
(* that sends what it likes when it likes, and a user who may answer a     *)
(* prompt, leave, or do neither.                                           *)
(*                                                                         *)
(* Whole messages travel here (HidFraming.tla has the reports), records    *)
(* carry the channel they were sealed for and their counter                *)
(* (SecureChannel.tla has the keys), and requests are handled by           *)
(* UsbProtocol.tla, of which every session is a run.                       *)
(***************************************************************************)
EXTENDS Integers, Sequences, FiniteSets

CONSTANTS
  \* those of UsbProtocol
  MIN_FOREIGN_INPUTS, MIN_TOTAL_INPUTS, MAX_TOTAL_INPUTS,
  MIN_TOTAL_OUTPUTS, MAX_TOTAL_OUTPUTS, NoPath,
  Rounds, Paths, RoundLimits, FeeLimits, MAX_ROUNDS_LIMIT, Malformed,
  NoAuthorization, NoPrompt,
  \* this module's own
  HostRequests,   \* the requests this host makes
  Attachments,    \* what `attached' may be
  UNBIND_FAILS,   \* may the gadget tool fail to take the gadget off the bus
  MaxSessions,    \* bound: sessions the user starts
  MaxSent,        \* bound: messages the host sends
  MaxQueue,       \* bound: messages the endpoint (or the socket) holds
  NoRecord        \* no handler is running

NoChannel == 0

ASSUME LinkAssumption ==
  /\ Attachments \subseteq BOOLEAN /\ UNBIND_FAILS \in BOOLEAN
  /\ MaxSessions \in Nat /\ MaxSent \in Nat /\ MaxQueue \in Nat

VARIABLES
  \* UsbProtocol
  authorization, prompt, reply, approved, signed,
  \* the app's thread: what it is doing, where stop() returns to, and the record
  \* whose handler is running
  pc, resume, serving,
  \* UsbSessionRunner; between sessions the state is that of a stopped runner
  state, channel, received, sock, bound,
  \* the gateway process and what it is about to write to the host
  gateway, outgoing,
  \* the gadget, the HID endpoint, both directions of the socketpair
  onBus, endpoint, toApp, toGateway,
  \* the host: its channel and how many records it sealed for it
  hostChannel, hostSealed,
  \* FALSE: as in the app, a gateway behind UsbSessionView; TRUE: a host on the
  \* socketpair itself (attach()), pump() and complete_pairing() in any order
  attached,
  \* History and bounds, not in the code: sessions started, messages sent,
  \* channels whose digits the user accepted, answers the host has received
  session, sent, accepted, answered

protocolVars == <<authorization, prompt, reply, approved, signed>>
threadVars   == <<pc, resume, serving>>
runnerVars   == <<state, channel, received, sock, bound>>
appVars      == <<protocolVars, threadVars, runnerVars, session, attached, accepted>>
gatewayVars  == <<gateway, outgoing>>
busVars      == <<onBus, endpoint>>
socketVars   == <<toApp, toGateway>>
hostVars     == <<hostChannel, hostSealed, sent, answered>>
vars == <<appVars, gatewayVars, busVars, socketVars, hostVars>>

Protocol == INSTANCE UsbProtocol

-----------------------------------------------------------------------------
(* Messages. *)

Hello          == [kind |-> "hello"]
BadHello       == [kind |-> "bad_hello"]
Garbage        == [kind |-> "garbage"]    \* a record that does not authenticate
Broken         == [kind |-> "broken"]     \* reports that are not a message
Record(ch, n, req) == [kind |-> "record", channel |-> ch, n |-> n, req |-> req]
HelloReply(ch) == [kind |-> "hello", channel |-> ch]
Answer(record) == [kind |-> "answer", channel |-> record.channel, n |-> record.n]

Init ==
  /\ Protocol!Init
  /\ pc = "menu" /\ resume = "menu" /\ serving = NoRecord
  /\ state = "ENDED" /\ channel = NoChannel /\ received = 0
  /\ sock = "none" /\ bound = FALSE
  /\ gateway = "none" /\ outgoing = << >>
  /\ onBus = FALSE /\ endpoint = << >> /\ toApp = << >> /\ toGateway = << >>
  /\ hostChannel = NoChannel /\ hostSealed = 0 /\ sent = 0 /\ answered = << >>
  /\ attached \in Attachments
  /\ session = 0 /\ accepted = {}

-----------------------------------------------------------------------------
(* The host. *)

HostSend(message) ==
  /\ sent < MaxSent
  /\ sent' = sent + 1
  /\ IF attached
     THEN /\ sock = "open" /\ Len(toApp) < MaxQueue
          /\ toApp' = Append(toApp, message)
          /\ UNCHANGED endpoint
     ELSE /\ onBus /\ Len(endpoint) < MaxQueue
          /\ endpoint' = Append(endpoint, message)
          /\ UNCHANGED toApp
  /\ UNCHANGED <<appVars, gatewayVars, onBus, toGateway, answered>>

HostSendsPlain ==
  /\ \E message \in {Hello, BadHello, Garbage, Broken} : HostSend(message)
  /\ UNCHANGED <<hostChannel, hostSealed>>

\* A host that has the device's hello need not wait for the user to compare the
\* digits: it can seal and send a request at once.  It may also send a record
\* again, or one it sealed for an earlier session.
HostSendsRequest ==
  /\ hostChannel # NoChannel
  /\ \E req \in HostRequests, n \in 0 .. hostSealed :
       /\ HostSend(Record(hostChannel, n, req))
       /\ hostSealed' = IF n = hostSealed THEN n + 1 ELSE hostSealed
  /\ UNCHANGED hostChannel

\* What the host does with a reply.
HostTakes(message) ==
  IF message.kind = "hello"
  THEN hostChannel' = message.channel /\ hostSealed' = 0 /\ UNCHANGED answered
  ELSE answered' = Append(answered, message) /\ UNCHANGED <<hostChannel, hostSealed>>

HostReads ==
  /\ attached /\ toGateway # << >>
  /\ HostTakes(Head(toGateway))
  /\ toGateway' = Tail(toGateway)
  /\ UNCHANGED <<appVars, gatewayVars, busVars, toApp, sent>>

-----------------------------------------------------------------------------
(* The gateway: one loop of blocking calls, an exit wherever one fails. *)

GatewayIsRunning == gateway \in {"reading", "awaiting", "writing"}

GatewayExits ==
  /\ gateway' = "exited" /\ outgoing' = << >>
  /\ UNCHANGED <<appVars, busVars, socketVars, hostVars>>

GatewayForwards ==
  /\ gateway = "reading" /\ sock = "open"
  /\ endpoint # << >> /\ Head(endpoint) # Broken
  /\ endpoint' = Tail(endpoint)
  /\ toApp' = Append(toApp, Head(endpoint))
  /\ gateway' = "awaiting"
  /\ UNCHANGED <<appVars, outgoing, onBus, toGateway, hostVars>>

GatewayReceives ==
  /\ gateway = "awaiting" /\ toGateway # << >>
  /\ outgoing' = <<Head(toGateway)>>
  /\ toGateway' = Tail(toGateway)
  /\ gateway' = "writing"
  /\ UNCHANGED <<appVars, busVars, toApp, hostVars>>

GatewayWrites ==
  /\ gateway = "writing" /\ onBus
  /\ HostTakes(Head(outgoing))
  /\ outgoing' = << >>
  /\ gateway' = "reading"
  /\ UNCHANGED <<appVars, busVars, socketVars, sent>>

\* The reports are not a message, or the app is gone.
GatewayEnds ==
  /\ \/ gateway = "reading" /\ endpoint # << >> /\ (Head(endpoint) = Broken \/ sock # "open")
     \/ gateway = "awaiting" /\ toGateway = << >> /\ sock # "open"
  /\ GatewayExits

\* The host unplugs, or the process dies: at any point of the loop.
GatewayDies == GatewayIsRunning /\ GatewayExits

-----------------------------------------------------------------------------
(* The app: starting a session, and stopping it. *)

\* _confirm_start said yes; bind, then open the endpoint.  A bind that fails
\* leaves everything as it was.
Start ==
  /\ pc = "menu" /\ session < MaxSessions
  /\ session' = session + 1
  /\ state' = "AWAITING_HELLO" /\ received' = 0
  /\ IF attached
     THEN /\ pc' = "session" /\ sock' = "open"
          /\ toApp' = << >> /\ toGateway' = << >>
          /\ UNCHANGED <<bound, onBus>>
     ELSE /\ pc' = "spawning" /\ bound' = TRUE /\ onBus' = TRUE
          /\ UNCHANGED <<sock, socketVars>>
  /\ UNCHANGED <<protocolVars, resume, serving, channel, attached, accepted, gatewayVars,
                 endpoint, hostVars>>

Spawn ==
  /\ pc = "spawning"
  /\ pc' = "session" /\ sock' = "open" /\ gateway' = "reading"
  /\ outgoing' = << >> /\ toApp' = << >> /\ toGateway' = << >>
  /\ UNCHANGED <<protocolVars, resume, serving, state, channel, received, bound,
                 session, attached, accepted, busVars, hostVars>>

\* _bound is cleared before the tool runs, and its exit status is not looked at.
Unbind ==
  /\ bound' = FALSE
  /\ \/ ~bound /\ UNCHANGED busVars
     \/ bound /\ onBus' = FALSE /\ endpoint' = << >>
     \/ bound /\ UNBIND_FAILS /\ UNCHANGED busVars

\* The endpoint did not open: off the bus, an error screen, the menu.
SpawnFails ==
  /\ pc = "spawning"
  /\ pc' = "menu" /\ state' = "ENDED"
  /\ Unbind
  /\ UNCHANGED <<protocolVars, resume, serving, channel, received, sock, session,
                 attached, accepted, gatewayVars, socketVars, hostVars>>

\* stop(), up to the wait for the child it has closed the link to and signalled.
\* What the app has not read is lost; the gateway may still read what it was sent.
StopAndGoTo(place) ==
  /\ pc' = "reaping" /\ resume' = place
  /\ sock' = IF sock = "open" THEN "closed" ELSE sock
  /\ serving' = NoRecord

\* SIGTERM or SIGKILL does its work ...
Killed == pc = "reaping" /\ GatewayIsRunning /\ GatewayExits

\* ... or both waits run out and the child is left behind.
GiveUpOnChild ==
  /\ pc = "reaping" /\ GatewayIsRunning
  /\ gateway' = "lost" /\ outgoing' = << >>
  /\ UNCHANGED <<appVars, busVars, socketVars, hostVars>>

\* Mutant: stop() forgets the authorization no more than the seed.
FinishStop_KeepsAuthorization ==
  /\ pc = "reaping" /\ ~GatewayIsRunning
  /\ pc' = resume
  /\ sock' = "none" /\ channel' = NoChannel /\ state' = "ENDED"
  /\ Unbind
  /\ toApp' = << >> /\ toGateway' = << >>
  /\ UNCHANGED <<protocolVars, resume, serving, received, session, attached, accepted, gatewayVars,
                 hostVars>>

\* The rest of stop().
FinishStop ==
  /\ pc = "reaping" /\ ~GatewayIsRunning
  /\ pc' = resume
  /\ sock' = "none" /\ channel' = NoChannel /\ state' = "ENDED"
  /\ Unbind
  /\ Protocol!EndSession
  /\ toApp' = << >> /\ toGateway' = << >>
  /\ UNCHANGED <<resume, serving, received, session, attached, accepted, gatewayVars, hostVars>>

\* KEY_LEFT, looked at between two pumps; also an exception out of the screen.
LeaveScreen ==
  /\ pc = "session"
  /\ StopAndGoTo("menu")
  /\ UNCHANGED <<protocolVars, state, channel, received, bound, session, attached, accepted,
                 gatewayVars, busVars, socketVars, hostVars>>

-----------------------------------------------------------------------------
(* The app: pump(). *)

\* sendall() fails once nobody is at the other end, and that ends the session.
SendAndGoTo(message, place) ==
  IF gateway = "exited"
  THEN StopAndGoTo("session") /\ UNCHANGED toGateway
  ELSE /\ toGateway' = Append(toGateway, message)
       /\ pc' = place
       /\ serving' = NoRecord
       /\ UNCHANGED <<resume, sock>>

PumpMayRead(s) == pc = "session" /\ state = s /\ sock = "open" /\ toApp # << >>

\* Mutant: the session is ready as soon as there are keys.
PumpHello_SkipsPairing ==
  /\ PumpMayRead("AWAITING_HELLO")
  /\ Head(toApp) = Hello
  /\ channel' = session
  /\ state' = "READY"
  /\ toApp' = Tail(toApp)
  /\ SendAndGoTo(HelloReply(session), "session")
  /\ UNCHANGED <<protocolVars, received, bound, session, attached, accepted, gatewayVars,
                 busVars, hostVars>>

\* The view draws the digits in the same pass as the hello.
PumpHello ==
  /\ PumpMayRead("AWAITING_HELLO")
  /\ Head(toApp) = Hello
  /\ channel' = session
  /\ state' = "AWAITING_PAIRING"
  /\ toApp' = Tail(toApp)
  /\ SendAndGoTo(HelloReply(session), IF attached THEN "session" ELSE "pairing")
  /\ UNCHANGED <<protocolVars, received, bound, session, attached, accepted, gatewayVars,
                 busVars, hostVars>>

\* A message that comes before the user's yes is thrown away unread.
PumpDrops ==
  /\ PumpMayRead("AWAITING_PAIRING")
  /\ toApp' = Tail(toApp)
  /\ UNCHANGED <<appVars, gatewayVars, busVars, toGateway, hostVars>>

\* Mutant: the counter is not looked at.
Opens_AnyCounter(message) == message.kind = "record" /\ message.channel = channel

\* channel.open() takes one record: sealed for this channel, with the next counter.
Opens(message) ==
  /\ message.kind = "record"
  /\ message.channel = channel
  /\ message.n = received

PumpRequest ==
  /\ PumpMayRead("READY")
  /\ LET record == Head(toApp) IN
       /\ Opens(record)
       /\ received' = received + 1
       /\ toApp' = Tail(toApp)
       /\ Protocol!HandleMessage(record.req)
       /\ IF prompt' # NoPrompt
          THEN /\ pc' = "prompt" /\ serving' = record
               /\ UNCHANGED <<resume, sock, toGateway>>
          ELSE SendAndGoTo(Answer(record), "session")
  /\ UNCHANGED <<state, channel, bound, session, attached, accepted, gatewayVars, busVars,
                 hostVars>>

\* Mutant: the end of the stream is taken for "nothing to read".
PumpEnds_NotAtEof ==
  /\ \/ PumpMayRead("AWAITING_HELLO") /\ Head(toApp) # Hello
     \/ PumpMayRead("READY") /\ ~Opens(Head(toApp))
  /\ StopAndGoTo("session")
  /\ UNCHANGED <<protocolVars, state, channel, received, bound, session, attached, accepted,
                 gatewayVars, busVars, socketVars, hostVars>>

\* A bad hello, a record that does not open, or the end of the stream.
PumpEnds ==
  /\ \/ PumpMayRead("AWAITING_HELLO") /\ Head(toApp) # Hello
     \/ PumpMayRead("READY") /\ ~Opens(Head(toApp))
     \/ pc = "session" /\ sock = "open" /\ toApp = << >> /\ gateway = "exited"
  /\ StopAndGoTo("session")
  /\ UNCHANGED <<protocolVars, state, channel, received, bound, session, attached, accepted,
                 gatewayVars, busVars, socketVars, hostVars>>

\* complete_pairing() called by a driver that is not the view.
CompletePairing ==
  /\ attached /\ pc = "session" /\ state = "AWAITING_PAIRING" /\ sock = "open"
  /\ pc' = "pairing"
  /\ UNCHANGED <<protocolVars, resume, serving, runnerVars, session, attached, accepted,
                 gatewayVars, busVars, socketVars, hostVars>>

-----------------------------------------------------------------------------
(* The user, in front of a screen that blocks the app's thread. *)

DigitsMatch ==
  /\ pc = "pairing"
  /\ pc' = "session" /\ state' = "READY"
  /\ accepted' = accepted \union {channel}
  /\ UNCHANGED <<protocolVars, resume, serving, channel, received, sock, bound,
                 session, attached, gatewayVars, busVars, socketVars, hostVars>>

DigitsDiffer ==
  /\ pc = "pairing"
  /\ StopAndGoTo("session")
  /\ UNCHANGED <<protocolVars, state, channel, received, bound, session, attached, accepted,
                 gatewayVars, busVars, socketVars, hostVars>>

\* Mutant: a "no" is not answered.
AnswerPrompt_OnlyYes ==
  /\ pc = "prompt"
  /\ Protocol!Answer
  /\ IF reply' = Protocol!ErrorReply
     THEN /\ pc' = "session" /\ serving' = NoRecord
          /\ UNCHANGED <<resume, sock, toGateway>>
     ELSE SendAndGoTo(Answer(serving), "session")
  /\ UNCHANGED <<state, channel, received, bound, session, attached, accepted, gatewayVars,
                 busVars, toApp, hostVars>>

AnswerPrompt ==
  /\ pc = "prompt"
  /\ Protocol!Answer
  /\ SendAndGoTo(Answer(serving), "session")
  /\ UNCHANGED <<state, channel, received, bound, session, attached, accepted, gatewayVars,
                 busVars, toApp, hostVars>>

-----------------------------------------------------------------------------
HostStep    == HostSendsPlain \/ HostSendsRequest \/ HostReads
GatewayStep == GatewayForwards \/ GatewayReceives \/ GatewayWrites \/ GatewayEnds
ReapStep    == Killed \/ GiveUpOnChild \/ FinishStop
PumpStep    == PumpHello \/ PumpRequest \/ PumpEnds
UserStep    == Start \/ LeaveScreen \/ DigitsMatch \/ DigitsDiffer \/ AnswerPrompt
SpawnStep   == Spawn \/ SpawnFails
BareStep    == PumpDrops \/ CompletePairing

Next ==
  \/ HostStep \/ GatewayStep \/ GatewayDies \/ ReapStep
  \/ SpawnStep \/ PumpStep \/ BareStep \/ UserStep

\* The gateway and the app's thread run; stop()'s waits have timeouts.  Nothing
\* is assumed of the host or of the user, and nothing dies because it must.
Fairness ==
  /\ WF_vars(GatewayStep) /\ WF_vars(ReapStep)
  /\ WF_vars(SpawnStep) /\ WF_vars(PumpStep)

Spec == Init /\ [][Next]_vars /\ Fairness

-----------------------------------------------------------------------------
(* Properties. *)

\* What travels: towards the app, and towards the host.
Records  == [kind : {"record"}, channel : 1 .. MaxSessions, n : Nat, req : HostRequests]
Messages == {Hello, BadHello, Garbage, Broken} \union Records
Answers  == [kind : {"answer"}, channel : 1 .. MaxSessions, n : Nat]
Replies  == [kind : {"hello"}, channel : 1 .. MaxSessions] \union Answers

ASSUME RecordAssumption == NoRecord \notin Records

TypeOK ==
  /\ pc \in {"menu", "spawning", "session", "pairing", "prompt", "reaping"}
  /\ resume \in {"menu", "session"}
  /\ serving \in Records \union {NoRecord}
  /\ state \in {"AWAITING_HELLO", "AWAITING_PAIRING", "READY", "ENDED"}
  /\ channel \in 0 .. MaxSessions /\ received \in Nat
  /\ sock \in {"none", "open", "closed"}
  /\ gateway \in {"none", "reading", "awaiting", "writing", "exited", "lost"}
  /\ outgoing \in Seq(Replies) /\ Len(outgoing) = IF gateway = "writing" THEN 1 ELSE 0
  /\ bound \in BOOLEAN /\ onBus \in BOOLEAN /\ attached \in BOOLEAN
  /\ endpoint \in Seq(Messages) /\ toApp \in Seq(Messages)
  /\ toGateway \in Seq(Replies) /\ answered \in Seq(Answers)
  /\ hostChannel \in 0 .. MaxSessions /\ hostSealed \in Nat
  /\ session \in 0 .. MaxSessions /\ sent \in 0 .. MaxSent
  /\ accepted \subseteq 0 .. MaxSessions

\* No request has any effect before the user has compared the digits of the very
\* channel it came on: nothing is asked, granted or answered (session.py _process,
\* complete_pairing).
NothingBeforePairing ==
  /\ prompt # NoPrompt \/ authorization # NoAuthorization
       => state = "READY" /\ channel \in accepted
  /\ \A i \in DOMAIN answered : answered[i].channel \in accepted

\* What the host hears on a channel are the answers to its records, each once and
\* in the order it sealed them, whatever it sent again, garbled or sent on an old
\* channel (crypto.py open; session.py pump ends at the first record out of step).
AnswersComeInOrder ==
  \A i \in DOMAIN answered :
    answered[i].n = Cardinality({j \in 1 .. (i - 1) : answered[j].channel = answered[i].channel})

\* A session that is over leaves nothing behind, however it ended: no keys, no
\* authorization, no socket, no gadget it believes bound, and no gateway that
\* could still be killed (session.py stop).
EndedMeansForgotten ==
  state = "ENDED" =>
    /\ channel = NoChannel /\ sock = "none" /\ ~bound
    /\ authorization = NoAuthorization /\ prompt = NoPrompt
    /\ ~GatewayIsRunning

\* The gateway is not left waiting for an answer for ever, unless the user is
\* being waited for (session.py pump, stop; gateway.py stop).
GatewayIsAnswered ==
  gateway = "awaiting" ~> (gateway # "awaiting" \/ pc \in {"pairing", "prompt"})

\* A gateway that is gone is noticed and the session torn down, unless the user
\* is being waited for (session.py pump).
LossIsNoticed ==
  (gateway = "exited" /\ sock = "open") ~> (state = "ENDED" \/ pc \in {"pairing", "prompt"})
=============================================================================
