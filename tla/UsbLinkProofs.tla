---------------------------- MODULE UsbLinkProofs ----------------------------
(***************************************************************************)
(* Proofs about UsbLink, for any number of sessions, messages and requests *)
(* and any length of the queues: its type invariant, that nothing is       *)
(* granted or answered before pairing, that answers reach the host once    *)
(* each and in order, and that a session that is over has left nothing.    *)
(***************************************************************************)
EXTENDS UsbLink, FiniteSetTheorems, TLAPS

-----------------------------------------------------------------------------
(* The inductive invariant, in parts. *)

\* Where the app's thread can be when there is no session, and that the gateway
\* has not been started before its socket exists, or when there is none.
EndedIsBare ==
  /\ pc = "menu" => state = "ENDED"
  /\ state = "ENDED" =>
       /\ pc \in {"menu", "session", "reaping"}
       /\ channel = NoChannel /\ sock = "none" /\ ~bound /\ ~GatewayIsRunning
  /\ pc = "spawning" =>
       /\ state = "AWAITING_HELLO" /\ sock = "none"
       /\ ~GatewayIsRunning /\ ~attached
  /\ attached => gateway = "none"

\* What the session grants it grants while READY.  A suspended handler belongs to
\* the last record that was opened on the channel in force.
OnlyReadyIsTrusted ==
  /\ state # "READY" => authorization = NoAuthorization
  /\ prompt # NoPrompt <=> pc = "prompt"
  /\ pc = "prompt" =>
       /\ state = "READY" /\ received > 0
       /\ serving.channel = channel /\ serving.n = received - 1
  /\ pc = "pairing" => state = "AWAITING_PAIRING"

\* A session starts with an empty pipe and no channel, and its hello gives it one
\* that no answer so far was for.
FreshUntilHello ==
  /\ state # "ENDED" => session > 0
  /\ state \in {"AWAITING_HELLO", "ENDED"} =>
       channel = NoChannel /\ toGateway = << >> /\ outgoing = << >>
  /\ state = "AWAITING_HELLO" => received = 0
  /\ state \in {"AWAITING_PAIRING", "READY"} => channel = session
  /\ \A i \in DOMAIN answered :
       /\ answered[i].channel <= session
       /\ state = "AWAITING_HELLO" => answered[i].channel < session

\* An answer on its way is for the channel in force, which the user accepted.
Covered(m) == m.kind = "answer" => m.channel = channel /\ channel \in accepted

AnswersArePaired ==
  /\ state = "READY" => channel \in accepted
  /\ \A i \in DOMAIN toGateway : Covered(toGateway[i])
  /\ \A i \in DOMAIN outgoing : Covered(outgoing[i])
  /\ \A i \in DOMAIN answered : answered[i].channel \in accepted

\* How many records have been opened and their handlers have finished.
Handled == IF pc = "prompt" THEN received - 1 ELSE received
\* The answers in a log that are for channel c.
HeardOn(log, c) == {j \in DOMAIN log : log[j].channel = c}
\* The answers in a queue whose first element alone may be a hello reply.
AnswersIn(s) == IF s # << >> /\ s[1].kind = "hello" THEN Len(s) - 1 ELSE Len(s)

\* Somebody takes replies out of the pipe: the host itself, or a gateway that is
\* alive.  When the gateway dies with a reply in its hands the numbers below have
\* a gap, and nobody is left to deliver what comes after it.
Flows == attached \/ GatewayIsRunning

\* The replies the app has sent carry the last numbers handled, without a gap ...
QueueIsNumbered ==
  \A i \in DOMAIN toGateway :
    toGateway[i].kind = "answer" => toGateway[i].n = Handled - 1 - (Len(toGateway) - i)

\* ... the one the gateway is writing carries the number before those ...
OutgoingIsNumbered ==
  \A i \in DOMAIN outgoing :
    outgoing[i].kind = "answer" => outgoing[i].n = Handled - 1 - Len(toGateway)

\* ... and only the very first of them can be the hello.
HelloComesFirst ==
  \A i \in DOMAIN toGateway : i > 1 \/ outgoing # << >> => toGateway[i].kind = "answer"

\* What has been handled was heard by the host or is on its way.
HeardIsCounted ==
  channel # NoChannel =>
    Cardinality(HeardOn(answered, channel))
      = Handled - AnswersIn(outgoing) - AnswersIn(toGateway)

TransitIsNumbered ==
  Flows => QueueIsNumbered /\ OutgoingIsNumbered /\ HelloComesFirst /\ HeardIsCounted

IInv ==
  /\ TypeOK /\ EndedIsBare /\ OnlyReadyIsTrusted /\ FreshUntilHello
  /\ AnswersArePaired /\ TransitIsNumbered /\ AnswersComeInOrder

-----------------------------------------------------------------------------
(* Lemmas: queues, answers, and what the host has heard. *)

\* Whatever the user answers, the prompt is gone.
LEMMA AnswerEndsPrompt == Protocol!Answer => prompt' = NoPrompt
BY
DEF Protocol!Answer, Protocol!Decline, Protocol!AcceptExportXpub, Protocol!AcceptSignPsbt,
    Protocol!AcceptAuthorizeCoinjoin

\* What is left of a queue of replies when its first is taken.
LEMMA HeadAndTail ==
  ASSUME NEW s \in Seq(Replies), s # << >>
  PROVE  /\ Head(s) = s[1] /\ s[1] \in Replies
         /\ Tail(s) \in Seq(Replies) /\ Len(Tail(s)) = Len(s) - 1
         /\ \A i \in DOMAIN Tail(s) : i + 1 \in DOMAIN s /\ Tail(s)[i] = s[i + 1]
OBVIOUS

\* A queue with one more at its end.
LEMMA OneMore ==
  ASSUME NEW S, NEW s \in Seq(S), NEW m \in S
  PROVE  /\ Append(s, m) \in Seq(S) /\ Len(Append(s, m)) = Len(s) + 1
         /\ DOMAIN Append(s, m) = DOMAIN s \union {Len(s) + 1}
         /\ Append(s, m)[Len(s) + 1] = m
         /\ \A i \in DOMAIN s : Append(s, m)[i] = s[i] /\ i \in 1 .. Len(s)
OBVIOUS

\* A hello reply changes nothing the host has heard, an answer adds to it.
LEMMA Taken ==
  ASSUME TypeOK, NEW m \in Replies, HostTakes(m)
  PROVE  \/ m.kind = "hello" /\ answered' = answered
         \/ /\ m \in Answers /\ m.kind = "answer"
            /\ answered' = Append(answered, m) /\ answered' \in Seq(Answers)
            /\ DOMAIN answered' = DOMAIN answered \union {Len(answered) + 1}
            /\ answered'[Len(answered) + 1] = m
            /\ \A i \in DOMAIN answered : answered'[i] = answered[i] /\ i \in 1 .. Len(answered)
<1>1. CASE m.kind = "hello"
  BY <1>1 DEF HostTakes
<1>2. CASE m.kind # "hello"
  <2>1. m \in Answers /\ m.kind = "answer" /\ answered' = Append(answered, m)
    BY <1>2 DEF HostTakes, Replies, Answers
  <2>2. answered \in Seq(Answers)
    BY DEF TypeOK
  <2> QED
    BY <2>1, <2>2, OneMore
<1> QED
  BY <1>1, <1>2

\* The queue to the gateway with the answer to record n of the session's channel.
LEMMA AnswerQueued ==
  ASSUME TypeOK, channel # NoChannel, NEW n \in Nat
  PROVE  LET m == [kind |-> "answer", channel |-> channel, n |-> n]
             q == Append(toGateway, m)
         IN  /\ q \in Seq(Replies) /\ Len(q) = Len(toGateway) + 1
             /\ DOMAIN q = DOMAIN toGateway \union {Len(toGateway) + 1}
             /\ q[Len(toGateway) + 1] = m
             /\ \A i \in DOMAIN toGateway : q[i] = toGateway[i] /\ i \in 1 .. Len(toGateway)
<1> DEFINE m == [kind |-> "answer", channel |-> channel, n |-> n]
<1>1. channel \in 1 .. MaxSessions /\ toGateway \in Seq(Replies)
  BY LinkAssumption DEF TypeOK, NoChannel
<1>2. m \in Replies
  BY <1>1 DEF Replies, Answers
<1> HIDE DEF m
<1> QED
  BY <1>1, <1>2, OneMore DEF m

-----------------------------------------------------------------------------
(* Every step keeps every part. *)

LEMMA EndedIsBareStep ==
  ASSUME IInv, [Next]_vars
  PROVE  EndedIsBare'
<1> USE DEF vars, appVars, protocolVars, threadVars, runnerVars, gatewayVars, busVars, socketVars,
           hostVars
<1>1. CASE UNCHANGED <<pc, state, channel, sock, bound, gateway, attached>>
  BY <1>1 DEF IInv, EndedIsBare, GatewayIsRunning
<1>2. CASE HostSendsPlain \/ HostSendsRequest \/ HostReads \/ PumpDrops
  <2>1. UNCHANGED <<pc, state, channel, sock, bound, gateway, attached>>
    BY <1>2 DEF HostSendsPlain, HostSend, HostSendsRequest, HostReads, PumpDrops
  <2> QED
    BY <1>1, <2>1
<1>3. CASE GatewayForwards
  BY <1>3 DEF IInv, EndedIsBare, GatewayForwards
<1>4. CASE GatewayReceives
  BY <1>4 DEF IInv, EndedIsBare, GatewayIsRunning, GatewayReceives
<1>5. CASE GatewayWrites
  BY <1>5 DEF IInv, EndedIsBare, GatewayIsRunning, GatewayWrites
<1>6. CASE GatewayEnds
  BY <1>6 DEF IInv, EndedIsBare, GatewayIsRunning, GatewayEnds, GatewayExits
<1>7. CASE GatewayDies
  BY <1>7 DEF IInv, EndedIsBare, GatewayIsRunning, GatewayDies, GatewayExits
<1>8. CASE Killed
  BY <1>8 DEF IInv, EndedIsBare, GatewayIsRunning, Killed, GatewayExits
<1>9. CASE GiveUpOnChild
  BY <1>9 DEF IInv, EndedIsBare, GatewayIsRunning, GiveUpOnChild
<1>10. CASE FinishStop
  BY <1>10 DEF IInv, EndedIsBare, TypeOK, GatewayIsRunning, FinishStop, Unbind
<1>11. CASE Spawn
  BY <1>11 DEF IInv, EndedIsBare, Spawn
<1>12. CASE SpawnFails
  BY <1>12 DEF IInv, EndedIsBare, FreshUntilHello, GatewayIsRunning, SpawnFails, Unbind
<1>13. CASE PumpHello
  BY <1>13 DEF IInv, EndedIsBare, PumpHello, SendAndGoTo, StopAndGoTo
<1>14. CASE PumpRequest
  BY <1>14 DEF IInv, EndedIsBare, PumpRequest, PumpMayRead, SendAndGoTo, StopAndGoTo
<1>15. CASE PumpEnds
  BY <1>15 DEF IInv, EndedIsBare, PumpEnds, PumpMayRead, StopAndGoTo
<1>16. CASE CompletePairing
  BY <1>16 DEF IInv, EndedIsBare, CompletePairing
<1>17. CASE Start
  BY <1>17 DEF IInv, EndedIsBare, GatewayIsRunning, Start
<1>18. CASE LeaveScreen
  BY <1>18 DEF IInv, EndedIsBare, GatewayIsRunning, LeaveScreen, StopAndGoTo
<1>19. CASE DigitsMatch
  BY <1>19 DEF IInv, EndedIsBare, DigitsMatch
<1>20. CASE DigitsDiffer
  BY <1>20 DEF IInv, EndedIsBare, DigitsDiffer, StopAndGoTo
<1>21. CASE AnswerPrompt
  BY AnswerEndsPrompt, <1>21 DEF IInv, EndedIsBare, AnswerPrompt, SendAndGoTo, StopAndGoTo
<1>22. CASE UNCHANGED vars
  BY <1>1, <1>22
<1> QED   BY <1>2, <1>3, <1>4, <1>5, <1>6, <1>7, <1>8, <1>9, <1>10, <1>11, <1>12, <1>13,
      <1>14, <1>15, <1>16, <1>17, <1>18, <1>19, <1>20, <1>21, <1>22
  DEF Next, HostStep, GatewayStep, ReapStep, SpawnStep, PumpStep, BareStep, UserStep

LEMMA OnlyReadyIsTrustedStep ==
  ASSUME IInv, [Next]_vars
  PROVE  OnlyReadyIsTrusted'
<1> USE DEF vars, appVars, protocolVars, threadVars, runnerVars, gatewayVars, busVars, socketVars,
           hostVars
<1>1. CASE UNCHANGED <<authorization, prompt, pc, state, received, channel, serving>>
  BY <1>1 DEF IInv, EndedIsBare, OnlyReadyIsTrusted, TypeOK
<1>2. CASE HostSendsPlain \/ HostSendsRequest \/ HostReads \/ GatewayForwards \/
        GatewayReceives \/ GatewayWrites \/ GatewayEnds \/ GatewayDies \/ Killed \/
        GiveUpOnChild \/ PumpDrops
  <2>1. UNCHANGED <<authorization, prompt, pc, state, received, channel, serving>>
    BY <1>2
    DEF HostSendsPlain, HostSend, HostSendsRequest, HostReads, GatewayForwards,
        GatewayReceives, GatewayWrites, GatewayEnds, GatewayExits, GatewayDies, Killed,
        GiveUpOnChild, PumpDrops
  <2> QED
    BY <1>1, <2>1
<1>3. CASE FinishStop
  BY <1>3 DEF IInv, OnlyReadyIsTrusted, TypeOK, FinishStop, Protocol!EndSession
<1>4. CASE Spawn
  BY <1>4 DEF IInv, EndedIsBare, OnlyReadyIsTrusted, TypeOK, Spawn
<1>5. CASE SpawnFails
  BY <1>5 DEF IInv, EndedIsBare, OnlyReadyIsTrusted, TypeOK, SpawnFails, Unbind
<1>6. CASE PumpHello
  BY <1>6 DEF IInv, OnlyReadyIsTrusted, PumpHello, PumpMayRead, SendAndGoTo, StopAndGoTo
<1>7. CASE PumpRequest
  BY <1>7
  DEF IInv, OnlyReadyIsTrusted, TypeOK, PumpRequest, PumpMayRead, Opens, SendAndGoTo,
      StopAndGoTo
<1>8. CASE PumpEnds
  BY <1>8 DEF IInv, OnlyReadyIsTrusted, PumpEnds, PumpMayRead, StopAndGoTo
<1>9. CASE CompletePairing
  BY <1>9 DEF IInv, EndedIsBare, OnlyReadyIsTrusted, TypeOK, CompletePairing
<1>10. CASE Start
  BY <1>10 DEF IInv, EndedIsBare, OnlyReadyIsTrusted, TypeOK, Start
<1>11. CASE LeaveScreen
  BY <1>11 DEF IInv, EndedIsBare, OnlyReadyIsTrusted, TypeOK, LeaveScreen, StopAndGoTo
<1>12. CASE DigitsMatch
  BY <1>12 DEF IInv, EndedIsBare, OnlyReadyIsTrusted, TypeOK, DigitsMatch
<1>13. CASE DigitsDiffer
  BY <1>13 DEF IInv, EndedIsBare, OnlyReadyIsTrusted, TypeOK, DigitsDiffer, StopAndGoTo
<1>14. CASE AnswerPrompt
  BY AnswerEndsPrompt, <1>14
  DEF IInv, OnlyReadyIsTrusted, AnswerPrompt, SendAndGoTo, StopAndGoTo
<1>15. CASE UNCHANGED vars
  BY <1>1, <1>15
<1> QED   BY <1>2, <1>3, <1>4, <1>5, <1>6, <1>7, <1>8, <1>9, <1>10, <1>11, <1>12, <1>13,
      <1>14, <1>15
  DEF Next, HostStep, GatewayStep, ReapStep, SpawnStep, PumpStep, BareStep, UserStep

LEMMA FreshUntilHelloStep ==
  ASSUME IInv, [Next]_vars
  PROVE  FreshUntilHello'
<1> USE DEF vars, appVars, protocolVars, threadVars, runnerVars, gatewayVars, busVars, socketVars,
           hostVars
<1>1. CASE UNCHANGED <<state, session, channel, toGateway, outgoing, received, answered>>
  BY <1>1 DEF IInv, FreshUntilHello
<1>2. CASE HostSendsPlain \/ HostSendsRequest \/ GatewayForwards \/ PumpDrops \/
        CompletePairing
  <2>1. UNCHANGED <<state, session, channel, toGateway, outgoing, received, answered>>
    BY <1>2
    DEF HostSendsPlain, HostSend, HostSendsRequest, GatewayForwards, PumpDrops,
        CompletePairing
  <2> QED
    BY <1>1, <2>1
<1>3. CASE HostReads
  <2>1. /\ TypeOK /\ toGateway \in Seq(Replies) /\ toGateway # << >>
        /\ HostTakes(Head(toGateway)) /\ toGateway' = Tail(toGateway)
    BY <1>3 DEF HostReads, IInv, TypeOK
  <2>2. Head(toGateway) \in Replies /\ Head(toGateway) = toGateway[1] /\ 1 \in DOMAIN toGateway
    BY <2>1, HeadAndTail
  <2>3. UNCHANGED <<state, channel, session, received, outgoing, accepted>>
    BY <1>3 DEF HostReads
  <2>4. channel # NoChannel => channel = session /\ state # "AWAITING_HELLO"
    BY DEF IInv, FreshUntilHello, AnswersArePaired, Covered, TypeOK
  <2>5. \A i \in DOMAIN answered' :
          \/ i \in DOMAIN answered /\ answered'[i] = answered[i]
          \/ answered'[i] = toGateway[1] /\ toGateway[1].kind = "answer"
    BY <2>1, <2>2, Taken
  <2>6. \A i \in DOMAIN toGateway' : i + 1 \in DOMAIN toGateway /\ toGateway'[i] = toGateway[i + 1]
    BY <2>1, HeadAndTail
  <2>7. state \notin {"AWAITING_HELLO", "ENDED"}
    BY <2>1 DEF IInv, FreshUntilHello
  <2>8. Covered(toGateway[1])
    BY <2>2 DEF IInv, AnswersArePaired
  <2> QED
    BY <2>2, <2>3, <2>4, <2>5, <2>6, <2>7, <2>8, LinkAssumption
    DEF IInv, FreshUntilHello, Covered, TypeOK
<1>4. CASE GatewayReceives
  BY <1>4 DEF IInv, FreshUntilHello, GatewayReceives
<1>5. CASE GatewayWrites
  <2>1. /\ TypeOK /\ outgoing \in Seq(Replies) /\ outgoing # << >>
        /\ HostTakes(Head(outgoing)) /\ outgoing' = << >>
    <3>1. gateway = "writing" /\ HostTakes(Head(outgoing)) /\ outgoing' = << >>
      BY <1>5 DEF GatewayWrites
    <3>2. TypeOK /\ outgoing \in Seq(Replies) /\ Len(outgoing) = 1
      BY <3>1 DEF IInv, TypeOK
    <3>3. Len(<< >>) = 0
      OBVIOUS
    <3>4. outgoing # << >>
      BY <3>2, <3>3
    <3> QED
      BY <3>1, <3>2, <3>4
  <2>2. Head(outgoing) \in Replies /\ Head(outgoing) = outgoing[1] /\ 1 \in DOMAIN outgoing
    BY <2>1, HeadAndTail
  <2>3. UNCHANGED <<state, channel, session, received, toGateway, accepted>>
    BY <1>5 DEF GatewayWrites
  <2> QED
    BY <2>1, <2>2, <2>3, Taken DEF IInv, FreshUntilHello, AnswersArePaired, Covered, TypeOK
<1>6. CASE GatewayEnds
  BY <1>6 DEF IInv, FreshUntilHello, GatewayEnds, GatewayExits
<1>7. CASE GatewayDies
  BY <1>7 DEF IInv, FreshUntilHello, GatewayDies, GatewayExits
<1>8. CASE Killed
  BY <1>8 DEF IInv, FreshUntilHello, Killed, GatewayExits
<1>9. CASE GiveUpOnChild
  BY <1>9 DEF IInv, FreshUntilHello, GiveUpOnChild
<1>10. CASE FinishStop
  BY <1>10 DEF IInv, FreshUntilHello, TypeOK, GatewayIsRunning, FinishStop
<1>11. CASE Spawn
  BY <1>11 DEF IInv, FreshUntilHello, Spawn
<1>12. CASE SpawnFails
  BY <1>12 DEF IInv, EndedIsBare, FreshUntilHello, SpawnFails
<1>13. CASE PumpHello
  BY <1>13 DEF IInv, FreshUntilHello, PumpHello, PumpMayRead
<1>14. CASE PumpRequest
  BY <1>14 DEF IInv, FreshUntilHello, PumpRequest, PumpMayRead
<1>15. CASE PumpEnds
  BY <1>15 DEF IInv, FreshUntilHello, PumpEnds
<1>16. CASE Start
  <2>1. /\ state = "ENDED" /\ state' = "AWAITING_HELLO" /\ session' = session + 1
        /\ received' = 0 /\ session \in Nat /\ answered \in Seq(Answers)
    BY <1>16, LinkAssumption DEF Start, IInv, EndedIsBare, TypeOK
  <2>2. UNCHANGED <<channel, outgoing, answered>> /\ toGateway' \in {toGateway, << >>}
    BY <1>16 DEF Start
  <2>3. \A i \in DOMAIN answered : answered[i].channel \in Nat
    <3>1. Answers \subseteq [kind : {"answer"}, channel : Nat, n : Nat]
      BY LinkAssumption DEF Answers
    <3> QED
      BY <2>1, <3>1
  <2> QED
    BY <2>1, <2>2, <2>3 DEF IInv, FreshUntilHello
<1>17. CASE LeaveScreen
  BY <1>17 DEF IInv, FreshUntilHello, LeaveScreen
<1>18. CASE DigitsMatch
  BY <1>18 DEF IInv, FreshUntilHello, OnlyReadyIsTrusted, DigitsMatch
<1>19. CASE DigitsDiffer
  BY <1>19 DEF IInv, FreshUntilHello, DigitsDiffer
<1>20. CASE AnswerPrompt
  BY AnswerEndsPrompt, <1>20 DEF IInv, FreshUntilHello, OnlyReadyIsTrusted, AnswerPrompt
<1>21. CASE UNCHANGED vars
  BY <1>1, <1>21
<1> QED   BY <1>2, <1>3, <1>4, <1>5, <1>6, <1>7, <1>8, <1>9, <1>10, <1>11, <1>12, <1>13,
      <1>14, <1>15, <1>16, <1>17, <1>18, <1>19, <1>20, <1>21
  DEF Next, HostStep, GatewayStep, ReapStep, SpawnStep, PumpStep, BareStep, UserStep

LEMMA AnswersArePairedStep ==
  ASSUME IInv, [Next]_vars
  PROVE  AnswersArePaired'
<1> USE DEF vars, appVars, protocolVars, threadVars, runnerVars, gatewayVars, busVars, socketVars,
           hostVars
<1>1. CASE UNCHANGED <<state, channel, accepted, toGateway, outgoing, answered>>
  BY <1>1 DEF IInv, AnswersArePaired, Covered
<1>2. CASE HostSendsPlain \/ HostSendsRequest \/ GatewayForwards \/ PumpDrops \/
        CompletePairing
  <2>1. UNCHANGED <<state, channel, accepted, toGateway, outgoing, answered>>
    BY <1>2
    DEF HostSendsPlain, HostSend, HostSendsRequest, GatewayForwards, PumpDrops,
        CompletePairing
  <2> QED
    BY <1>1, <2>1
<1>3. CASE HostReads
  <2>1. /\ TypeOK /\ toGateway \in Seq(Replies) /\ toGateway # << >>
        /\ HostTakes(Head(toGateway)) /\ toGateway' = Tail(toGateway)
    BY <1>3 DEF HostReads, IInv, TypeOK
  <2>2. Head(toGateway) \in Replies /\ Head(toGateway) = toGateway[1] /\ 1 \in DOMAIN toGateway
    BY <2>1, HeadAndTail
  <2>3. UNCHANGED <<state, channel, outgoing, accepted>>
    BY <1>3 DEF HostReads
  <2>4. channel # NoChannel => channel = session /\ state # "AWAITING_HELLO"
    BY DEF IInv, FreshUntilHello, AnswersArePaired, Covered, TypeOK
  <2>5. \A i \in DOMAIN answered' :
          \/ i \in DOMAIN answered /\ answered'[i] = answered[i]
          \/ answered'[i] = toGateway[1] /\ toGateway[1].kind = "answer"
    BY <2>1, <2>2, Taken
  <2>6. \A i \in DOMAIN toGateway' : i + 1 \in DOMAIN toGateway /\ toGateway'[i] = toGateway[i + 1]
    BY <2>1, HeadAndTail
  <2>7. state \notin {"AWAITING_HELLO", "ENDED"}
    BY <2>1 DEF IInv, FreshUntilHello
  <2>8. Covered(toGateway[1])
    BY <2>2 DEF IInv, AnswersArePaired
  <2> QED
    BY <2>2, <2>3, <2>4, <2>5, <2>6, <2>7, <2>8, LinkAssumption
    DEF IInv, AnswersArePaired, Covered
<1>4. CASE GatewayReceives
  BY <1>4 DEF IInv, AnswersArePaired, Covered, TypeOK, GatewayReceives
<1>5. CASE GatewayWrites
  <2>1. /\ TypeOK /\ outgoing \in Seq(Replies) /\ outgoing # << >>
        /\ HostTakes(Head(outgoing)) /\ outgoing' = << >>
    <3>1. gateway = "writing" /\ HostTakes(Head(outgoing)) /\ outgoing' = << >>
      BY <1>5 DEF GatewayWrites
    <3>2. TypeOK /\ outgoing \in Seq(Replies) /\ Len(outgoing) = 1
      BY <3>1 DEF IInv, TypeOK
    <3>3. Len(<< >>) = 0
      OBVIOUS
    <3>4. outgoing # << >>
      BY <3>2, <3>3
    <3> QED
      BY <3>1, <3>2, <3>4
  <2>2. Head(outgoing) \in Replies /\ Head(outgoing) = outgoing[1] /\ 1 \in DOMAIN outgoing
    BY <2>1, HeadAndTail
  <2>3. UNCHANGED <<state, channel, toGateway, accepted>>
    BY <1>5 DEF GatewayWrites
  <2> QED
    BY <2>1, <2>2, <2>3, Taken DEF IInv, FreshUntilHello, AnswersArePaired, Covered, TypeOK
<1>6. CASE GatewayEnds
  BY <1>6 DEF IInv, AnswersArePaired, Covered, GatewayEnds, GatewayExits
<1>7. CASE GatewayDies
  BY <1>7 DEF IInv, AnswersArePaired, Covered, GatewayDies, GatewayExits
<1>8. CASE Killed
  BY <1>8 DEF IInv, AnswersArePaired, Covered, Killed, GatewayExits
<1>9. CASE GiveUpOnChild
  BY <1>9 DEF IInv, AnswersArePaired, Covered, GiveUpOnChild
<1>10. CASE FinishStop
  BY <1>10 DEF IInv, AnswersArePaired, TypeOK, GatewayIsRunning, FinishStop
<1>11. CASE Spawn
  BY <1>11 DEF IInv, AnswersArePaired, Spawn
<1>12. CASE SpawnFails
  BY <1>12 DEF IInv, AnswersArePaired, Covered, SpawnFails
<1>13. CASE PumpHello
  BY <1>13
  DEF IInv, FreshUntilHello, AnswersArePaired, Covered, HelloReply, PumpHello, PumpMayRead,
      SendAndGoTo
<1>14. CASE PumpRequest
  <2> DEFINE record == Head(toApp)
  <2>1. /\ state = "READY" /\ channel # NoChannel /\ record.channel = channel
        /\ record.n = received /\ received \in Nat
        /\ UNCHANGED <<state, channel, accepted, outgoing, answered>>
    BY <1>14, LinkAssumption
    DEF PumpRequest, PumpMayRead, Opens, IInv, TypeOK, FreshUntilHello, NoChannel
  <2>2. toGateway' \in {toGateway, Append(toGateway, [kind |-> "answer", channel |-> channel,
                                                    n |-> received])}
    BY <1>14, <2>1 DEF PumpRequest, SendAndGoTo, StopAndGoTo, Answer
  <2>3. \A i \in DOMAIN toGateway' :
          \/ i \in DOMAIN toGateway /\ toGateway'[i] = toGateway[i]
          \/ toGateway'[i].channel = channel
    <3>1. CASE toGateway' = toGateway
      BY <3>1
    <3>2. CASE toGateway' # toGateway
      BY <2>1, <2>2, <3>2, AnswerQueued DEF IInv
    <3> QED
      BY <3>1, <3>2
  <2> QED
    BY <2>1, <2>3 DEF IInv, AnswersArePaired, Covered
<1>15. CASE PumpEnds
  BY <1>15 DEF IInv, AnswersArePaired, Covered, PumpEnds
<1>16. CASE Start
  BY <1>16 DEF IInv, AnswersArePaired, Covered, Start
<1>17. CASE LeaveScreen
  BY <1>17 DEF IInv, AnswersArePaired, Covered, LeaveScreen
<1>18. CASE DigitsMatch
  BY <1>18 DEF IInv, AnswersArePaired, Covered, DigitsMatch
<1>19. CASE DigitsDiffer
  BY <1>19 DEF IInv, AnswersArePaired, Covered, DigitsDiffer
<1>20. CASE AnswerPrompt
  <2>1. /\ state = "READY" /\ channel # NoChannel /\ serving.channel = channel
        /\ serving.n \in Nat
        /\ UNCHANGED <<state, channel, accepted, outgoing, answered>>
        /\ toGateway' \in {toGateway, Append(toGateway, [kind |-> "answer", channel |-> channel,
                                                      n |-> serving.n])}
    BY <1>20, LinkAssumption
    DEF AnswerPrompt, SendAndGoTo, Answer, OnlyReadyIsTrusted, IInv, TypeOK,
        FreshUntilHello, NoChannel
  <2>3. \A i \in DOMAIN toGateway' :
          \/ i \in DOMAIN toGateway /\ toGateway'[i] = toGateway[i]
          \/ toGateway'[i].channel = channel
    <3>1. CASE toGateway' = toGateway
      BY <3>1
    <3>2. CASE toGateway' # toGateway
      BY <2>1, <3>2, AnswerQueued DEF IInv
    <3> QED
      BY <3>1, <3>2
  <2> QED
    BY <2>1, <2>3 DEF IInv, AnswersArePaired, Covered
<1>21. CASE UNCHANGED vars
  BY <1>1, <1>21
<1> QED   BY <1>2, <1>3, <1>4, <1>5, <1>6, <1>7, <1>8, <1>9, <1>10, <1>11, <1>12, <1>13,
      <1>14, <1>15, <1>16, <1>17, <1>18, <1>19, <1>20, <1>21
  DEF Next, HostStep, GatewayStep, ReapStep, SpawnStep, PumpStep, BareStep, UserStep

-----------------------------------------------------------------------------
(* The pipe to the host. *)

LEMMA HeardIsFinite ==
  ASSUME NEW log \in Seq(Answers), NEW c
  PROVE  IsFiniteSet(HeardOn(log, c))
<1>1. HeardOn(log, c) \subseteq 1 .. Len(log) /\ Len(log) \in Nat
  BY DEF HeardOn
<1>2. IsFiniteSet(1 .. Len(log))
  BY <1>1, FS_Interval
<1> QED
  BY <1>1, <1>2, FS_Subset

\* What the host has heard on a channel grows by one with each answer.
LEMMA HeardOneMore ==
  ASSUME NEW log \in Seq(Answers), NEW m \in Answers
  PROVE  Cardinality(HeardOn(Append(log, m), m.channel))
           = Cardinality(HeardOn(log, m.channel)) + 1
<1>1. HeardOn(Append(log, m), m.channel) = HeardOn(log, m.channel) \union {Len(log) + 1}
  BY OneMore DEF HeardOn
<1>2. Len(log) + 1 \notin HeardOn(log, m.channel)
  BY DEF HeardOn
<1>3. IsFiniteSet(HeardOn(log, m.channel))
  BY HeardIsFinite
<1> QED
  BY <1>1, <1>2, <1>3, FS_AddElement

\* Only the first reply in transit can be a hello.
LEMMA AnswersInTail ==
  ASSUME NEW s \in Seq(Replies), s # << >>,
         \A i \in DOMAIN s : i > 1 => s[i].kind = "answer"
  PROVE  /\ AnswersIn(Tail(s)) = Len(s) - 1
         /\ AnswersIn(s) = Len(s) - 1 + AnswersIn(<<s[1]>>)
<1>1. /\ Len(Tail(s)) = Len(s) - 1 /\ Len(s) \in Nat
      /\ Tail(s) # << >> => Tail(s)[1].kind = "answer"
  BY HeadAndTail
<1>2. AnswersIn(<<s[1]>>) = IF s[1].kind = "hello" THEN 0 ELSE 1
  BY DEF AnswersIn
<1>3. AnswersIn(Tail(s)) = Len(s) - 1
  BY <1>1 DEF AnswersIn
<1>4. AnswersIn(s) = IF s[1].kind = "hello" THEN Len(s) - 1 ELSE Len(s)
  BY DEF AnswersIn
<1> QED
  BY <1>1, <1>2, <1>3, <1>4

LEMMA AnswersInOneMore ==
  ASSUME NEW s \in Seq(Replies), NEW m \in Replies, m.kind = "answer"
  PROVE  AnswersIn(Append(s, m)) = AnswersIn(s) + 1
<1>1. CASE s = << >>
  <2>1. Append(s, m) = <<m>> /\ AnswersIn(s) = 0
    BY <1>1 DEF AnswersIn
  <2> QED
    BY <2>1 DEF AnswersIn
<1>2. CASE s # << >>
  BY <1>2, OneMore DEF AnswersIn
<1> QED
  BY <1>1, <1>2

\* The host has heard one answer more, if an answer is what it took.
LEMMA HeardByTaking ==
  ASSUME TypeOK, NEW m \in Replies, HostTakes(m), Covered(m), UNCHANGED channel
  PROVE  Cardinality(HeardOn(answered, channel))'
           = Cardinality(HeardOn(answered, channel)) + AnswersIn(<<m>>)
<1>1. answered \in Seq(Answers) /\ AnswersIn(<<m>>) = IF m.kind = "hello" THEN 0 ELSE 1
  BY DEF TypeOK, AnswersIn
<1>2. CASE m.kind = "hello" /\ answered' = answered
  <2>1. HeardOn(answered, channel)' = HeardOn(answered, channel)
    BY <1>2 DEF HeardOn
  <2>2. Cardinality(HeardOn(answered, channel)) \in Nat
    BY <1>1, HeardIsFinite, FS_CardinalityType
  <2> QED
    BY <1>1, <1>2, <2>1, <2>2
<1>3. CASE m \in Answers /\ m.kind = "answer" /\ answered' = Append(answered, m)
  <2>1. channel' = m.channel /\ channel = m.channel
    BY <1>3 DEF Covered
  <2>2. HeardOn(answered, channel)' = HeardOn(Append(answered, m), m.channel)
    BY <1>3, <2>1 DEF HeardOn
  <2> QED
    BY <1>1, <1>3, <2>1, <2>2, HeardOneMore
<1> QED
  BY <1>2, <1>3, Taken

\* The replies in transit stay numbered.
LEMMA TransitIsNumberedStep ==
  ASSUME IInv, [Next]_vars
  PROVE  TransitIsNumbered'
<1> DEFINE heard == Cardinality(HeardOn(answered, channel))
<1>0. /\ TypeOK /\ TransitIsNumbered
      /\ outgoing \in Seq(Replies) /\ toGateway \in Seq(Replies) /\ answered \in Seq(Answers)
      /\ received \in Nat /\ Len(toGateway) \in Nat
      /\ Handled \in Nat
  BY DEF IInv, TypeOK, Handled, OnlyReadyIsTrusted
<1>q. ASSUME UNCHANGED <<toGateway, outgoing, channel, answered>>, Handled' = Handled,
             Flows' => Flows
      PROVE  TransitIsNumbered'
  BY <1>0, <1>q
  DEF TransitIsNumbered, QueueIsNumbered, OutgoingIsNumbered, HelloComesFirst,
      HeardIsCounted
<1>e. ASSUME ~Flows'
      PROVE  TransitIsNumbered'
  BY <1>e DEF TransitIsNumbered
<1>f. ASSUME state' \in {"AWAITING_HELLO", "ENDED"}
      PROVE  TransitIsNumbered'
  BY <1>f, FreshUntilHelloStep
  DEF FreshUntilHello, TransitIsNumbered, QueueIsNumbered, OutgoingIsNumbered,
      HelloComesFirst, HeardIsCounted
<1>a. ASSUME toGateway' = Append(toGateway, [kind |-> "answer", channel |-> channel,
                                             n |-> Handled]),
             UNCHANGED <<outgoing, channel, answered>>, channel # NoChannel,
             Handled' = Handled + 1, Flows' => Flows
      PROVE  TransitIsNumbered'
  <2> DEFINE m == [kind |-> "answer", channel |-> channel, n |-> Handled]
  <2>1. /\ Len(toGateway') = Len(toGateway) + 1 /\ m \in Replies
        /\ DOMAIN toGateway' = DOMAIN toGateway \union {Len(toGateway) + 1}
        /\ toGateway'[Len(toGateway) + 1] = m
        /\ \A i \in DOMAIN toGateway : toGateway'[i] = toGateway[i] /\ i \in 1 .. Len(toGateway)
    BY <1>0, <1>a, AnswerQueued
  <2>2. AnswersIn(toGateway') = AnswersIn(toGateway) + 1
    BY <1>0, <1>a, <2>1, AnswersInOneMore
  <2> SUFFICES ASSUME Flows'
               PROVE  (QueueIsNumbered /\ OutgoingIsNumbered /\ HelloComesFirst
                         /\ HeardIsCounted)'
    BY DEF TransitIsNumbered
  <2>3. /\ QueueIsNumbered /\ OutgoingIsNumbered /\ HelloComesFirst /\ HeardIsCounted
    BY <1>0, <1>a DEF TransitIsNumbered
  <2>4. QueueIsNumbered'
    BY <1>0, <1>a, <2>1, <2>3 DEF QueueIsNumbered
  <2>5. OutgoingIsNumbered'
    <3>1. UNCHANGED outgoing /\ Handled' = Handled + 1 /\ Len(toGateway') = Len(toGateway) + 1
      BY <1>a, <2>1
    <3> QED
      BY <1>0, <2>3, <3>1 DEF OutgoingIsNumbered
  <2>6. HelloComesFirst'
    BY <1>0, <1>a, <2>1, <2>3 DEF HelloComesFirst
  <2>7. HeardIsCounted'
    <3>1. AnswersIn(toGateway) \in Int /\ AnswersIn(outgoing) \in Int
      BY <1>0 DEF AnswersIn
    <3>2. heard' = heard
      BY <1>a
    <3> QED
      BY <1>0, <1>a, <2>2, <2>3, <3>1, <3>2 DEF HeardIsCounted
  <2> QED
    BY <2>4, <2>5, <2>6, <2>7
<1>1. CASE HostSendsPlain \/ HostSendsRequest \/ GatewayForwards \/ PumpDrops
        \/ CompletePairing \/ PumpEnds \/ LeaveScreen \/ DigitsMatch \/ DigitsDiffer
  <2>1. /\ UNCHANGED <<toGateway, outgoing, channel, answered>> /\ Handled' = Handled
        /\ Flows' => Flows
    BY <1>1
    DEF appVars, threadVars, runnerVars, gatewayVars, socketVars, hostVars, Handled, Flows,
        GatewayIsRunning, HostSendsPlain, HostSendsRequest, HostSend, GatewayForwards,
        PumpDrops, PumpMayRead, CompletePairing, PumpEnds, LeaveScreen, DigitsMatch,
        DigitsDiffer, StopAndGoTo
  <2> QED
    BY <1>q, <2>1
<1>2. CASE GatewayEnds \/ GatewayDies \/ Killed \/ GiveUpOnChild
  <2>1. ~Flows'
    BY <1>2
    DEF appVars, GatewayEnds, GatewayDies, Killed, GiveUpOnChild, GatewayExits, Flows,
        GatewayIsRunning, IInv, EndedIsBare
  <2> QED
    BY <1>e, <2>1
<1>3. CASE FinishStop \/ Spawn \/ SpawnFails \/ Start
  <2>1. state' \in {"AWAITING_HELLO", "ENDED"}
    BY <1>3 DEF FinishStop, Spawn, SpawnFails, Start, IInv, EndedIsBare
  <2> QED
    BY <1>f, <2>1
<1>4. CASE HostReads
  <2> DEFINE m == toGateway[1]
  <2>1. /\ toGateway # << >> /\ HostTakes(m) /\ m \in Replies
        /\ toGateway' = Tail(toGateway) /\ attached /\ outgoing = << >>
        /\ UNCHANGED <<outgoing, channel>> /\ Handled' = Handled
    BY <1>0, <1>4, HeadAndTail
    DEF HostReads, appVars, threadVars, runnerVars, gatewayVars, Handled, TypeOK, IInv,
        EndedIsBare
  <2>2. heard' = heard + AnswersIn(<<m>>)
    BY <1>0, <2>1, HeardByTaking DEF IInv, AnswersArePaired
  <2>3. Flows /\ QueueIsNumbered /\ OutgoingIsNumbered /\ HelloComesFirst /\ HeardIsCounted
    BY <1>0, <2>1 DEF TransitIsNumbered, Flows
  <2>4. QueueIsNumbered'
    BY <1>0, <2>1, <2>3, HeadAndTail DEF QueueIsNumbered
  <2>5. OutgoingIsNumbered'
    BY <1>0, <2>1, <2>3, HeadAndTail DEF QueueIsNumbered, OutgoingIsNumbered
  <2>6. HelloComesFirst'
    BY <1>0, <2>1, <2>3, HeadAndTail DEF HelloComesFirst
  <2>7. HeardIsCounted'
    <3>1. /\ AnswersIn(Tail(toGateway)) = Len(toGateway) - 1
          /\ AnswersIn(toGateway) = Len(toGateway) - 1 + AnswersIn(<<m>>)
      BY <1>0, <2>1, <2>3, AnswersInTail DEF HelloComesFirst
    <3>2. AnswersIn(outgoing) = 0 /\ AnswersIn(<<m>>) \in Int
      BY <2>1 DEF AnswersIn
    <3> QED
      BY <1>0, <2>1, <2>2, <2>3, <3>1, <3>2 DEF HeardIsCounted
  <2> QED
    BY <2>4, <2>5, <2>6, <2>7 DEF TransitIsNumbered
<1>5. CASE GatewayReceives
  <2> DEFINE m == toGateway[1]
  <2>1. /\ toGateway # << >> /\ m \in Replies /\ outgoing' = <<m>>
        /\ toGateway' = Tail(toGateway) /\ GatewayIsRunning /\ outgoing = << >>
        /\ UNCHANGED <<channel, answered>> /\ Handled' = Handled
    BY <1>0, <1>5, HeadAndTail
    DEF GatewayReceives, appVars, threadVars, runnerVars, hostVars, Handled, TypeOK,
        GatewayIsRunning
  <2>3. Flows /\ QueueIsNumbered /\ OutgoingIsNumbered /\ HelloComesFirst /\ HeardIsCounted
    BY <1>0, <2>1 DEF TransitIsNumbered, Flows
  <2>4. QueueIsNumbered'
    BY <1>0, <2>1, <2>3, HeadAndTail DEF QueueIsNumbered
  <2>5. OutgoingIsNumbered'
    BY <1>0, <2>1, <2>3, HeadAndTail DEF QueueIsNumbered, OutgoingIsNumbered
  <2>6. HelloComesFirst'
    BY <1>0, <2>1, <2>3, HeadAndTail DEF HelloComesFirst
  <2>7. HeardIsCounted'
    <3>1. /\ AnswersIn(Tail(toGateway)) = Len(toGateway) - 1
          /\ AnswersIn(toGateway) = Len(toGateway) - 1 + AnswersIn(<<m>>)
      BY <1>0, <2>1, <2>3, AnswersInTail DEF HelloComesFirst
    <3>2. AnswersIn(outgoing) = 0 /\ AnswersIn(<<m>>) \in Int
      BY <2>1 DEF AnswersIn
    <3>3. heard' = heard
      BY <2>1
    <3> QED
      BY <1>0, <2>1, <2>3, <3>1, <3>2, <3>3 DEF HeardIsCounted
  <2> QED
    BY <2>4, <2>5, <2>6, <2>7 DEF TransitIsNumbered
<1>6. CASE GatewayWrites
  <2> DEFINE m == outgoing[1]
  <2>1. /\ Len(outgoing) = 1 /\ outgoing # << >> /\ HostTakes(m) /\ m \in Replies
        /\ outgoing' = << >> /\ GatewayIsRunning
        /\ UNCHANGED <<toGateway, channel>> /\ Handled' = Handled
    <3>1. /\ gateway = "writing" /\ HostTakes(Head(outgoing)) /\ outgoing' = << >>
          /\ UNCHANGED <<toGateway, channel>> /\ Handled' = Handled
      BY <1>6 DEF GatewayWrites, appVars, threadVars, runnerVars, socketVars, Handled
    <3>2. Len(outgoing) = 1
      BY <1>0, <3>1 DEF TypeOK
    <3>3. outgoing # << >> /\ Head(outgoing) = m /\ m \in Replies
      <4>1. Len(<< >>) = 0
        OBVIOUS
      <4>2. outgoing # << >>
        BY <3>2, <4>1
      <4> QED
        BY <1>0, <4>2, HeadAndTail
    <3>4. HostTakes(m)
      BY <3>1, <3>3
    <3> QED
      BY <3>1, <3>2, <3>3, <3>4 DEF GatewayIsRunning
  <2>2. heard' = heard + AnswersIn(<<m>>)
    BY <1>0, <2>1, HeardByTaking DEF IInv, AnswersArePaired
  <2>3. Flows /\ QueueIsNumbered /\ OutgoingIsNumbered /\ HelloComesFirst /\ HeardIsCounted
    BY <1>0, <2>1 DEF TransitIsNumbered, Flows
  <2>4. QueueIsNumbered'
    BY <1>0, <2>1, <2>3 DEF QueueIsNumbered
  <2>5. OutgoingIsNumbered'
    BY <1>0, <2>1, <2>3 DEF QueueIsNumbered, OutgoingIsNumbered
  <2>6. HelloComesFirst'
    BY <1>0, <2>1, <2>3 DEF HelloComesFirst
  <2>7. HeardIsCounted'
    <3>1. AnswersIn(outgoing) = AnswersIn(<<m>>) /\ AnswersIn(outgoing)' = 0
      BY <2>1 DEF AnswersIn
    <3>2. AnswersIn(toGateway) \in Int /\ AnswersIn(<<m>>) \in Int
      BY <1>0 DEF AnswersIn
    <3> QED
      BY <1>0, <2>1, <2>2, <2>3, <3>1, <3>2 DEF HeardIsCounted
  <2> QED
    BY <2>4, <2>5, <2>6, <2>7 DEF TransitIsNumbered
<1>7. CASE PumpHello
  <2>1. /\ state = "AWAITING_HELLO" /\ channel' = session /\ session \in Nat
        /\ toGateway = << >> /\ outgoing = << >> /\ outgoing' = << >>
        /\ answered' = answered /\ pc = "session" /\ received = 0 /\ received' = 0
        /\ \A i \in DOMAIN answered : answered[i].channel < session
    BY <1>7, LinkAssumption
    DEF PumpHello, PumpMayRead, gatewayVars, hostVars, IInv, TypeOK, FreshUntilHello
  <2>2. CASE gateway = "exited"
    BY <1>7, <1>e, <2>2
    DEF PumpHello, gatewayVars, Flows, GatewayIsRunning, IInv, EndedIsBare
  <2>3. CASE gateway # "exited"
    <3>1. toGateway' = <<HelloReply(session)>> /\ pc' # "prompt"
      BY <1>7, <2>1, <2>3 DEF PumpHello, SendAndGoTo
    <3>2. Handled' = 0
      BY <2>1, <3>1 DEF Handled
    <3>3. Cardinality(HeardOn(answered, session)) = 0
      <4>1. HeardOn(answered, session) = {}
        BY <2>1 DEF HeardOn
      <4> QED
        BY <4>1, FS_EmptySet
    <3>4. AnswersIn(toGateway)' = 0 /\ AnswersIn(outgoing)' = 0
      BY <2>1, <3>1 DEF AnswersIn, HelloReply
    <3>5. HeardIsCounted'
      BY <2>1, <3>2, <3>3, <3>4 DEF HeardIsCounted
    <3> QED
      BY <2>1, <3>1, <3>5
      DEF TransitIsNumbered, QueueIsNumbered, OutgoingIsNumbered, HelloComesFirst,
          HelloReply
  <2> QED
    BY <2>2, <2>3
<1>8. CASE PumpRequest
  <2>1. /\ channel # NoChannel
        /\ Flows' => Flows
        /\ UNCHANGED <<outgoing, channel, answered>>
        /\ pc = "session" /\ received' = received + 1 /\ Handled = received
    BY <1>8
    DEF PumpRequest, PumpMayRead, gatewayVars, hostVars, Handled, Flows, GatewayIsRunning,
        IInv, FreshUntilHello, NoChannel
  <2>2. CASE pc' = "prompt" /\ toGateway' = toGateway
    <3>1. Handled' = Handled
      BY <1>0, <2>1, <2>2 DEF Handled
    <3>2. UNCHANGED <<toGateway, outgoing, channel, answered>>
      BY <2>1, <2>2
    <3> QED
      BY <1>q, <2>1, <3>1, <3>2
  <2>3. CASE pc' = "session" /\ toGateway' = Append(toGateway, Answer(Head(toApp)))
    <3>1. Answer(Head(toApp)) = [kind |-> "answer", channel |-> channel, n |-> Handled]
      BY <1>8, <2>1 DEF PumpRequest, Opens, Answer
    <3>2. Handled' = Handled + 1
      BY <1>0, <2>1, <2>3 DEF Handled
    <3>3. toGateway' = Append(toGateway, [kind |-> "answer", channel |-> channel, n |-> Handled])
      BY <2>3, <3>1
    <3> QED
      BY <1>a, <2>1, <3>2, <3>3
  <2>4. CASE gateway = "exited"
    BY <1>8, <1>e, <2>4
    DEF PumpRequest, gatewayVars, Flows, GatewayIsRunning, IInv, EndedIsBare
  <2> QED
    BY <1>8, <2>2, <2>3, <2>4 DEF PumpRequest, SendAndGoTo
<1>9. CASE AnswerPrompt
  <2>1. /\ channel # NoChannel
        /\ Flows' => Flows
        /\ UNCHANGED <<outgoing, channel, answered>>
        /\ pc = "prompt" /\ received' = received /\ Handled = received - 1
    BY <1>9
    DEF AnswerPrompt, gatewayVars, hostVars, Handled, Flows, GatewayIsRunning, IInv,
        OnlyReadyIsTrusted, FreshUntilHello, NoChannel
  <2>2. CASE pc' = "session" /\ toGateway' = Append(toGateway, Answer(serving))
    <3>1. Answer(serving) = [kind |-> "answer", channel |-> channel, n |-> Handled]
      BY <2>1 DEF IInv, OnlyReadyIsTrusted, Answer
    <3>2. Handled' = Handled + 1
      BY <1>0, <2>1, <2>2 DEF Handled
    <3>3. toGateway' = Append(toGateway, [kind |-> "answer", channel |-> channel, n |-> Handled])
      BY <2>2, <3>1
    <3> QED
      BY <1>a, <2>1, <3>2, <3>3
  <2>3. CASE gateway = "exited"
    BY <1>9, <1>e, <2>3
    DEF AnswerPrompt, gatewayVars, Flows, GatewayIsRunning, IInv, EndedIsBare
  <2> QED
    BY <1>9, <2>2, <2>3 DEF AnswerPrompt, SendAndGoTo
<1>10. CASE UNCHANGED vars
  BY <1>q, <1>10
  DEF vars, appVars, runnerVars, threadVars, gatewayVars, socketVars, hostVars, Handled,
      Flows, GatewayIsRunning
<1> QED
  BY <1>1, <1>2, <1>3, <1>4, <1>5, <1>6, <1>7, <1>8, <1>9, <1>10
  DEF Next, HostStep, GatewayStep, ReapStep, SpawnStep, PumpStep, BareStep, UserStep

-----------------------------------------------------------------------------
(* The types. *)

\* The type invariant in three parts: the app, what is on its way to the host,
\* and what comes from the host.
AppTypes ==
  /\ pc \in {"menu", "spawning", "session", "pairing", "prompt", "reaping"}
  /\ resume \in {"menu", "session"}
  /\ serving \in Records \union {NoRecord}
  /\ state \in {"AWAITING_HELLO", "AWAITING_PAIRING", "READY", "ENDED"}
  /\ channel \in 0 .. MaxSessions /\ received \in Nat
  /\ sock \in {"none", "open", "closed"}
  /\ bound \in BOOLEAN /\ attached \in BOOLEAN
  /\ session \in 0 .. MaxSessions /\ accepted \subseteq 0 .. MaxSessions

PipeTypes ==
  /\ gateway \in {"none", "reading", "awaiting", "writing", "exited", "lost"}
  /\ outgoing \in Seq(Replies) /\ Len(outgoing) = IF gateway = "writing" THEN 1 ELSE 0
  /\ toGateway \in Seq(Replies)

HostTypes ==
  /\ onBus \in BOOLEAN
  /\ endpoint \in Seq(Messages) /\ toApp \in Seq(Messages)
  /\ answered \in Seq(Answers)
  /\ hostChannel \in 0 .. MaxSessions /\ hostSealed \in Nat
  /\ sent \in 0 .. MaxSent

LEMMA EmptyQueues ==
  << >> \in Seq(Messages) /\ << >> \in Seq(Replies) /\ Len(<< >>) = 0
OBVIOUS

LEMMA TypeOKInParts == TypeOK <=> AppTypes /\ PipeTypes /\ HostTypes
BY DEF TypeOK, AppTypes, PipeTypes, HostTypes

LEMMA AppTypesStep ==
  ASSUME IInv, [Next]_vars
  PROVE  AppTypes'
<1> USE DEF vars, appVars, protocolVars, threadVars, runnerVars, gatewayVars, busVars, socketVars,
           hostVars
<1>1. CASE UNCHANGED <<pc, resume, serving, state, channel, received, sock, bound, attached, session, accepted>>
  BY <1>1 DEF IInv, TypeOK, AppTypes, EndedIsBare, OnlyReadyIsTrusted, NoChannel
<1>2. CASE HostSendsPlain \/ HostSendsRequest \/ HostReads \/ GatewayForwards \/
        GatewayReceives \/ GatewayWrites \/ GatewayEnds \/ GatewayDies \/ Killed \/
        GiveUpOnChild \/ PumpDrops
  <2>1. UNCHANGED <<pc, resume, serving, state, channel, received, sock, bound, attached, session, accepted>>
    BY <1>2
    DEF HostSendsPlain, HostSend, HostSendsRequest, HostReads, GatewayForwards,
        GatewayReceives, GatewayWrites, GatewayEnds, GatewayExits, GatewayDies, Killed,
        GiveUpOnChild, PumpDrops
  <2> QED
    BY <1>1, <2>1
<1>3. CASE FinishStop
  <2>1. /\ pc' = resume /\ sock' = "none" /\ channel' = 0 /\ state' = "ENDED" /\ bound' = FALSE
        /\ UNCHANGED <<resume, serving, received, session, attached, accepted>>
    BY <1>3 DEF FinishStop, Unbind, NoChannel
  <2>2. 0 \in 0 .. MaxSessions
    BY LinkAssumption
  <2> QED
    BY <2>1, <2>2 DEF IInv, TypeOK, AppTypes
<1>4. CASE Spawn
  BY <1>4 DEF IInv, TypeOK, AppTypes, EndedIsBare, OnlyReadyIsTrusted, NoChannel, Spawn
<1>5. CASE SpawnFails
  BY <1>5 DEF IInv, TypeOK, AppTypes, SpawnFails, Unbind
<1>6. CASE PumpHello
  BY <1>6 DEF IInv, TypeOK, AppTypes, PumpHello, SendAndGoTo, StopAndGoTo
<1>7. CASE PumpRequest
  <2>1. Head(toApp) \in Records /\ received + 1 \in Nat /\ AppTypes
    <3>1. Head(toApp) \in Messages /\ Head(toApp).kind = "record" /\ received \in Nat
      BY <1>7 DEF PumpRequest, PumpMayRead, Opens, IInv, TypeOK
    <3> QED
      BY <3>1, TypeOKInParts DEF Messages, Hello, BadHello, Garbage, Broken, IInv
  <2>2. /\ received' = received + 1
        /\ UNCHANGED <<state, channel, bound, session, attached, accepted>>
    BY <1>7 DEF PumpRequest
  <2>3. \/ pc' = "prompt" /\ serving' = Head(toApp) /\ UNCHANGED <<resume, sock>>
        \/ pc' = "reaping" /\ resume' = "session" /\ sock' \in {sock, "closed"}
             /\ serving' = NoRecord
        \/ pc' = "session" /\ serving' = NoRecord /\ UNCHANGED <<resume, sock>>
    BY <1>7 DEF PumpRequest, SendAndGoTo, StopAndGoTo
  <2> QED
    BY <2>1, <2>2, <2>3 DEF AppTypes
<1>8. CASE PumpEnds
  BY <1>8 DEF IInv, TypeOK, AppTypes, PumpEnds, StopAndGoTo
<1>9. CASE CompletePairing
  BY <1>9 DEF IInv, TypeOK, AppTypes, CompletePairing
<1>10. CASE Start
  <2>1. session + 1 \in 0 .. MaxSessions /\ AppTypes
    BY <1>10, LinkAssumption, TypeOKInParts DEF Start, IInv, TypeOK
  <2>2. /\ pc' \in {"session", "spawning"} /\ sock' \in {sock, "open"} /\ bound' \in {bound, TRUE}
        /\ session' = session + 1 /\ state' = "AWAITING_HELLO" /\ received' = 0
        /\ UNCHANGED <<resume, serving, channel, attached, accepted>>
    BY <1>10 DEF Start
  <2> QED
    BY <2>1, <2>2 DEF AppTypes
<1>11. CASE LeaveScreen
  BY <1>11 DEF IInv, TypeOK, AppTypes, LeaveScreen, StopAndGoTo
<1>12. CASE DigitsMatch
  BY <1>12 DEF IInv, TypeOK, AppTypes, DigitsMatch
<1>13. CASE DigitsDiffer
  BY <1>13 DEF IInv, TypeOK, AppTypes, DigitsDiffer, StopAndGoTo
<1>14. CASE AnswerPrompt
  BY AnswerEndsPrompt, <1>14
  DEF IInv, TypeOK, AppTypes, AnswerPrompt, SendAndGoTo, StopAndGoTo
<1>15. CASE UNCHANGED vars
  BY <1>1, <1>15
<1> QED
  BY <1>2, <1>3, <1>4, <1>5, <1>6, <1>7, <1>8, <1>9, <1>10, <1>11, <1>12, <1>13, <1>14,
      <1>15
  DEF Next, HostStep, GatewayStep, ReapStep, SpawnStep, PumpStep, BareStep, UserStep

LEMMA PipeTypesStep ==
  ASSUME IInv, [Next]_vars
  PROVE  PipeTypes'
<1> USE DEF vars, appVars, protocolVars, threadVars, runnerVars, gatewayVars, busVars, socketVars,
           hostVars
<1>1. CASE UNCHANGED <<gateway, outgoing, toGateway>>
  BY <1>1 DEF IInv, TypeOK, PipeTypes, EndedIsBare
<1>2. CASE HostSendsPlain \/ HostSendsRequest \/ PumpDrops \/ CompletePairing \/
        PumpEnds \/ LeaveScreen \/ DigitsMatch \/ DigitsDiffer \/ SpawnFails
  <2>1. UNCHANGED <<gateway, outgoing, toGateway>>
    BY <1>2
    DEF HostSendsPlain, HostSend, HostSendsRequest, PumpDrops, CompletePairing, PumpEnds,
        LeaveScreen, DigitsMatch, DigitsDiffer, SpawnFails
  <2> QED
    BY <1>1, <2>1
<1>3. CASE HostReads
  <2>1. toGateway # << >> /\ toGateway' = Tail(toGateway) /\ UNCHANGED <<gateway, outgoing>>
    BY <1>3 DEF HostReads
  <2> QED
    BY <2>1, HeadAndTail DEF IInv, TypeOK, PipeTypes
<1>4. CASE GatewayForwards
  BY <1>4 DEF IInv, TypeOK, PipeTypes, EndedIsBare, GatewayForwards
<1>5. CASE GatewayReceives
  BY <1>5 DEF IInv, TypeOK, PipeTypes, EndedIsBare, GatewayReceives
<1>6. CASE GatewayWrites
  BY <1>6 DEF IInv, TypeOK, PipeTypes, EndedIsBare, GatewayWrites, HostTakes
<1>7. CASE GatewayEnds
  BY <1>7 DEF IInv, TypeOK, PipeTypes, EndedIsBare, GatewayEnds, GatewayExits
<1>8. CASE GatewayDies
  BY <1>8 DEF IInv, TypeOK, PipeTypes, EndedIsBare, GatewayDies, GatewayExits
<1>9. CASE Killed
  BY <1>9 DEF IInv, TypeOK, PipeTypes, EndedIsBare, Killed, GatewayExits
<1>10. CASE GiveUpOnChild
  BY <1>10 DEF IInv, TypeOK, PipeTypes, EndedIsBare, GiveUpOnChild
<1>11. CASE FinishStop
  BY <1>11 DEF IInv, TypeOK, PipeTypes, EndedIsBare, FinishStop, Unbind, Protocol!EndSession
<1>12. CASE Spawn
  BY <1>12 DEF IInv, TypeOK, PipeTypes, EndedIsBare, Spawn
<1>13. CASE PumpHello
  <2>1. HelloReply(session) \in Replies
    BY <1>13, LinkAssumption
    DEF PumpHello, PumpMayRead, HelloReply, Replies, IInv, TypeOK, FreshUntilHello
  <2>2. toGateway' \in {toGateway, Append(toGateway, HelloReply(session))}
        /\ UNCHANGED <<gateway, outgoing>>
    BY <1>13 DEF PumpHello, SendAndGoTo
  <2> QED
    <3>1. toGateway \in Seq(Replies)
      BY DEF IInv, TypeOK
    <3>2. Append(toGateway, HelloReply(session)) \in Seq(Replies)
      BY <2>1, <3>1, OneMore
    <3> QED
      BY <2>2, <3>1, <3>2 DEF IInv, TypeOK, PipeTypes
<1>14. CASE PumpRequest
  <2>1. channel # NoChannel /\ received \in Nat /\ Opens(Head(toApp))
    BY <1>14 DEF PumpRequest, PumpMayRead, IInv, TypeOK, FreshUntilHello, NoChannel
  <2>2. /\ toGateway' \in {toGateway, Append(toGateway, [kind |-> "answer", channel |-> channel,
                                                       n |-> received])}
        /\ UNCHANGED <<gateway, outgoing>>
    BY <1>14, <2>1 DEF PumpRequest, SendAndGoTo, Opens, Answer
  <2> QED
    BY <2>1, <2>2, AnswerQueued DEF IInv, TypeOK, PipeTypes
<1>15. CASE Start
  BY <1>15 DEF IInv, TypeOK, PipeTypes, EndedIsBare, Start
<1>16. CASE AnswerPrompt
  <2>1. channel # NoChannel /\ serving.n \in Nat /\ serving.channel = channel
    BY <1>16 DEF AnswerPrompt, IInv, TypeOK, OnlyReadyIsTrusted, FreshUntilHello, NoChannel
  <2>2. /\ toGateway' \in {toGateway, Append(toGateway, [kind |-> "answer", channel |-> channel,
                                                       n |-> serving.n])}
        /\ UNCHANGED <<gateway, outgoing>>
    BY <1>16, <2>1 DEF AnswerPrompt, SendAndGoTo, Answer
  <2> QED
    BY <2>1, <2>2, AnswerQueued DEF IInv, TypeOK, PipeTypes
<1>17. CASE UNCHANGED vars
  BY <1>1, <1>17
<1> QED
  BY <1>2, <1>3, <1>4, <1>5, <1>6, <1>7, <1>8, <1>9, <1>10, <1>11, <1>12, <1>13, <1>14,
      <1>15, <1>16, <1>17
  DEF Next, HostStep, GatewayStep, ReapStep, SpawnStep, PumpStep, BareStep, UserStep

\* What the host takes has the type of what it keeps.
LEMMA TakenTypes ==
  ASSUME TypeOK, NEW m \in Replies, HostTakes(m)
  PROVE  /\ hostChannel' \in 0 .. MaxSessions /\ hostSealed' \in Nat
         /\ answered' \in Seq(Answers)
<1>1. m.channel \in 0 .. MaxSessions /\ hostChannel \in 0 .. MaxSessions /\ hostSealed \in Nat
  BY LinkAssumption DEF Replies, Answers, TypeOK
<1>2. (answered' = answered \/ answered' \in Seq(Answers)) /\ answered \in Seq(Answers)
  BY Taken DEF TypeOK
<1> QED
  BY <1>1, <1>2 DEF HostTakes

LEMMA HostTypesStep ==
  ASSUME IInv, [Next]_vars
  PROVE  HostTypes'
<1> USE DEF vars, appVars, protocolVars, threadVars, runnerVars, gatewayVars, busVars, socketVars,
           hostVars
<1>1. CASE UNCHANGED <<onBus, endpoint, toApp, answered, hostChannel, hostSealed, sent>>
  BY <1>1 DEF IInv, TypeOK, HostTypes
<1>2. CASE GatewayReceives \/ GatewayEnds \/ GatewayDies \/ Killed \/ GiveUpOnChild \/
        CompletePairing \/ PumpEnds \/ LeaveScreen \/ DigitsMatch \/ DigitsDiffer \/
        AnswerPrompt
  <2>1. UNCHANGED <<onBus, endpoint, toApp, answered, hostChannel, hostSealed, sent>>
    BY <1>2
    DEF GatewayReceives, GatewayEnds, GatewayExits, GatewayDies, Killed, GiveUpOnChild,
        CompletePairing, PumpEnds, LeaveScreen, DigitsMatch, DigitsDiffer, AnswerPrompt
  <2> QED
    BY <1>1, <2>1
<1>3. CASE HostSendsPlain \/ HostSendsRequest
  <2>1. PICK m \in Messages : HostSend(m)
    <3>1. CASE HostSendsPlain
      BY <3>1 DEF HostSendsPlain, Messages
    <3>2. CASE HostSendsRequest
      <4>1. PICK req \in HostRequests, n \in 0 .. hostSealed : HostSend(Record(hostChannel, n, req))
        BY <3>2 DEF HostSendsRequest
      <4>2. Record(hostChannel, n, req) \in Messages
        BY <3>2, LinkAssumption
        DEF HostSendsRequest, Record, Records, Messages, IInv, TypeOK, NoChannel
      <4> QED
        BY <4>1, <4>2
    <3> QED
      BY <1>3, <3>1, <3>2
  <2>2. /\ sent' \in 0 .. MaxSent
        /\ toApp' \in {toApp, Append(toApp, m)} /\ endpoint' \in {endpoint, Append(endpoint, m)}
        /\ UNCHANGED <<onBus, answered>>
    BY <2>1, LinkAssumption DEF HostSend, IInv, TypeOK
  <2>3. hostSealed' \in Nat /\ hostChannel' = hostChannel
    BY <1>3 DEF HostSendsPlain, HostSendsRequest, IInv, TypeOK
  <2>4. toApp' \in Seq(Messages) /\ endpoint' \in Seq(Messages)
    <3>1. toApp \in Seq(Messages) /\ endpoint \in Seq(Messages)
      BY DEF IInv, TypeOK
    <3>2. Append(toApp, m) \in Seq(Messages) /\ Append(endpoint, m) \in Seq(Messages)
      BY <3>1, OneMore
    <3> QED
      BY <2>2, <3>1, <3>2
  <2> QED
    BY <2>2, <2>3, <2>4 DEF IInv, TypeOK, HostTypes
<1>4. CASE HostReads
  <2>1. /\ toGateway # << >> /\ HostTakes(Head(toGateway)) /\ TypeOK
        /\ UNCHANGED <<onBus, endpoint, toApp, sent>>
    BY <1>4 DEF HostReads, IInv
  <2> QED
    BY <2>1, HeadAndTail, TakenTypes DEF TypeOK, HostTypes
<1>5. CASE GatewayForwards
  BY <1>5 DEF IInv, TypeOK, HostTypes, GatewayForwards
<1>6. CASE GatewayWrites
  <2>1. /\ Len(outgoing) = 1 /\ HostTakes(Head(outgoing)) /\ TypeOK /\ outgoing \in Seq(Replies)
        /\ UNCHANGED <<onBus, endpoint, toApp, sent>>
    BY <1>6 DEF GatewayWrites, IInv, TypeOK
  <2>2. outgoing # << >>
    <3>1. Len(outgoing) = 1
      BY <2>1
    <3> QED
      BY <3>1, EmptyQueues
  <2> QED
    BY <2>1, <2>2, HeadAndTail, TakenTypes DEF TypeOK, HostTypes
<1>7. CASE FinishStop
  <2>1. /\ toApp' \in {toApp, << >>} /\ endpoint' \in {endpoint, << >>} /\ onBus' \in BOOLEAN
        /\ UNCHANGED <<answered, hostChannel, hostSealed, sent>>
    BY <1>7 DEF IInv, TypeOK, FinishStop, Unbind
  <2> QED
    BY <2>1, EmptyQueues DEF IInv, TypeOK, HostTypes
<1>8. CASE Spawn
  <2>1. /\ toApp' \in {toApp, << >>} /\ endpoint' \in {endpoint, << >>} /\ onBus' \in BOOLEAN
        /\ UNCHANGED <<answered, hostChannel, hostSealed, sent>>
    BY <1>8 DEF IInv, TypeOK, Spawn
  <2> QED
    BY <2>1, EmptyQueues DEF IInv, TypeOK, HostTypes
<1>9. CASE SpawnFails
  <2>1. /\ toApp' \in {toApp, << >>} /\ endpoint' \in {endpoint, << >>} /\ onBus' \in BOOLEAN
        /\ UNCHANGED <<answered, hostChannel, hostSealed, sent>>
    BY <1>9 DEF IInv, TypeOK, SpawnFails, Unbind
  <2> QED
    BY <2>1, EmptyQueues DEF IInv, TypeOK, HostTypes
<1>10. CASE PumpHello
  BY <1>10 DEF IInv, TypeOK, HostTypes, PumpHello, PumpMayRead, SendAndGoTo, StopAndGoTo
<1>11. CASE PumpRequest
  BY <1>11 DEF IInv, TypeOK, HostTypes, PumpRequest, PumpMayRead
<1>12. CASE PumpDrops
  BY <1>12 DEF IInv, TypeOK, HostTypes, PumpDrops, PumpMayRead
<1>13. CASE Start
  <2>1. /\ toApp' \in {toApp, << >>} /\ endpoint' \in {endpoint, << >>} /\ onBus' \in BOOLEAN
        /\ UNCHANGED <<answered, hostChannel, hostSealed, sent>>
    BY <1>13 DEF IInv, TypeOK, Start
  <2> QED
    BY <2>1, EmptyQueues DEF IInv, TypeOK, HostTypes
<1>14. CASE UNCHANGED vars
  BY <1>1, <1>14
<1> QED
  BY <1>2, <1>3, <1>4, <1>5, <1>6, <1>7, <1>8, <1>9, <1>10, <1>11, <1>12, <1>13, <1>14
  DEF Next, HostStep, GatewayStep, ReapStep, SpawnStep, PumpStep, BareStep, UserStep

\* The host hears an answer only by taking a reply, and then it is the next one.
LEMMA AnswersComeInOrderStep ==
  ASSUME IInv, [Next]_vars
  PROVE  AnswersComeInOrder'
<1> USE DEF vars, appVars, protocolVars, threadVars, runnerVars, gatewayVars, busVars, socketVars,
           hostVars
<1>1. ASSUME NEW m \in Replies, HostTakes(m),
             m.kind = "answer" => m.n = Cardinality(HeardOn(answered, m.channel))
      PROVE  AnswersComeInOrder'
  <2>1. CASE answered' = answered
    BY <2>1 DEF IInv, AnswersComeInOrder
  <2>2. CASE answered' # answered
    <3>1. /\ m \in Answers /\ m.kind = "answer" /\ answered \in Seq(Answers)
          /\ DOMAIN answered' = DOMAIN answered \union {Len(answered) + 1}
          /\ answered'[Len(answered) + 1] = m
          /\ \A i \in DOMAIN answered : answered'[i] = answered[i] /\ i \in 1 .. Len(answered)
      BY <1>1, <2>2, Taken DEF IInv, TypeOK
    <3> SUFFICES ASSUME NEW i \in DOMAIN answered'
                 PROVE  answered'[i].n = Cardinality({j \in 1 .. (i - 1) :
                                            answered'[j].channel = answered'[i].channel})
      BY DEF AnswersComeInOrder
    <3>2. CASE i \in DOMAIN answered
      <4>1. {j \in 1 .. (i - 1) : answered'[j].channel = answered'[i].channel}
              = {j \in 1 .. (i - 1) : answered[j].channel = answered[i].channel}
        BY <3>1, <3>2
      <4> QED
        BY <3>1, <3>2, <4>1 DEF IInv, AnswersComeInOrder
    <3>3. CASE i = Len(answered) + 1
      <4>1. {j \in 1 .. (i - 1) : answered'[j].channel = answered'[i].channel}
              = HeardOn(answered, m.channel)
        BY <3>1, <3>3 DEF HeardOn
      <4> QED
        BY <1>1, <3>1, <3>3, <4>1
    <3> QED
      BY <3>1, <3>2, <3>3
  <2> QED
    BY <2>1, <2>2
<1>2. CASE HostReads
  <2> DEFINE m == toGateway[1]
  <2>1. /\ toGateway # << >> /\ HostTakes(m) /\ m \in Replies /\ toGateway \in Seq(Replies)
        /\ attached /\ outgoing = << >> /\ 1 \in DOMAIN toGateway
    BY <1>2, HeadAndTail DEF HostReads, TypeOK, IInv, EndedIsBare
  <2>2. QueueIsNumbered /\ HeardIsCounted /\ channel # NoChannel
    BY <2>1 DEF IInv, TransitIsNumbered, Flows, FreshUntilHello, TypeOK, NoChannel
  <2>3. ASSUME m.kind = "answer"
        PROVE  m.n = Cardinality(HeardOn(answered, m.channel))
    <3>1. m.channel = channel
      BY <2>1, <2>3 DEF IInv, AnswersArePaired, Covered
    <3>2. /\ AnswersIn(outgoing) = 0 /\ AnswersIn(toGateway) = Len(toGateway)
          /\ Len(toGateway) \in Nat /\ Handled \in Int
      BY <2>1, <2>3 DEF AnswersIn, Handled, IInv, TypeOK
    <3>3. m.n = Handled - Len(toGateway)
      BY <2>1, <2>2, <2>3, <3>2 DEF QueueIsNumbered
    <3>4. Cardinality(HeardOn(answered, channel)) = Handled - Len(toGateway)
      BY <2>2, <3>2 DEF HeardIsCounted
    <3> QED
      BY <3>1, <3>3, <3>4
  <2> QED
    BY <1>1, <2>1, <2>3
<1>3. CASE GatewayWrites
  <2> DEFINE m == outgoing[1]
  <2>1. outgoing \in Seq(Replies) /\ outgoing # << >> /\ Len(outgoing) = 1
    <3>1. outgoing \in Seq(Replies) /\ Len(outgoing) = 1 /\ Len(<< >>) = 0
      BY <1>3 DEF GatewayWrites, IInv, TypeOK
    <3> QED
      BY <3>1
  <2>2. HostTakes(m) /\ m \in Replies /\ 1 \in DOMAIN outgoing
    BY <1>3, <2>1, HeadAndTail DEF GatewayWrites
  <2>3. OutgoingIsNumbered /\ HelloComesFirst /\ HeardIsCounted /\ channel # NoChannel
    <3>1. Flows
      BY <1>3 DEF GatewayWrites, Flows, GatewayIsRunning
    <3> QED
      BY <2>1, <3>1 DEF IInv, TransitIsNumbered, FreshUntilHello, TypeOK, NoChannel
  <2>4. ASSUME m.kind = "answer"
        PROVE  m.n = Cardinality(HeardOn(answered, m.channel))
    <3>1. m.channel = channel
      BY <2>2, <2>4 DEF IInv, AnswersArePaired, Covered
    <3>2. /\ AnswersIn(outgoing) = 1 /\ AnswersIn(toGateway) = Len(toGateway)
          /\ Len(toGateway) \in Nat /\ Handled \in Int
      <4>1. toGateway \in Seq(Replies) /\ received \in Nat
        BY DEF IInv, TypeOK
      <4>2. toGateway # << >> => toGateway[1].kind = "answer"
        BY <2>1, <2>3, <4>1 DEF HelloComesFirst
      <4> QED
        BY <2>1, <2>4, <4>1, <4>2 DEF AnswersIn, Handled
    <3>3. m.n = Handled - 1 - Len(toGateway)
      BY <2>2, <2>3, <2>4 DEF OutgoingIsNumbered
    <3>4. Cardinality(HeardOn(answered, channel)) = Handled - 1 - Len(toGateway)
      BY <2>3, <3>2 DEF HeardIsCounted
    <3> QED
      BY <3>1, <3>3, <3>4
  <2> QED
    BY <1>1, <2>2, <2>4
<1>4. CASE UNCHANGED answered
  BY <1>4 DEF IInv, AnswersComeInOrder
<1>5. UNCHANGED answered \/ HostReads \/ GatewayWrites
    BY
    DEF Next, HostStep, GatewayStep, ReapStep, SpawnStep, PumpStep, BareStep, UserStep,
        HostSendsPlain, HostSend, HostSendsRequest, GatewayForwards, GatewayReceives,
        GatewayEnds, GatewayExits, GatewayDies, Killed, GiveUpOnChild, FinishStop, Spawn,
        SpawnFails, PumpHello, PumpRequest, PumpEnds, PumpDrops, CompletePairing, Start,
        LeaveScreen, DigitsMatch, DigitsDiffer, AnswerPrompt
<1> QED
  BY <1>2, <1>3, <1>4, <1>5

-----------------------------------------------------------------------------
(* Theorems. *)

LEMMA Initially == Init => IInv
<1> SUFFICES ASSUME Init PROVE IInv
  OBVIOUS
<1>1. TypeOK
  <2>1. 0 \in 0 .. MaxSessions /\ 0 \in 0 .. MaxSent /\ attached \in BOOLEAN
    BY LinkAssumption DEF Init
  <2>2. AppTypes
    BY <2>1 DEF Init, AppTypes, NoChannel
  <2>3. PipeTypes
    BY EmptyQueues DEF Init, PipeTypes
  <2>4. << >> \in Seq(Answers)
    OBVIOUS
  <2>5. HostTypes
    BY <2>1, <2>4, EmptyQueues DEF Init, HostTypes, NoChannel
  <2> QED
    BY <2>2, <2>3, <2>5, TypeOKInParts
<1>2. prompt = NoPrompt /\ authorization = NoAuthorization
  BY DEF Init, Protocol!Init
<1>3. TransitIsNumbered
  BY
  DEF Init, TransitIsNumbered, QueueIsNumbered, OutgoingIsNumbered, HelloComesFirst,
      HeardIsCounted
<1> QED
  BY <1>1, <1>2, <1>3
  DEF Init, IInv, EndedIsBare, OnlyReadyIsTrusted, FreshUntilHello, AnswersArePaired,
      AnswersComeInOrder, GatewayIsRunning

LEMMA Inductive == IInv /\ [Next]_vars => IInv'
<1> SUFFICES ASSUME IInv, [Next]_vars PROVE IInv'
  OBVIOUS
<1>1. TypeOK'
  BY AppTypesStep, PipeTypesStep, HostTypesStep DEF TypeOK, AppTypes, PipeTypes, HostTypes
<1> QED
  BY <1>1, EndedIsBareStep, OnlyReadyIsTrustedStep, FreshUntilHelloStep,
     AnswersArePairedStep, TransitIsNumberedStep, AnswersComeInOrderStep
  DEF IInv

\* Every reachable state satisfies the inductive invariant.
THEOREM Invariance == Spec => []IInv
  BY Initially, Inductive, PTL DEF Spec

\* The variables keep their types.
THEOREM TypeCorrect == Spec => []TypeOK
<1>1. IInv => TypeOK
  BY DEF IInv
<1> QED
  BY <1>1, Invariance, PTL

\* Nothing is asked, granted or answered on a channel whose digits the user has
\* not accepted (session.py _process, complete_pairing).
THEOREM PairingTheorem == Spec => []NothingBeforePairing
<1>1. IInv => NothingBeforePairing
  BY DEF IInv, NothingBeforePairing, OnlyReadyIsTrusted, AnswersArePaired
<1> QED
  BY <1>1, Invariance, PTL

\* On each channel the host hears the answers to its records, each once and in
\* order (crypto.py open; session.py pump).
THEOREM OrderTheorem == Spec => []AnswersComeInOrder
<1>1. IInv => AnswersComeInOrder
  BY DEF IInv
<1> QED
  BY <1>1, Invariance, PTL

\* However a session ended, it leaves nothing behind (session.py stop).
THEOREM ForgettingTheorem == Spec => []EndedMeansForgotten
<1>1. IInv => EndedMeansForgotten
  BY DEF IInv, EndedMeansForgotten, EndedIsBare, OnlyReadyIsTrusted, FreshUntilHello
<1> QED
  BY <1>1, Invariance, PTL
==============================================================================
