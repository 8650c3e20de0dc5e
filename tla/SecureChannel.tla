----------------------------- MODULE SecureChannel -----------------------------
(***************************************************************************)
(* The record layer and the key agreement of a USB session (usb/crypto.py) *)
(* between the device (usb/session.py) and a host that runs the reference  *)
(* side of the handshake, over a cable that may lose, repeat, reorder and  *)
(* keep what it carries across sessions, and that may answer either hello  *)
(* with a key of its own.                                                  *)
(*                                                                         *)
(* Keys are symbols: two ends hold the same keys when they agree on the    *)
(* shared point and on the transcript, and a record authenticates under    *)
(* the keys and the direction it was sealed for and no others.  Different  *)
(* transcripts show different digits (in the code, except once in 10^6).   *)
(***************************************************************************)
EXTENDS Integers, Sequences, FiniteSets

CONSTANTS
  MAX_COUNTER,  \* last record counter, 2^64 - 1 in the code
  MaxSessions,  \* bound: sessions started at each end
  NoChannel, NoBody

ASSUME ChannelAssumption == MAX_COUNTER \in Nat /\ MaxSessions \in Nat

VARIABLES
  hostState, hostSession, hostChannel,  \* the host's end
  state, session, channel,              \* the device's end
  serving,                              \* the request the device is handling
  hellos, helloReplies, frames,         \* everything the cable has carried
  \* History, not in the code: what each end has sealed and under which keys, and
  \* what it accepted in the present session
  hostLog, deviceLog, hostGot, deviceGot

hostVars   == <<hostState, hostSession, hostChannel, hostGot>>
deviceVars == <<state, session, channel, serving, deviceGot>>
vars == <<hostVars, deviceVars, hellos, helloReplies, frames, hostLog, deviceLog>>

-----------------------------------------------------------------------------
(* Keys. *)

\* An ephemeral key pair, one for each session of each end.
HostKey(k)   == [of |-> "host", n |-> k]
DeviceKey(k) == [of |-> "device", n |-> k]
CableKey     == [of |-> "cable", n |-> 0]
NotAPoint    == [of |-> "nobody", n |-> 0]

\* _derive(): from the shared point and the transcript of both public keys.
Derive(mine, theirs, hostPub, devicePub) ==
  [shared |-> {mine, theirs}, host |-> hostPub, device |-> devicePub]

Digits(keys) == keys

\* The cable knows the keys of a channel one of whose private halves is its own.
KnownToCable(keys) == CableKey \in keys.shared

-----------------------------------------------------------------------------
(* SessionChannel: seal() and open(). *)

NewChannel(keys, out, in) ==
  [keys |-> keys, out |-> out, in |-> in, send |-> 0, recv |-> 0]

Responder(hostPub, mine)   == NewChannel(Derive(mine, hostPub, hostPub, mine), "d2h", "h2d")
Initiator(devicePub, mine) == NewChannel(Derive(mine, devicePub, mine, devicePub), "h2d", "d2h")

\* next_nonce() raises rather than repeat a counter.
CanSeal(ch)     == ch.send <= MAX_COUNTER
Frame(ch, body) == [keys |-> ch.keys, dir |-> ch.out, n |-> ch.send, body |-> body]
\* Mutant: the counter wraps around.
AfterSeal_Wraps(ch) == [ch EXCEPT !.send = (@ + 1) % (MAX_COUNTER + 1)]

AfterSeal(ch)   == [ch EXCEPT !.send = @ + 1]

\* The tag first, then the counter: the very next record or an error.
Authenticates(ch, frame) == frame.keys = ch.keys /\ frame.dir = ch.in
\* Mutant: records may be missing.
Opens_AfterGaps(ch, frame) == Authenticates(ch, frame) /\ frame.n >= ch.recv

Opens(ch, frame)         == Authenticates(ch, frame) /\ frame.n = ch.recv
AfterOpen(ch)            == [ch EXCEPT !.recv = @ + 1]

\* What the cable can hand to an end: anything it has carried, and what it can
\* seal itself if it has the keys.
Deliverable(ch) ==
  frames \union
  { [keys |-> ch.keys, dir |-> ch.in, n |-> n, body |-> NoBody] :
      n \in IF KnownToCable(ch.keys) THEN 0 .. MAX_COUNTER ELSE {} }

-----------------------------------------------------------------------------
Init ==
  /\ hostState = "idle" /\ hostSession = 0 /\ hostChannel = NoChannel
  /\ state = "ENDED" /\ session = 0 /\ channel = NoChannel /\ serving = NoBody
  /\ hellos = {} /\ helloReplies = {} /\ frames = {}
  /\ hostLog = << >> /\ deviceLog = << >> /\ hostGot = << >> /\ deviceGot = << >>

-----------------------------------------------------------------------------
(* The host. *)

HostConnects ==
  /\ hostSession < MaxSessions
  /\ hostSession' = hostSession + 1
  /\ hostState' = "hello" /\ hostChannel' = NoChannel /\ hostGot' = << >>
  /\ hellos' = hellos \union {HostKey(hostSession + 1)}
  /\ UNCHANGED <<deviceVars, helloReplies, frames, hostLog, deviceLog>>

\* handshake_initiator()
HostFinishes(devicePub) ==
  /\ hostState = "hello"
  /\ hostState' = "open"
  /\ hostChannel' = Initiator(devicePub, HostKey(hostSession))
  /\ UNCHANGED <<hostSession, hostGot, deviceVars, hellos, helloReplies, frames,
                 hostLog, deviceLog>>

HostSeals ==
  /\ hostState = "open" /\ CanSeal(hostChannel)
  /\ LET body == [by |-> "host", n |-> Len(hostLog)] IN
       /\ frames' = frames \union {Frame(hostChannel, body)}
       /\ hostLog' = Append(hostLog, Frame(hostChannel, body))
  /\ hostChannel' = AfterSeal(hostChannel)
  /\ UNCHANGED <<hostState, hostSession, hostGot, deviceVars, hellos, helloReplies,
                 deviceLog>>

HostTakes(frame) ==
  /\ hostState = "open"
  /\ IF Opens(hostChannel, frame)
     THEN /\ hostChannel' = AfterOpen(hostChannel)
          /\ hostGot' = Append(hostGot, frame.body)
          /\ UNCHANGED hostState
     ELSE hostState' = "idle" /\ UNCHANGED <<hostChannel, hostGot>>
  /\ UNCHANGED <<hostSession, deviceVars, hellos, helloReplies, frames, hostLog,
                 deviceLog>>

-----------------------------------------------------------------------------
(* The device. *)

Starts ==
  /\ state = "ENDED" /\ session < MaxSessions
  /\ session' = session + 1
  /\ state' = "AWAITING_HELLO" /\ deviceGot' = << >>
  /\ UNCHANGED <<channel, serving, hostVars, hellos, helloReplies, frames, hostLog,
                 deviceLog>>

\* stop(), called by _end() on any error and by the view.
End == state' = "ENDED" /\ channel' = NoChannel /\ serving' = NoBody

Leaves ==
  /\ state # "ENDED"
  /\ End
  /\ UNCHANGED <<session, deviceGot, hostVars, hellos, helloReplies, frames, hostLog,
                 deviceLog>>

\* _handle_hello() and handshake_responder()
TakesHello(hostPub) ==
  /\ state = "AWAITING_HELLO"
  /\ IF hostPub = NotAPoint
     THEN End /\ UNCHANGED helloReplies
     ELSE /\ channel' = Responder(hostPub, DeviceKey(session))
          /\ state' = "AWAITING_PAIRING"
          /\ helloReplies' = helloReplies \union {DeviceKey(session)}
          /\ UNCHANGED serving
  /\ UNCHANGED <<session, deviceGot, hostVars, hellos, frames, hostLog, deviceLog>>

\* Mutant: the answer to the pairing screen is not looked at.
UserCompares_Anyway ==
  /\ state = "AWAITING_PAIRING" /\ hostState = "open"
  /\ state' = "READY"
  /\ UNCHANGED <<channel, serving, session, deviceGot, hostVars, hellos, helloReplies,
                 frames, hostLog, deviceLog>>

\* complete_pairing(), with a user who says yes only to the digits the host shows.
UserCompares ==
  /\ state = "AWAITING_PAIRING" /\ hostState = "open"
  /\ IF Digits(channel.keys) = Digits(hostChannel.keys)
     THEN state' = "READY" /\ UNCHANGED <<channel, serving>>
     ELSE End
  /\ UNCHANGED <<session, deviceGot, hostVars, hellos, helloReplies, frames, hostLog,
                 deviceLog>>

\* _process() up to the reply
Takes(frame) ==
  /\ state = "READY" /\ serving = NoBody
  /\ IF Opens(channel, frame)
     THEN /\ channel' = AfterOpen(channel)
          /\ deviceGot' = Append(deviceGot, frame.body)
          /\ serving' = frame.body
          /\ UNCHANGED state
     ELSE End /\ UNCHANGED deviceGot
  /\ UNCHANGED <<session, hostVars, hellos, helloReplies, frames, hostLog, deviceLog>>

\* ... and the reply
Replies ==
  /\ state = "READY" /\ serving # NoBody
  /\ IF CanSeal(channel)
     THEN LET body == [by |-> "device", n |-> Len(deviceLog)] IN
            /\ frames' = frames \union {Frame(channel, body)}
            /\ deviceLog' = Append(deviceLog, Frame(channel, body))
            /\ channel' = AfterSeal(channel)
            /\ serving' = NoBody
            /\ UNCHANGED state
     ELSE End /\ UNCHANGED <<frames, deviceLog>>
  /\ UNCHANGED <<session, deviceGot, hostVars, hellos, helloReplies, hostLog>>

-----------------------------------------------------------------------------
HostStep ==
  \/ HostConnects
  \/ \E pub \in helloReplies \union {CableKey} : HostFinishes(pub)
  \/ HostSeals
  \/ hostState = "open" /\ \E frame \in Deliverable(hostChannel) : HostTakes(frame)

DeviceStep ==
  \/ Starts \/ Leaves
  \/ \E pub \in hellos \union {CableKey, NotAPoint} : TakesHello(pub)
  \/ UserCompares
  \/ state = "READY" /\ \E frame \in Deliverable(channel) : Takes(frame)
  \/ Replies

Next == HostStep \/ DeviceStep

Spec == Init /\ [][Next]_vars

-----------------------------------------------------------------------------
(* Properties. *)

KeyType     == [of : {"host", "device", "cable"}, n : Nat]
KeysType    == [shared : SUBSET KeyType, host : KeyType, device : KeyType]
DirType     == {"h2d", "d2h"}
ChannelType == [keys : KeysType, out : DirType, in : DirType, send : Nat, recv : Nat]
BodyType    == [by : {"host", "device"}, n : Nat]
FrameType   == [keys : KeysType, dir : DirType, n : 0 .. MAX_COUNTER, body : BodyType]

ASSUME NoChannelAssumption == NoChannel \notin ChannelType

TypeOK ==
  /\ hostState \in {"idle", "hello", "open"}
  /\ state \in {"AWAITING_HELLO", "AWAITING_PAIRING", "READY", "ENDED"}
  /\ hostSession \in Nat /\ session \in Nat
  /\ hostChannel \in ChannelType \union {NoChannel}
  /\ channel \in ChannelType \union {NoChannel}
  /\ hostState = "open" => hostChannel # NoChannel
  /\ state \in {"AWAITING_PAIRING", "READY"} <=> channel # NoChannel
  /\ serving \in BodyType \union {NoBody}
  /\ hellos \subseteq KeyType /\ helloReplies \subseteq KeyType
  /\ frames \subseteq FrameType
  /\ hostLog \in Seq(FrameType) /\ deviceLog \in Seq(FrameType)
  /\ hostGot \in Seq(BodyType \union {NoBody}) /\ deviceGot \in Seq(BodyType \union {NoBody})

\* The records a log has under some keys before its j-th entry.
UnderBefore(log, keys, j) == {k \in 1 .. (j - 1) : log[k].keys = keys}

\* What was heard first is what was sealed first under these keys, and so on.
HeardInOrder(got, keys, log) ==
  \A i \in DOMAIN got :
    \E j \in DOMAIN log :
      /\ log[j].keys = keys /\ log[j].body = got[i]
      /\ Cardinality(UnderBefore(log, keys, j)) = i - 1

\* What a paired device acts on is what the host sealed for it in this session:
\* from the first request on, in order, none twice and none of another session.
\* And the host gets the device's answers in order, none twice, unless it was the
\* cable it shook hands with (crypto.py open; session.py _process).
EachHearsTheOther ==
  /\ state = "READY" => HeardInOrder(deviceGot, channel.keys, hostLog)
  /\ hostState = "open" /\ ~KnownToCable(hostChannel.keys)
       => HeardInOrder(hostGot, hostChannel.keys, deviceLog)

\* A cable that puts a key of its own into either handshake is seen in the digits:
\* a paired channel has keys the cable does not know, of a host and of this
\* session of the device (crypto.py _derive).
PairingExcludesTheCable ==
  state = "READY" =>
    /\ ~KnownToCable(channel.keys)
    /\ \E k \in 1 .. hostSession : channel.keys.host = HostKey(k)
    /\ channel.keys.device = DeviceKey(session)

\* No keystream is used twice: no two records are sealed under the same keys in
\* the same direction with the same counter, over all sessions (crypto.py
\* next_nonce: "the one failure this construction cannot survive").
NoncesAreUnique ==
  \A a, b \in frames :
    a.keys = b.keys /\ a.dir = b.dir /\ a.n = b.n => a = b

=============================================================================
