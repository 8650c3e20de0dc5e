------------------------- MODULE SecureChannelProofs -------------------------
(***************************************************************************)
(* Three facts about every session, however many there are and however     *)
(* long: a pairing leaves the cable out, no record counter is used twice,  *)
(* and each end hears what the other has sealed, from the first record on  *)
(* and in order.  The first two follow from what each end knows of its own *)
(* channel: its own key of the present session is in it, in its own place  *)
(* of the transcript (IInv).  The third needs the logs as well: a record's *)
(* number is its place among the records of its keys, and an end's counter *)
(* is how many of them it has opened (Hears).                              *)
(***************************************************************************)
EXTENDS SecureChannel, FiniteSetTheorems, SequenceTheorems, TLAPS

\* A channel in the direction given, whose next record has a number.
IsChannel(ch, out, in) ==
  /\ ch = [keys |-> ch.keys, out |-> out, in |-> in, send |-> ch.send, recv |-> ch.recv]
  /\ ch.send \in Nat

HostEnd ==
  /\ hostSession \in Nat
  /\ hostState # "idle" => hostSession # 0
  /\ hostState = "open" =>
       /\ IsChannel(hostChannel, "h2d", "d2h")
       /\ \E pub : hostChannel.keys = Derive(HostKey(hostSession), pub, HostKey(hostSession), pub)

DeviceEnd ==
  /\ session \in Nat
  /\ state \in {"AWAITING_PAIRING", "READY"} =>
       /\ IsChannel(channel, "d2h", "h2d")
       /\ \E pub : channel.keys = Derive(DeviceKey(session), pub, pub, DeviceKey(session))

\* What the host has sealed has a key of its own in it; with that of the present
\* session nothing before the channel is there, and below its counter after.
HostSealed(f) ==
  \E k \in Nat :
    /\ k <= hostSession /\ f.keys.host = HostKey(k)
    /\ k = hostSession => hostState # "hello" /\ (hostState = "open" => f.n < hostChannel.send)

DeviceSealed(f) ==
  \E k \in Nat :
    /\ k <= session /\ f.keys.device = DeviceKey(k)
    /\ k = session => state # "AWAITING_HELLO"
                   /\ (state \in {"AWAITING_PAIRING", "READY"} => f.n < channel.send)

Sealed ==
  \A f \in frames :
    /\ f.n \in Nat /\ f.dir \in {"h2d", "d2h"}
    /\ f.dir = "h2d" => HostSealed(f)
    /\ f.dir = "d2h" => DeviceSealed(f)

IInv == HostEnd /\ DeviceEnd /\ Sealed /\ PairingExcludesTheCable /\ NoncesAreUnique

-----------------------------------------------------------------------------
(* Pairing. *)

\* Equal transcripts have the key of each end where it belongs, and no other.
LEMMA EqualDigitsExcludeTheCable ==
  ASSUME NEW k, NEW n, NEW hostPub, NEW devicePub,
         Derive(HostKey(k), devicePub, HostKey(k), devicePub) = Derive(DeviceKey(n), hostPub, hostPub, DeviceKey(n))
  PROVE  hostPub = HostKey(k) /\ devicePub = DeviceKey(n) /\ CableKey \notin {HostKey(k), DeviceKey(n)}
  BY DEF Derive, HostKey, DeviceKey, CableKey

-----------------------------------------------------------------------------
(* The host's steps. *)

\* They touch the device's end in nothing.
LEMMA HostInv ==
  ASSUME IInv, HostStep PROVE IInv'
<1>1. UNCHANGED <<state, session, channel>>
  BY DEF HostStep, HostConnects, HostFinishes, HostSeals, HostTakes, deviceVars
<1>2. DeviceEnd'
  BY <1>1 DEF IInv, DeviceEnd
<1>3. \A f : DeviceSealed(f) => DeviceSealed(f)'
  BY <1>1 DEF DeviceSealed
<1>4. CASE HostConnects
  <2>1. hostSession' = hostSession + 1 /\ hostState' = "hello" /\ frames' = frames
    BY <1>4 DEF HostConnects
  <2>2. HostEnd'
    BY <2>1 DEF IInv, HostEnd
  <2>3. \A f : HostSealed(f) => HostSealed(f)'
    BY <2>1 DEF HostSealed, IInv, HostEnd
  <2>4. Sealed'
    BY <2>1, <2>3, <1>3 DEF IInv, Sealed
  <2>5. PairingExcludesTheCable'
    BY <2>1, <1>1 DEF IInv, PairingExcludesTheCable, HostEnd
  <2>6. NoncesAreUnique'
    BY <2>1 DEF IInv, NoncesAreUnique
  <2> QED BY <1>2, <2>2, <2>4, <2>5, <2>6 DEF IInv
<1>5. ASSUME NEW pub, HostFinishes(pub) PROVE IInv'
  <2>1. /\ hostState = "hello" /\ hostState' = "open" /\ UNCHANGED <<hostSession, frames>>
        /\ hostChannel' = Initiator(pub, HostKey(hostSession))
    BY <1>5 DEF HostFinishes
  <2>2. HostEnd'
    BY <2>1 DEF IInv, HostEnd, Initiator, NewChannel, IsChannel
  <2>3. \A f : HostSealed(f) => HostSealed(f)'
    BY <2>1 DEF HostSealed
  <2>4. Sealed'
    BY <2>1, <2>3, <1>3 DEF IInv, Sealed
  <2>5. PairingExcludesTheCable' /\ NoncesAreUnique'
    BY <2>1, <1>1 DEF IInv, PairingExcludesTheCable, NoncesAreUnique
  <2> QED BY <1>2, <2>2, <2>4, <2>5 DEF IInv
<1>6. CASE HostSeals
  <2> PICK new : new = Frame(hostChannel, [by |-> "host", n |-> Len(hostLog)])
    OBVIOUS
  <2>1. /\ hostState = "open" /\ UNCHANGED <<hostState, hostSession>>
        /\ frames' = frames \union {new} /\ hostChannel' = AfterSeal(hostChannel)
    BY <1>6 DEF HostSeals
  <2>2. /\ IsChannel(hostChannel, "h2d", "d2h") /\ hostChannel.keys.host = HostKey(hostSession)
        /\ \E pub : hostChannel.keys = Derive(HostKey(hostSession), pub, HostKey(hostSession), pub)
    <3>1. PICK pub : hostChannel.keys = Derive(HostKey(hostSession), pub, HostKey(hostSession), pub)
      BY <2>1 DEF IInv, HostEnd
    <3>2. hostChannel.keys.host = HostKey(hostSession)
      BY <3>1 DEF Derive
    <3> QED BY <2>1, <3>1, <3>2 DEF IInv, HostEnd
  <2>3. IsChannel(hostChannel', "h2d", "d2h") /\ hostChannel'.keys = hostChannel.keys
        /\ hostChannel'.send = hostChannel.send + 1
    BY <2>1, <2>2 DEF IsChannel, AfterSeal
  <2>4. new.keys = hostChannel.keys /\ new.dir = "h2d" /\ new.n = hostChannel.send /\ new.n \in Nat
    BY <2>2 DEF Frame, IsChannel
  <2>5. HostEnd'
    BY <2>1, <2>2, <2>3 DEF IInv, HostEnd
  <2>6. \A f \in frames : HostSealed(f) => HostSealed(f)'
    <3> SUFFICES ASSUME NEW f \in frames, HostSealed(f) PROVE HostSealed(f)'
      OBVIOUS
    <3>1. PICK k \in Nat : /\ k <= hostSession /\ f.keys.host = HostKey(k)
                           /\ k = hostSession => f.n < hostChannel.send
      BY <2>1 DEF HostSealed
    <3>2. f.n \in Nat /\ hostChannel.send \in Nat
      BY <2>2 DEF IInv, Sealed, IsChannel
    <3>3. k = hostSession => f.n < hostChannel'.send
      BY <2>3, <3>1, <3>2
    <3> QED BY <2>1, <3>1, <3>3 DEF HostSealed
  <2>7. HostSealed(new)'
    <3>1. new.keys.host = HostKey(hostSession)' /\ new.n < hostChannel'.send /\ hostSession' \in Nat
      BY <2>1, <2>2, <2>3, <2>4 DEF IInv, HostEnd
    <3> QED BY <2>1, <3>1 DEF HostSealed
  <2>8. Sealed'
    <3> SUFFICES ASSUME NEW f \in frames'
                 PROVE  /\ f.n \in Nat /\ f.dir \in {"h2d", "d2h"}
                        /\ f.dir = "h2d" => HostSealed(f)'
                        /\ f.dir = "d2h" => DeviceSealed(f)'
      BY DEF Sealed
    <3>1. CASE f = new
      BY <3>1, <2>4, <2>7
    <3>2. CASE f \in frames
      BY <3>2, <2>6, <1>3 DEF IInv, Sealed
    <3> QED BY <2>1, <3>1, <3>2
  <2>9. \A f \in frames : f.keys = new.keys /\ f.dir = new.dir => f.n # new.n
    <3> SUFFICES ASSUME NEW f \in frames, f.keys = new.keys, f.dir = new.dir PROVE f.n # new.n
      OBVIOUS
    <3>1. f.n \in Nat /\ HostSealed(f)
      BY <2>4 DEF IInv, Sealed
    <3>2. PICK k \in Nat : f.keys.host = HostKey(k) /\ (k = hostSession => f.n < hostChannel.send)
      BY <3>1, <2>1 DEF HostSealed
    <3>3. HostKey(k) = HostKey(hostSession)
      BY <3>2, <2>2, <2>4
    <3>4. k = hostSession
      BY <3>3 DEF HostKey
    <3> QED BY <3>1, <3>2, <3>4, <2>4
  <2>10. NoncesAreUnique'
    BY <2>1, <2>9 DEF IInv, NoncesAreUnique
  <2>11. PairingExcludesTheCable'
    BY <2>1, <1>1 DEF IInv, PairingExcludesTheCable
  <2> QED BY <1>2, <2>5, <2>8, <2>10, <2>11 DEF IInv
<1>7. ASSUME NEW frame, HostTakes(frame) PROVE IInv'
  <2>1. /\ hostState = "open" /\ UNCHANGED <<hostSession, frames>>
        /\ \/ hostState' = "open" /\ hostChannel' = AfterOpen(hostChannel)
           \/ hostState' = "idle" /\ hostChannel' = hostChannel
    BY <1>7 DEF HostTakes
  <2>2. HostEnd' /\ hostChannel'.send = hostChannel.send
    BY <2>1 DEF IInv, HostEnd, IsChannel, AfterOpen
  <2>3. \A f : HostSealed(f) => HostSealed(f)'
    BY <2>1, <2>2 DEF HostSealed
  <2>4. Sealed'
    BY <2>1, <2>3, <1>3 DEF IInv, Sealed
  <2>5. PairingExcludesTheCable' /\ NoncesAreUnique'
    BY <2>1, <1>1 DEF IInv, PairingExcludesTheCable, NoncesAreUnique
  <2> QED BY <1>2, <2>2, <2>4, <2>5 DEF IInv
<1> QED BY <1>4, <1>5, <1>6, <1>7 DEF HostStep

-----------------------------------------------------------------------------
(* The device's steps. *)

\* Its state alone, whatever it does to the session that is over.
LEMMA DeviceInv ==
  ASSUME IInv, DeviceStep PROVE IInv'
<1>1. UNCHANGED <<hostState, hostSession, hostChannel>>
  BY DEF DeviceStep, Starts, Leaves, TakesHello, UserCompares, Takes, Replies, hostVars
<1>2. HostEnd' /\ \A f : HostSealed(f) => HostSealed(f)'
  BY <1>1 DEF IInv, HostEnd, HostSealed
<1>3. ASSUME UNCHANGED <<session, frames>>, state' = "ENDED" PROVE IInv'
  <2>1. \A f : DeviceSealed(f) => DeviceSealed(f)'
    BY <1>3 DEF DeviceSealed
  <2>2. Sealed'
    BY <1>2, <1>3, <2>1 DEF IInv, Sealed
  <2>3. DeviceEnd' /\ PairingExcludesTheCable' /\ NoncesAreUnique'
    BY <1>3 DEF IInv, DeviceEnd, PairingExcludesTheCable, NoncesAreUnique
  <2> QED BY <1>2, <2>2, <2>3 DEF IInv
<1>4. CASE Starts
  <2>1. session' = session + 1 /\ state' = "AWAITING_HELLO" /\ frames' = frames
    BY <1>4 DEF Starts
  <2>2. \A f : DeviceSealed(f) => DeviceSealed(f)'
    BY <2>1 DEF DeviceSealed, IInv, DeviceEnd
  <2>3. Sealed'
    BY <1>2, <2>1, <2>2 DEF IInv, Sealed
  <2>4. DeviceEnd' /\ PairingExcludesTheCable' /\ NoncesAreUnique'
    BY <2>1 DEF IInv, DeviceEnd, PairingExcludesTheCable, NoncesAreUnique
  <2> QED BY <1>2, <2>3, <2>4 DEF IInv
<1>5. CASE Leaves
  BY <1>3, <1>5 DEF Leaves, End
<1>6. ASSUME NEW hostPub, TakesHello(hostPub) PROVE IInv'
  <2>1. CASE hostPub = NotAPoint
    BY <1>3, <1>6, <2>1 DEF TakesHello, End
  <2>2. CASE hostPub # NotAPoint
    <3>1. /\ state = "AWAITING_HELLO" /\ state' = "AWAITING_PAIRING" /\ UNCHANGED <<session,
                                                                                    frames>>
          /\ channel' = Responder(hostPub, DeviceKey(session))
      BY <1>6, <2>2 DEF TakesHello
    <3>2. DeviceEnd'
      BY <3>1 DEF IInv, DeviceEnd, Responder, NewChannel, IsChannel
    <3>3. \A f : DeviceSealed(f) => DeviceSealed(f)'
      BY <3>1 DEF DeviceSealed
    <3>4. Sealed'
      BY <1>2, <3>1, <3>3 DEF IInv, Sealed
    <3>5. PairingExcludesTheCable' /\ NoncesAreUnique'
      BY <3>1 DEF IInv, PairingExcludesTheCable, NoncesAreUnique
    <3> QED BY <1>2, <3>2, <3>4, <3>5 DEF IInv
  <2> QED BY <2>1, <2>2
<1>7. CASE UserCompares
  <2>1. CASE Digits(channel.keys) # Digits(hostChannel.keys)
    BY <1>3, <1>7, <2>1 DEF UserCompares, End
  <2>2. CASE Digits(channel.keys) = Digits(hostChannel.keys)
    <3>1. /\ state = "AWAITING_PAIRING" /\ hostState = "open" /\ state' = "READY"
          /\ channel.keys = hostChannel.keys /\ UNCHANGED <<session, frames, channel>>
      BY <1>7, <2>2 DEF UserCompares, Digits
    <3>2. PICK hostPub : channel.keys = Derive(DeviceKey(session), hostPub, hostPub, DeviceKey(session))
      BY <3>1 DEF IInv, DeviceEnd
    <3>3. PICK devicePub : hostChannel.keys = Derive(HostKey(hostSession), devicePub, HostKey(hostSession), devicePub)
      BY <3>1 DEF IInv, HostEnd
    <3>4. /\ hostPub = HostKey(hostSession)
          /\ CableKey \notin {HostKey(hostSession), DeviceKey(session)}
      BY <3>1, <3>2, <3>3, EqualDigitsExcludeTheCable
    <3>5. hostSession \in 1 .. hostSession
      BY <3>1 DEF IInv, HostEnd
    <3>6. PairingExcludesTheCable'
      BY <1>1, <3>1, <3>2, <3>4, <3>5
         DEF PairingExcludesTheCable, KnownToCable, Derive, IInv, HostEnd
    <3>7. \A f : DeviceSealed(f) => DeviceSealed(f)'
      BY <3>1 DEF DeviceSealed
    <3>8. Sealed'
      BY <1>2, <3>1, <3>7 DEF IInv, Sealed
    <3>9. DeviceEnd' /\ NoncesAreUnique'
      BY <3>1 DEF IInv, DeviceEnd, NoncesAreUnique
    <3> QED BY <1>2, <3>6, <3>8, <3>9 DEF IInv
  <2> QED BY <2>1, <2>2
<1>8. ASSUME NEW frame, Takes(frame) PROVE IInv'
  <2>1. CASE ~Opens(channel, frame)
    BY <1>3, <1>8, <2>1 DEF Takes, End
  <2>2. CASE Opens(channel, frame)
    <3>1. /\ state = "READY" /\ state' = "READY" /\ UNCHANGED <<session, frames>>
          /\ channel' = AfterOpen(channel)
      BY <1>8, <2>2 DEF Takes
    <3>2. IsChannel(channel, "d2h", "h2d")
      BY <3>1 DEF IInv, DeviceEnd
    <3>3. /\ IsChannel(channel', "d2h", "h2d")
          /\ channel'.keys = channel.keys /\ channel'.send = channel.send
      BY <3>1, <3>2 DEF IsChannel, AfterOpen
    <3>4. \A f : DeviceSealed(f) => DeviceSealed(f)'
      BY <3>1, <3>3 DEF DeviceSealed
    <3>5. Sealed'
      BY <1>2, <3>1, <3>4 DEF IInv, Sealed
    <3>6. DeviceEnd'
      BY <3>1, <3>3 DEF IInv, DeviceEnd
    <3>7. PairingExcludesTheCable' /\ NoncesAreUnique'
      BY <1>1, <3>1, <3>3 DEF IInv, PairingExcludesTheCable, NoncesAreUnique
    <3> QED BY <1>2, <3>5, <3>6, <3>7 DEF IInv
  <2> QED BY <2>1, <2>2
<1>9. CASE Replies
  <2>1. CASE ~CanSeal(channel)
    BY <1>3, <1>9, <2>1 DEF Replies, End
  <2>2. CASE CanSeal(channel)
    <3> PICK new : new = Frame(channel, [by |-> "device", n |-> Len(deviceLog)])
      OBVIOUS
    <3>1. /\ state = "READY" /\ state' = "READY" /\ UNCHANGED session
          /\ frames' = frames \union {new} /\ channel' = AfterSeal(channel)
      BY <1>9, <2>2 DEF Replies
    <3>2. PICK pub : channel.keys = Derive(DeviceKey(session), pub, pub, DeviceKey(session))
      BY <3>1 DEF IInv, DeviceEnd
    <3>3. channel.keys.device = DeviceKey(session)
      BY <3>2 DEF Derive
    <3>4. IsChannel(channel, "d2h", "h2d")
      BY <3>1 DEF IInv, DeviceEnd
    <3>5. /\ IsChannel(channel', "d2h", "h2d")
          /\ channel'.keys = channel.keys /\ channel'.send = channel.send + 1
      BY <3>1, <3>4 DEF IsChannel, AfterSeal
    <3>6. new.keys = channel.keys /\ new.dir = "d2h" /\ new.n = channel.send /\ new.n \in Nat
      BY <3>4 DEF Frame, IsChannel
    <3>7. DeviceEnd'
      BY <3>1, <3>2, <3>5 DEF IInv, DeviceEnd
    <3>8. ASSUME NEW f \in frames, DeviceSealed(f) PROVE DeviceSealed(f)'
      <4>1. PICK k \in Nat : /\ k <= session /\ f.keys.device = DeviceKey(k)
                             /\ k = session => f.n < channel.send
        BY <3>1, <3>8 DEF DeviceSealed
      <4>2. f.n \in Nat /\ channel.send \in Nat
        BY <3>4 DEF IInv, Sealed, IsChannel
      <4>3. k = session => f.n < channel'.send
        BY <3>5, <4>1, <4>2
      <4> QED BY <3>1, <4>1, <4>3 DEF DeviceSealed
    <3>9. DeviceSealed(new)'
      <4>1. new.keys.device = DeviceKey(session)' /\ new.n < channel'.send /\ session' \in Nat
        BY <3>1, <3>3, <3>5, <3>6 DEF IInv, DeviceEnd
      <4> QED BY <3>1, <4>1 DEF DeviceSealed
    <3>10. Sealed'
      <4> SUFFICES ASSUME NEW f \in frames'
                   PROVE  /\ f.n \in Nat /\ f.dir \in {"h2d", "d2h"}
                          /\ f.dir = "h2d" => HostSealed(f)'
                          /\ f.dir = "d2h" => DeviceSealed(f)'
        BY DEF Sealed
      <4>1. CASE f = new
        BY <4>1, <3>6, <3>9
      <4>2. CASE f \in frames
        BY <4>2, <3>8, <1>2 DEF IInv, Sealed
      <4> QED BY <3>1, <4>1, <4>2
    <3>11. \A f \in frames : f.keys = new.keys /\ f.dir = new.dir => f.n # new.n
      <4> SUFFICES ASSUME NEW f \in frames, f.keys = new.keys, f.dir = new.dir PROVE f.n # new.n
        OBVIOUS
      <4>1. f.n \in Nat /\ DeviceSealed(f)
        BY <3>6 DEF IInv, Sealed
      <4>2. PICK k \in Nat : f.keys.device = DeviceKey(k) /\ (k = session => f.n < channel.send)
        BY <4>1, <3>1 DEF DeviceSealed
      <4>3. DeviceKey(k) = DeviceKey(session)
        BY <4>2, <3>3, <3>6
      <4>4. k = session
        BY <4>3 DEF DeviceKey
      <4> QED BY <4>1, <4>2, <4>4, <3>6
    <3>12. NoncesAreUnique'
      BY <3>1, <3>11 DEF IInv, NoncesAreUnique
    <3>13. PairingExcludesTheCable'
      BY <1>1, <3>1, <3>5 DEF IInv, PairingExcludesTheCable
    <3> QED BY <1>2, <3>7, <3>10, <3>12, <3>13 DEF IInv
  <2> QED BY <2>1, <2>2
<1> QED BY <1>4, <1>5, <1>6, <1>7, <1>8, <1>9 DEF DeviceStep

-----------------------------------------------------------------------------
\* At the start there is no channel and nothing was sealed.
LEMMA InitInv ==
  ASSUME Init PROVE IInv
  BY DEF Init, IInv, HostEnd, DeviceEnd, Sealed, PairingExcludesTheCable, NoncesAreUnique

\* Every step of either end keeps the invariant.
LEMMA NextInv ==
  ASSUME IInv, [Next]_vars PROVE IInv'
<1>1. CASE UNCHANGED vars
  BY <1>1
     DEF vars, hostVars, deviceVars, IInv, HostEnd, DeviceEnd, IsChannel, Sealed, HostSealed,
         DeviceSealed,
    PairingExcludesTheCable, NoncesAreUnique
<1> QED BY <1>1, HostInv, DeviceInv DEF Next

-----------------------------------------------------------------------------
(* What is heard.  The cable has what the two ends have sealed, each record  *)
(* numbered by its place under its keys; and an end has opened as many       *)
(* records as its counter says.                                              *)

\* How many records a log has under some keys.
Count(log, keys) == Cardinality(UnderBefore(log, keys, Len(log) + 1))

Numbered(log) == \A j \in DOMAIN log : Cardinality(UnderBefore(log, log[j].keys, j)) = log[j].n

Logged ==
  /\ \A f \in frames : f.dir = "h2d" => \E j \in DOMAIN hostLog : hostLog[j] = f
  /\ \A f \in frames : f.dir = "d2h" => \E j \in DOMAIN deviceLog : deviceLog[j] = f
  /\ \A j \in DOMAIN hostLog : hostLog[j] \in frames /\ hostLog[j].dir = "h2d"
  /\ \A j \in DOMAIN deviceLog : deviceLog[j] \in frames /\ deviceLog[j].dir = "d2h"

HostHears ==
  /\ hostState = "hello" => hostGot = << >>
  /\ hostState = "open" =>
       /\ Count(hostLog, hostChannel.keys) = hostChannel.send
       /\ Len(hostGot) = hostChannel.recv
       /\ ~KnownToCable(hostChannel.keys) => HeardInOrder(hostGot, hostChannel.keys, deviceLog)

DeviceHears ==
  /\ state = "AWAITING_HELLO" => deviceGot = << >>
  /\ state \in {"AWAITING_PAIRING", "READY"} =>
       /\ Count(deviceLog, channel.keys) = channel.send
       /\ Len(deviceGot) = channel.recv
       /\ HeardInOrder(deviceGot, channel.keys, hostLog)

Hears == Logged /\ Numbered(hostLog) /\ Numbered(deviceLog) /\ HostHears /\ DeviceHears

-----------------------------------------------------------------------------
(* Counting the records of a log. *)

LEMMA BeforeIsFinite ==
  ASSUME NEW log, NEW keys, NEW j \in Nat
  PROVE  /\ IsFiniteSet(UnderBefore(log, keys, j))
         /\ Cardinality(UnderBefore(log, keys, j)) \in Nat
<1>1. IsFiniteSet(1 .. (j - 1)) /\ UnderBefore(log, keys, j) \in SUBSET (1 .. (j - 1))
  BY FS_Interval DEF UnderBefore
<1> QED BY <1>1, FS_Subset, FS_CardinalityType

\* A record more changes nothing before it ...
LEMMA BeforeIsKept ==
  ASSUME NEW S, NEW log \in Seq(S), NEW f \in S, NEW keys, NEW j \in 1 .. Len(log) + 1
  PROVE  UnderBefore(Append(log, f), keys, j) = UnderBefore(log, keys, j)
<1>1. \A k \in 1 .. (j - 1) : Append(log, f)[k] = log[k]
  BY AppendProperties
<1> QED BY <1>1 DEF UnderBefore

\* ... and is one more under its own keys.
LEMMA CountMore ==
  ASSUME NEW S, NEW log \in Seq(S), NEW f \in S, NEW keys
  PROVE  Count(Append(log, f), keys) = IF f.keys = keys THEN Count(log, keys) + 1 ELSE Count(log, keys)
<1> DEFINE n == Len(log) + 1
<1>1. n \in Nat /\ Len(Append(log, f)) = n /\ Append(log, f)[n] = f
  BY AppendProperties
<1>2. \A k \in 1 .. (n - 1) : Append(log, f)[k] = log[k]
  BY AppendProperties
<1>3. UnderBefore(Append(log, f), keys, n + 1) =
        IF f.keys = keys THEN UnderBefore(log, keys, n) \union {n} ELSE UnderBefore(log, keys, n)
  BY <1>1, <1>2 DEF UnderBefore
<1>4. n \notin UnderBefore(log, keys, n)
  BY <1>1 DEF UnderBefore
<1>5. IsFiniteSet(UnderBefore(log, keys, n))
  BY <1>1, BeforeIsFinite
<1>6. Cardinality(UnderBefore(log, keys, n) \union {n}) = Cardinality(UnderBefore(log, keys, n)) + 1
  BY <1>4, <1>5, FS_AddElement
<1> QED BY <1>1, <1>3, <1>6 DEF Count

\* A record with the next number of its keys keeps a log numbered.
LEMMA AppendNumbered ==
  ASSUME NEW S, NEW log \in Seq(S), NEW f \in S, Numbered(log), Count(log, f.keys) = f.n
  PROVE  Numbered(Append(log, f))
<1> SUFFICES ASSUME NEW j \in DOMAIN Append(log, f)
             PROVE  Cardinality(UnderBefore(Append(log, f), Append(log, f)[j].keys, j)) = Append(log, f)[j].n
  BY DEF Numbered
<1>1. j \in 1 .. Len(log) + 1
  BY AppendProperties
<1>2. UnderBefore(Append(log, f), Append(log, f)[j].keys, j) = UnderBefore(log, Append(log, f)[j].keys, j)
  BY <1>1, BeforeIsKept
<1>3. CASE j = Len(log) + 1
  <2>1. Append(log, f)[j] = f
    BY <1>3, AppendProperties
  <2> QED BY <1>2, <1>3, <2>1 DEF Count
<1>4. CASE j \in DOMAIN log
  <2>1. Append(log, f)[j] = log[j]
    BY <1>4, AppendProperties
  <2> QED BY <1>2, <1>4, <2>1 DEF Numbered
<1> QED BY <1>1, <1>3, <1>4

\* What was heard in order still is when more has been sealed ...
LEMMA HeardStays ==
  ASSUME NEW S, NEW log \in Seq(S), NEW f \in S, NEW got, NEW keys, HeardInOrder(got, keys, log)
  PROVE  HeardInOrder(got, keys, Append(log, f))
<1> SUFFICES ASSUME NEW i \in DOMAIN got
             PROVE  \E j \in DOMAIN Append(log, f) :
                      /\ Append(log, f)[j].keys = keys /\ Append(log, f)[j].body = got[i]
                      /\ Cardinality(UnderBefore(Append(log, f), keys, j)) = i - 1
  BY DEF HeardInOrder
<1>1. PICK j \in DOMAIN log : /\ log[j].keys = keys /\ log[j].body = got[i]
                              /\ Cardinality(UnderBefore(log, keys, j)) = i - 1
  BY DEF HeardInOrder
<1>2. j \in DOMAIN Append(log, f) /\ Append(log, f)[j] = log[j] /\ j \in 1 .. Len(log) + 1
  BY AppendProperties
<1>3. UnderBefore(Append(log, f), keys, j) = UnderBefore(log, keys, j)
  BY <1>2, BeforeIsKept
<1> QED BY <1>1, <1>2, <1>3

\* ... and so is the record with the next number.
LEMMA HeardNext ==
  ASSUME NEW B, NEW got \in Seq(B), NEW log, NEW keys, HeardInOrder(got, keys, log), Numbered(log),
         NEW j \in DOMAIN log, log[j].keys = keys, log[j].n = Len(got), log[j].body \in B
  PROVE  HeardInOrder(Append(got, log[j].body), keys, log)
<1> DEFINE more == Append(got, log[j].body)
<1> SUFFICES ASSUME NEW i \in DOMAIN more
             PROVE  \E k \in DOMAIN log : /\ log[k].keys = keys /\ log[k].body = more[i]
                                          /\ Cardinality(UnderBefore(log, keys, k)) = i - 1
  BY DEF HeardInOrder
<1>1. CASE i = Len(got) + 1
  <2>1. more[i] = log[j].body
    BY <1>1, AppendProperties
  <2>2. Cardinality(UnderBefore(log, keys, j)) = i - 1
    BY <1>1 DEF Numbered
  <2> QED BY <2>1, <2>2
<1>2. CASE i \in DOMAIN got
  <2>1. more[i] = got[i]
    BY <1>2, AppendProperties
  <2> HIDE DEF more
  <2> QED BY <1>2, <2>1 DEF HeardInOrder
<1>3. i \in 1 .. Len(got) + 1
  BY AppendProperties
<1> QED BY <1>1, <1>2, <1>3

\* Under keys no record has, none is counted.
LEMMA CountNone ==
  ASSUME NEW log, NEW keys, \A k \in 1 .. Len(log) : log[k].keys # keys
  PROVE  Len(log) \in Nat => Count(log, keys) = 0
<1> SUFFICES ASSUME Len(log) \in Nat PROVE Count(log, keys) = 0
  OBVIOUS
<1>1. UnderBefore(log, keys, Len(log) + 1) = {}
  BY DEF UnderBefore
<1> QED BY <1>1, FS_EmptySet DEF Count

-----------------------------------------------------------------------------
(* Types. *)

LEMMA KeyTypes ==
  /\ CableKey \in KeyType
  /\ \A k \in Nat : HostKey(k) \in KeyType /\ DeviceKey(k) \in KeyType
  BY DEF CableKey, HostKey, DeviceKey, KeyType

LEMMA ChannelTypes ==
  /\ \A a, b \in KeyType : Initiator(a, b) \in ChannelType /\ Responder(a, b) \in ChannelType
  /\ \A ch \in ChannelType : AfterSeal(ch) \in ChannelType /\ AfterOpen(ch) \in ChannelType
  /\ \A ch \in ChannelType, body \in BodyType : CanSeal(ch) => Frame(ch, body) \in FrameType
<1>1. \A a, b \in KeyType : Derive(a, b, b, a) \in KeysType /\ Derive(a, b, a, b) \in KeysType
  BY DEF Derive, KeysType
<1>2. \A a, b \in KeyType : Initiator(a, b) \in ChannelType /\ Responder(a, b) \in ChannelType
  BY <1>1, ChannelAssumption
     DEF Initiator, Responder, NewChannel, Derive, KeysType, ChannelType, DirType
<1>3. \A ch \in ChannelType : AfterSeal(ch) \in ChannelType /\ AfterOpen(ch) \in ChannelType
  BY DEF AfterSeal, AfterOpen, ChannelType
<1>4. \A ch \in ChannelType, body \in BodyType : CanSeal(ch) => Frame(ch, body) \in FrameType
  BY ChannelAssumption DEF CanSeal, Frame, ChannelType, FrameType
<1> QED BY <1>2, <1>3, <1>4

\* An end is handed frames of the type, or one the cable sealed itself.
LEMMA DeliverableBodies ==
  ASSUME TypeOK, NEW ch, NEW frame \in Deliverable(ch)
  PROVE  frame.body \in BodyType \union {NoBody}
  BY DEF TypeOK, Deliverable, FrameType

LEMMA HostTypes ==
  ASSUME TypeOK, HostStep PROVE TypeOK'
<1>1. UNCHANGED <<state, session, channel, serving, deviceGot>>
  BY DEF HostStep, HostConnects, HostFinishes, HostSeals, HostTakes, deviceVars
<1>2. CASE HostConnects
  BY <1>1, <1>2, KeyTypes DEF HostConnects, TypeOK
<1>3. ASSUME NEW pub \in helloReplies \union {CableKey}, HostFinishes(pub) PROVE TypeOK'
  <2>1. hostChannel' \in ChannelType
    BY <1>3, KeyTypes, ChannelTypes DEF HostFinishes, TypeOK
  <2> QED BY <1>1, <1>3, <2>1, NoChannelAssumption DEF HostFinishes, TypeOK
<1>4. CASE HostSeals
  <2> PICK body : body = [by |-> "host", n |-> Len(hostLog)]
    OBVIOUS
  <2>1. body \in BodyType /\ hostChannel \in ChannelType
    BY <1>4 DEF HostSeals, TypeOK, BodyType
  <2>2. Frame(hostChannel, body) \in FrameType /\ hostChannel' \in ChannelType
    BY <1>4, <2>1, ChannelTypes DEF HostSeals
  <2>3. /\ frames' = frames \union {Frame(hostChannel, body)}
        /\ hostLog' = Append(hostLog, Frame(hostChannel, body))
        /\ UNCHANGED <<hostState, hostSession, hostGot, hellos, helloReplies, deviceLog>>
    BY <1>4 DEF HostSeals
  <2>4. hostLog' \in Seq(FrameType)
    BY <2>2, <2>3, AppendProperties DEF TypeOK
  <2> QED BY <1>1, <2>2, <2>3, <2>4, NoChannelAssumption DEF TypeOK
<1>5. ASSUME hostState = "open", NEW frame \in Deliverable(hostChannel), HostTakes(frame) PROVE TypeOK'
  <2>1. frame.body \in BodyType \union {NoBody} /\ hostChannel \in ChannelType
    BY <1>5, DeliverableBodies DEF TypeOK
  <2>2. CASE Opens(hostChannel, frame)
    <3>1. /\ hostChannel' = AfterOpen(hostChannel) /\ hostGot' = Append(hostGot, frame.body)
          /\ UNCHANGED <<hostState, hostSession, hellos, helloReplies, frames, hostLog,
                         deviceLog>>
      BY <1>5, <2>2 DEF HostTakes
    <3>2. hostGot \in Seq(BodyType \union {NoBody})
      BY DEF TypeOK
    <3>3. hostGot' \in Seq(BodyType \union {NoBody})
      BY <2>1, <3>1, <3>2, AppendProperties
    <3>4. hostChannel' \in ChannelType
      BY <2>1, <3>1, ChannelTypes
    <3> QED BY <1>1, <3>1, <3>3, <3>4, NoChannelAssumption DEF TypeOK
  <2>3. CASE ~Opens(hostChannel, frame)
    BY <1>1, <1>5, <2>3 DEF HostTakes, TypeOK
  <2> QED BY <2>2, <2>3
<1> QED BY <1>2, <1>3, <1>4, <1>5 DEF HostStep

LEMMA DeviceTypes ==
  ASSUME TypeOK, DeviceStep PROVE TypeOK'
<1>1. UNCHANGED <<hostState, hostSession, hostChannel, hostGot, hellos, hostLog>>
  BY DEF DeviceStep, Starts, Leaves, TakesHello, UserCompares, Takes, Replies, hostVars
<1>2. ASSUME End, UNCHANGED <<session, deviceGot, helloReplies, frames, deviceLog>> PROVE TypeOK'
  BY <1>1, <1>2 DEF End, TypeOK
<1>3. CASE Starts
  <2>1. channel = NoChannel
    BY <1>3 DEF Starts, TypeOK
  <2> QED BY <1>1, <1>3, <2>1 DEF Starts, TypeOK
<1>4. CASE Leaves
  BY <1>2, <1>4 DEF Leaves
<1>5. ASSUME NEW pub \in hellos \union {CableKey, NotAPoint}, TakesHello(pub) PROVE TypeOK'
  <2>1. CASE pub = NotAPoint
    BY <1>2, <1>5, <2>1 DEF TakesHello
  <2>2. CASE pub # NotAPoint
    <3>1. DeviceKey(session) \in KeyType /\ channel' \in ChannelType
      BY <1>5, <2>2, KeyTypes, ChannelTypes DEF TakesHello, TypeOK
    <3> QED BY <1>1, <1>5, <2>2, <3>1, NoChannelAssumption DEF TakesHello, TypeOK
  <2> QED BY <2>1, <2>2
<1>6. CASE UserCompares
  <2>1. CASE Digits(channel.keys) = Digits(hostChannel.keys)
    BY <1>1, <1>6, <2>1 DEF UserCompares, TypeOK
  <2> QED BY <1>2, <1>6, <2>1 DEF UserCompares
<1>7. ASSUME state = "READY", NEW frame \in Deliverable(channel), Takes(frame) PROVE TypeOK'
  <2>1. frame.body \in BodyType \union {NoBody} /\ channel \in ChannelType
    BY <1>7, DeliverableBodies DEF TypeOK
  <2>2. CASE Opens(channel, frame)
    <3>1. /\ channel' = AfterOpen(channel) /\ deviceGot' = Append(deviceGot, frame.body)
          /\ serving' = frame.body
          /\ UNCHANGED <<state, session, hellos, helloReplies, frames, hostLog, deviceLog>>
      BY <1>7, <2>2 DEF Takes
    <3>2. deviceGot \in Seq(BodyType \union {NoBody})
      BY DEF TypeOK
    <3>3. deviceGot' \in Seq(BodyType \union {NoBody})
      BY <2>1, <3>1, <3>2, AppendProperties
    <3>4. channel' \in ChannelType
      BY <2>1, <3>1, ChannelTypes
    <3> QED BY <1>1, <1>7, <2>1, <3>1, <3>3, <3>4, NoChannelAssumption DEF TypeOK
  <2>3. CASE ~Opens(channel, frame)
    BY <1>2, <1>7, <2>3 DEF Takes
  <2> QED BY <2>2, <2>3
<1>8. CASE Replies
  <2>1. CASE CanSeal(channel)
    <3> PICK body : body = [by |-> "device", n |-> Len(deviceLog)]
      OBVIOUS
    <3>1. body \in BodyType /\ channel \in ChannelType
      BY <1>8 DEF Replies, TypeOK, BodyType
    <3>2. /\ frames' = frames \union {Frame(channel, body)}
          /\ deviceLog' = Append(deviceLog, Frame(channel, body))
          /\ channel' = AfterSeal(channel) /\ serving' = NoBody
          /\ UNCHANGED <<state, session, deviceGot, helloReplies>>
      BY <1>8, <2>1 DEF Replies
    <3>3. Frame(channel, body) \in FrameType /\ channel' \in ChannelType
      BY <2>1, <3>1, <3>2, ChannelTypes
    <3>4. deviceLog' \in Seq(FrameType) /\ state = "READY"
      BY <1>8, <3>2, <3>3, AppendProperties DEF Replies, TypeOK
    <3> QED BY <1>1, <3>2, <3>3, <3>4, NoChannelAssumption DEF TypeOK
  <2>2. CASE ~CanSeal(channel)
    BY <1>2, <1>8, <2>2 DEF Replies
  <2> QED BY <2>1, <2>2
<1> QED BY <1>3, <1>4, <1>5, <1>6, <1>7, <1>8 DEF DeviceStep

LEMMA NextTypes ==
  ASSUME TypeOK, [Next]_vars PROVE TypeOK'
<1>1. CASE UNCHANGED vars
  BY <1>1 DEF vars, hostVars, deviceVars, TypeOK
<1> QED BY <1>1, HostTypes, DeviceTypes DEF Next

-----------------------------------------------------------------------------
(* Each step keeps what is heard in line with what is sealed. *)

LEMMA AppendEntries ==
  ASSUME NEW S, NEW log \in Seq(S), NEW f \in S
  PROVE  /\ \A j \in DOMAIN Append(log, f) : Append(log, f)[j] = f \/ \E i \in DOMAIN log : log[i] = Append(log, f)[j]
         /\ \E j \in DOMAIN Append(log, f) : Append(log, f)[j] = f
         /\ \A i \in DOMAIN log : \E j \in DOMAIN Append(log, f) : Append(log, f)[j] = log[i]
<1>1. DOMAIN Append(log, f) = DOMAIN log \union {Len(log) + 1}
  BY AppendProperties
<1>2. Append(log, f)[Len(log) + 1] = f /\ \A i \in DOMAIN log : Append(log, f)[i] = log[i]
  BY AppendProperties
<1> QED BY <1>1, <1>2

\* Nothing heard is heard in order.
LEMMA NothingHeard ==
  /\ Len(<< >>) = 0
  /\ \A keys, log : HeardInOrder(<< >>, keys, log)
  BY DEF HeardInOrder

LEMMA HostHearing ==
  ASSUME TypeOK, IInv, Hears, HostStep PROVE Hears'
<1>1. UNCHANGED <<state, channel, deviceLog, deviceGot>>
  BY DEF HostStep, HostConnects, HostFinishes, HostSeals, HostTakes, deviceVars
<1>2. CASE HostConnects
  <2>1. hostState' = "hello" /\ hostGot' = << >> /\ UNCHANGED <<frames, hostLog>>
    BY <1>2 DEF HostConnects
  <2> QED BY <1>1, <2>1 DEF Hears, Logged, Numbered, HostHears, DeviceHears
<1>3. ASSUME NEW pub, HostFinishes(pub) PROVE Hears'
  <2>1. /\ hostState = "hello" /\ hostState' = "open" /\ UNCHANGED <<hostGot, frames, hostLog>>
        /\ hostChannel' = Initiator(pub, HostKey(hostSession))
    BY <1>3 DEF HostFinishes
  <2>2. /\ hostChannel'.keys.host = HostKey(hostSession)
        /\ hostChannel'.send = 0 /\ hostChannel'.recv = 0
    BY <2>1 DEF Initiator, NewChannel, Derive
  <2>3. \A j \in 1 .. Len(hostLog) : hostLog[j].keys # hostChannel'.keys
    <3> SUFFICES ASSUME NEW j \in 1 .. Len(hostLog), hostLog[j].keys = hostChannel'.keys PROVE FALSE
      OBVIOUS
    <3>1. hostLog[j] \in frames /\ hostLog[j].dir = "h2d"
      BY DEF TypeOK, Hears, Logged
    <3>2. PICK k \in Nat : hostLog[j].keys.host = HostKey(k) /\ (k = hostSession => hostState # "hello")
      BY <3>1 DEF IInv, Sealed, HostSealed
    <3>3. k = hostSession
      BY <2>2, <3>2 DEF HostKey
    <3> QED BY <2>1, <3>2, <3>3
  <2>4. Count(hostLog, hostChannel'.keys) = 0
    BY <2>3, CountNone DEF TypeOK
  <2>5. hostGot' = << >>
    BY <2>1 DEF Hears, HostHears
  <2>6. HostHears'
    BY <2>1, <2>2, <2>4, <2>5, NothingHeard DEF HostHears
  <2> QED BY <1>1, <2>1, <2>6 DEF Hears, Logged, Numbered, DeviceHears
<1>4. CASE HostSeals
  <2> PICK body : body = [by |-> "host", n |-> Len(hostLog)]
    OBVIOUS
  <2> PICK new : new = Frame(hostChannel, body)
    OBVIOUS
  <2>1. /\ hostState = "open" /\ CanSeal(hostChannel)
        /\ frames' = frames \union {new} /\ hostLog' = Append(hostLog, new)
        /\ hostChannel' = AfterSeal(hostChannel) /\ UNCHANGED <<hostState, hostGot>>
    BY <1>4 DEF HostSeals
  <2>2. body \in BodyType /\ hostChannel \in ChannelType /\ hostLog \in Seq(FrameType)
    BY <2>1 DEF TypeOK, BodyType
  <2>3. new \in FrameType
    BY <2>1, <2>2, ChannelTypes
  <2>4. new.keys = hostChannel.keys /\ new.n = hostChannel.send /\ new.dir = "h2d"
    BY <2>1 DEF Frame, IInv, HostEnd, IsChannel
  <2>5. /\ hostChannel'.keys = hostChannel.keys /\ hostChannel'.send = hostChannel.send + 1
        /\ hostChannel'.recv = hostChannel.recv
    BY <2>1, <2>2 DEF AfterSeal, ChannelType
  <2>6. Count(hostLog, new.keys) = new.n
    BY <2>1, <2>4 DEF Hears, HostHears
  <2>7. Numbered(hostLog)'
    <3>1. Numbered(hostLog)
      BY DEF Hears
    <3>2. Numbered(Append(hostLog, new))
      BY <2>2, <2>3, <2>6, <3>1, AppendNumbered
    <3> QED BY <2>1, <3>2 DEF Numbered
  <2>8. Count(hostLog', hostChannel'.keys) = hostChannel'.send
    BY <2>1, <2>2, <2>3, <2>4, <2>5, <2>6, CountMore
  <2>9. HostHears'
    BY <1>1, <2>1, <2>5, <2>8 DEF Hears, HostHears
  <2>10. DeviceHears'
    <3>1. ASSUME state \in {"AWAITING_PAIRING", "READY"}
          PROVE  HeardInOrder(deviceGot, channel.keys, Append(hostLog, new))
      BY <2>2, <2>3, <3>1, HeardStays DEF Hears, DeviceHears
    <3> QED BY <1>1, <2>1, <3>1 DEF Hears, DeviceHears
  <2>11. Logged'
    <3>1. /\ \A j \in DOMAIN hostLog' : hostLog'[j] = new \/ \E i \in DOMAIN hostLog : hostLog[i] = hostLog'[j]
          /\ \E j \in DOMAIN hostLog' : hostLog'[j] = new
          /\ \A i \in DOMAIN hostLog : \E j \in DOMAIN hostLog' : hostLog'[j] = hostLog[i]
      BY <2>1, <2>2, <2>3, AppendEntries
    <3>2. Logged
      BY DEF Hears
    <3>3. \A f \in frames' : f.dir = "h2d" => \E j \in DOMAIN hostLog' : hostLog'[j] = f
      BY <2>1, <3>1, <3>2 DEF Logged
    <3>4. \A f \in frames' : f.dir = "d2h" => \E j \in DOMAIN deviceLog : deviceLog[j] = f
      BY <2>1, <2>4, <3>2 DEF Logged
    <3>5. \A j \in DOMAIN hostLog' : hostLog'[j] \in frames' /\ hostLog'[j].dir = "h2d"
      BY <2>1, <2>4, <3>1, <3>2 DEF Logged
    <3> QED BY <1>1, <2>1, <3>2, <3>3, <3>4, <3>5 DEF Logged
  <2>12. Numbered(deviceLog)'
    BY <1>1 DEF Hears, Numbered
  <2> QED BY <2>7, <2>9, <2>10, <2>11, <2>12 DEF Hears
<1>5. ASSUME NEW frame \in Deliverable(hostChannel), hostState = "open", HostTakes(frame) PROVE Hears'
  <2>1. UNCHANGED <<frames, hostLog>>
    BY <1>5 DEF HostTakes
  <2>2. Logged' /\ Numbered(hostLog)' /\ Numbered(deviceLog)' /\ DeviceHears'
    BY <1>1, <2>1 DEF Hears, Logged, Numbered, DeviceHears
  <2>3. CASE ~Opens(hostChannel, frame)
    BY <1>5, <2>2, <2>3 DEF HostTakes, Hears, HostHears
  <2>4. CASE Opens(hostChannel, frame)
    <3>1. /\ hostState' = "open" /\ hostChannel' = AfterOpen(hostChannel)
          /\ hostGot' = Append(hostGot, frame.body)
      BY <1>5, <2>4 DEF HostTakes
    <3>2. hostChannel \in ChannelType /\ hostGot \in Seq(BodyType \union {NoBody})
      BY <1>5 DEF TypeOK
    <3>3. /\ hostChannel'.keys = hostChannel.keys /\ hostChannel'.send = hostChannel.send
          /\ hostChannel'.recv = hostChannel.recv + 1
      BY <3>1, <3>2 DEF AfterOpen, ChannelType
    <3>4. frame.body \in BodyType \union {NoBody}
      BY <1>5, DeliverableBodies
    <3>5. Len(hostGot') = hostChannel'.recv
      BY <1>5, <3>1, <3>2, <3>3, <3>4, AppendProperties DEF Hears, HostHears
    <3>6. ASSUME ~KnownToCable(hostChannel.keys)
          PROVE  HeardInOrder(hostGot', hostChannel.keys, deviceLog)
      <4>1. frame \in frames /\ frame.dir = "d2h" /\ frame.keys = hostChannel.keys /\ frame.n = Len(hostGot)
        BY <1>5, <2>4, <3>6
           DEF Deliverable, Opens, Authenticates, IInv, HostEnd, IsChannel, Hears, HostHears
      <4>2. PICK j \in DOMAIN deviceLog : deviceLog[j] = frame
        BY <4>1 DEF Hears, Logged
      <4>3. HeardInOrder(hostGot, hostChannel.keys, deviceLog) /\ Numbered(deviceLog)
        BY <1>5, <3>6 DEF Hears, HostHears
      <4>4. HeardInOrder(Append(hostGot, deviceLog[j].body), hostChannel.keys, deviceLog)
        BY <3>2, <3>4, <4>1, <4>2, <4>3, HeardNext
      <4> QED BY <3>1, <4>2, <4>4
    <3>7. Count(hostLog, hostChannel.keys) = hostChannel.send
      BY <1>5 DEF Hears, HostHears
    <3>8. HostHears'
      BY <1>1, <2>1, <3>1, <3>3, <3>5, <3>6, <3>7 DEF HostHears
    <3> QED BY <2>2, <3>8 DEF Hears
  <2> QED BY <2>3, <2>4
<1> QED BY <1>2, <1>3, <1>4, <1>5 DEF HostStep

LEMMA DeviceHearing ==
  ASSUME TypeOK, IInv, Hears, DeviceStep PROVE Hears'
<1>1. UNCHANGED <<hostState, hostChannel, hostLog, hostGot>>
  BY DEF DeviceStep, Starts, Leaves, TakesHello, UserCompares, Takes, Replies, hostVars
<1>2. ASSUME UNCHANGED <<frames, deviceLog>> PROVE Logged' /\ Numbered(hostLog)' /\ Numbered(deviceLog)' /\ HostHears'
  BY <1>1, <1>2 DEF Hears, Logged, Numbered, HostHears
<1>3. ASSUME End, UNCHANGED <<frames, deviceLog>> PROVE Hears'
  BY <1>2, <1>3 DEF End, Hears, DeviceHears
<1>4. CASE Starts
  <2>1. state' = "AWAITING_HELLO" /\ deviceGot' = << >> /\ UNCHANGED <<frames, deviceLog>>
    BY <1>4 DEF Starts
  <2> QED BY <1>2, <2>1 DEF Hears, DeviceHears
<1>5. CASE Leaves
  BY <1>3, <1>5 DEF Leaves
<1>6. ASSUME NEW pub, TakesHello(pub) PROVE Hears'
  <2>1. CASE pub = NotAPoint
    BY <1>3, <1>6, <2>1 DEF TakesHello
  <2>2. CASE pub # NotAPoint
    <3>1. /\ state = "AWAITING_HELLO" /\ state' = "AWAITING_PAIRING"
          /\ UNCHANGED <<deviceGot, frames, deviceLog>> /\ channel' = Responder(pub, DeviceKey(session))
      BY <1>6, <2>2 DEF TakesHello
    <3>2. /\ channel'.keys.device = DeviceKey(session)
          /\ channel'.send = 0 /\ channel'.recv = 0
      BY <3>1 DEF Responder, NewChannel, Derive
    <3>3. \A j \in 1 .. Len(deviceLog) : deviceLog[j].keys # channel'.keys
      <4> SUFFICES ASSUME NEW j \in 1 .. Len(deviceLog), deviceLog[j].keys = channel'.keys PROVE FALSE
        OBVIOUS
      <4>1. deviceLog[j] \in frames /\ deviceLog[j].dir = "d2h"
        BY DEF TypeOK, Hears, Logged
      <4>2. PICK k \in Nat : /\ deviceLog[j].keys.device = DeviceKey(k)
                             /\ k = session => state # "AWAITING_HELLO"
        BY <4>1 DEF IInv, Sealed, DeviceSealed
      <4>3. k = session
        BY <3>2, <4>2 DEF DeviceKey
      <4> QED BY <3>1, <4>2, <4>3
    <3>4. Count(deviceLog, channel'.keys) = 0
      BY <3>3, CountNone DEF TypeOK
    <3>5. deviceGot' = << >>
      BY <3>1 DEF Hears, DeviceHears
    <3>6. DeviceHears'
      BY <3>1, <3>2, <3>4, <3>5, NothingHeard DEF DeviceHears
    <3> QED BY <1>2, <3>1, <3>6 DEF Hears
  <2> QED BY <2>1, <2>2
<1>7. CASE UserCompares
  <2>1. CASE Digits(channel.keys) = Digits(hostChannel.keys)
    <3>1. /\ state = "AWAITING_PAIRING" /\ state' = "READY"
          /\ UNCHANGED <<channel, deviceGot, frames, deviceLog>>
      BY <1>7, <2>1 DEF UserCompares
    <3>2. DeviceHears'
      BY <1>1, <3>1 DEF Hears, DeviceHears
    <3> QED BY <1>2, <3>1, <3>2 DEF Hears
  <2> QED BY <1>3, <1>7, <2>1 DEF UserCompares
<1>8. ASSUME state = "READY", NEW frame \in Deliverable(channel), Takes(frame) PROVE Hears'
  <2>1. CASE ~Opens(channel, frame)
    BY <1>3, <1>8, <2>1 DEF Takes
  <2>2. CASE Opens(channel, frame)
    <3>1. /\ state' = "READY" /\ channel' = AfterOpen(channel) /\ deviceGot' = Append(deviceGot, frame.body)
          /\ UNCHANGED <<frames, deviceLog>>
      BY <1>8, <2>2 DEF Takes
    <3>2. channel \in ChannelType /\ deviceGot \in Seq(BodyType \union {NoBody})
      BY <1>8 DEF TypeOK
    <3>3. /\ channel'.keys = channel.keys /\ channel'.send = channel.send
          /\ channel'.recv = channel.recv + 1
      BY <3>1, <3>2 DEF AfterOpen, ChannelType
    <3>4. frame.body \in BodyType \union {NoBody}
      BY <1>8, DeliverableBodies
    <3>5. /\ Count(deviceLog, channel.keys) = channel.send /\ Len(deviceGot) = channel.recv
          /\ HeardInOrder(deviceGot, channel.keys, hostLog) /\ Numbered(hostLog)
      BY <1>8 DEF Hears, DeviceHears
    <3>6. Len(deviceGot') = channel'.recv
      BY <3>1, <3>2, <3>3, <3>4, <3>5, AppendProperties
    <3>7. frame \in frames /\ frame.dir = "h2d" /\ frame.keys = channel.keys /\ frame.n = Len(deviceGot)
      <4>1. ~KnownToCable(channel.keys) /\ channel.in = "h2d"
        BY <1>8 DEF IInv, PairingExcludesTheCable, DeviceEnd, IsChannel
      <4> QED BY <2>2, <3>5, <4>1, <1>8 DEF Deliverable, Opens, Authenticates
    <3>8. PICK j \in DOMAIN hostLog : hostLog[j] = frame
      BY <3>7 DEF Hears, Logged
    <3>9. HeardInOrder(Append(deviceGot, hostLog[j].body), channel.keys, hostLog)
      BY <3>2, <3>4, <3>5, <3>7, <3>8, HeardNext
    <3>10. DeviceHears'
      BY <1>1, <3>1, <3>3, <3>5, <3>6, <3>8, <3>9 DEF DeviceHears
    <3> QED BY <1>2, <3>1, <3>10 DEF Hears
  <2> QED BY <2>1, <2>2
<1>9. CASE Replies
  <2>1. CASE ~CanSeal(channel)
    BY <1>3, <1>9, <2>1 DEF Replies
  <2>2. CASE CanSeal(channel)
    <3> PICK body : body = [by |-> "device", n |-> Len(deviceLog)]
      OBVIOUS
    <3> PICK new : new = Frame(channel, body)
      OBVIOUS
    <3>1. /\ state = "READY" /\ frames' = frames \union {new} /\ deviceLog' = Append(deviceLog, new)
          /\ channel' = AfterSeal(channel) /\ UNCHANGED <<state, deviceGot>>
      BY <1>9, <2>2 DEF Replies
    <3>2. body \in BodyType /\ channel \in ChannelType /\ deviceLog \in Seq(FrameType)
      BY <3>1 DEF TypeOK, BodyType
    <3>3. new \in FrameType
      BY <2>2, <3>2, ChannelTypes
    <3>4. new.keys = channel.keys /\ new.n = channel.send /\ new.dir = "d2h"
      BY <3>1 DEF Frame, IInv, DeviceEnd, IsChannel
    <3>5. /\ channel'.keys = channel.keys /\ channel'.send = channel.send + 1
          /\ channel'.recv = channel.recv
      BY <3>1, <3>2 DEF AfterSeal, ChannelType
    <3>6. Count(deviceLog, new.keys) = new.n
      BY <3>1, <3>4 DEF Hears, DeviceHears
    <3>7. Numbered(deviceLog)'
      <4>1. Numbered(deviceLog)
        BY DEF Hears
      <4>2. Numbered(Append(deviceLog, new))
        BY <3>2, <3>3, <3>6, <4>1, AppendNumbered
      <4> QED BY <3>1, <4>2 DEF Numbered
    <3>8. Count(deviceLog', channel'.keys) = channel'.send
      BY <3>1, <3>2, <3>3, <3>4, <3>5, <3>6, CountMore
    <3>9. DeviceHears'
      BY <1>1, <3>1, <3>5, <3>8 DEF Hears, DeviceHears
    <3>10. HostHears'
      <4>1. ASSUME hostState = "open", ~KnownToCable(hostChannel.keys)
            PROVE  HeardInOrder(hostGot, hostChannel.keys, Append(deviceLog, new))
        BY <3>2, <3>3, <4>1, HeardStays DEF Hears, HostHears
      <4> QED BY <1>1, <3>1, <4>1 DEF Hears, HostHears
    <3>11. Logged'
      <4>1. /\ \A j \in DOMAIN deviceLog' :
                 deviceLog'[j] = new \/ \E i \in DOMAIN deviceLog : deviceLog[i] = deviceLog'[j]
            /\ \E j \in DOMAIN deviceLog' : deviceLog'[j] = new
            /\ \A i \in DOMAIN deviceLog : \E j \in DOMAIN deviceLog' : deviceLog'[j] = deviceLog[i]
        BY <3>1, <3>2, <3>3, AppendEntries
      <4>2. Logged
        BY DEF Hears
      <4>3. \A f \in frames' : f.dir = "d2h" => \E j \in DOMAIN deviceLog' : deviceLog'[j] = f
        BY <3>1, <4>1, <4>2 DEF Logged
      <4>4. \A f \in frames' : f.dir = "h2d" => \E j \in DOMAIN hostLog : hostLog[j] = f
        BY <3>1, <3>4, <4>2 DEF Logged
      <4>5. \A j \in DOMAIN deviceLog' : deviceLog'[j] \in frames' /\ deviceLog'[j].dir = "d2h"
        BY <3>1, <3>4, <4>1, <4>2 DEF Logged
      <4> QED BY <1>1, <3>1, <4>2, <4>3, <4>4, <4>5 DEF Logged
    <3>12. Numbered(hostLog)'
      BY <1>1 DEF Hears, Numbered
    <3> QED BY <3>7, <3>9, <3>10, <3>11, <3>12 DEF Hears
  <2> QED BY <2>1, <2>2
<1> QED BY <1>4, <1>5, <1>6, <1>7, <1>8, <1>9 DEF DeviceStep

LEMMA NextHearing ==
  ASSUME TypeOK, IInv, Hears, [Next]_vars PROVE Hears'
<1>1. CASE UNCHANGED vars
  BY <1>1 DEF vars, hostVars, deviceVars, Hears, Logged, Numbered, HostHears, DeviceHears
<1> QED BY <1>1, HostHearing, DeviceHearing DEF Next

LEMMA InitHearing ==
  ASSUME Init PROVE TypeOK /\ Hears
<1>1. << >> \in Seq(FrameType) /\ << >> \in Seq(BodyType \union {NoBody})
  OBVIOUS
<1>2. TypeOK
  BY <1>1 DEF Init, TypeOK
<1>3. Hears
  BY DEF Init, Hears, Logged, Numbered, HostHears, DeviceHears
<1> QED BY <1>2, <1>3

-----------------------------------------------------------------------------
(* The theorems. *)

\* For any number of sessions and of records: whom the user has paired with does
\* not hold a key of the cable (crypto.py _derive; session.py complete_pairing).
THEOREM PairingTheorem == Spec => []PairingExcludesTheCable
<1>1. Init => IInv
  BY InitInv
<1>2. IInv /\ [Next]_vars => IInv'
  BY NextInv
<1>3. IInv => PairingExcludesTheCable
  BY DEF IInv
<1> QED BY <1>1, <1>2, <1>3, PTL DEF Spec

\* For any number of sessions and any last counter: no record is sealed under the
\* keys, direction and counter of another (crypto.py next_nonce).
THEOREM NonceTheorem == Spec => []NoncesAreUnique
<1>1. Init => IInv
  BY InitInv
<1>2. IInv /\ [Next]_vars => IInv'
  BY NextInv
<1>3. IInv => NoncesAreUnique
  BY DEF IInv
<1> QED BY <1>1, <1>2, <1>3, PTL DEF Spec

\* The types of the channels, the logs and what is heard (crypto.py SessionChannel).
THEOREM TypeCorrect == Spec => []TypeOK
<1>1. Init => TypeOK
  BY InitHearing
<1>2. TypeOK /\ [Next]_vars => TypeOK'
  BY NextTypes
<1> QED BY <1>1, <1>2, PTL DEF Spec

\* For any number of sessions and of records, over a cable that loses, repeats,
\* reorders and keeps what it carries: a paired device acts on what the host has
\* sealed for this session, from the first record on, in order and none twice, and
\* a host that did not shake hands with the cable hears the device in the same way
\* (crypto.py open: the tag first, then the counter).
THEOREM HearingTheorem == Spec => []EachHearsTheOther
<1>1. Init => TypeOK /\ IInv /\ Hears
  BY InitInv, InitHearing
<1>2. (TypeOK /\ IInv /\ Hears) /\ [Next]_vars => (TypeOK /\ IInv /\ Hears)'
  BY NextInv, NextTypes, NextHearing
<1>3. TypeOK /\ IInv /\ Hears => EachHearsTheOther
  BY DEF Hears, HostHears, DeviceHears, EachHearsTheOther
<1> QED BY <1>1, <1>2, <1>3, PTL DEF Spec
=============================================================================
