--------------------------- MODULE PlayersRefine ---------------------------
(***************************************************************************)
(* The listener that reads bytes implements the one that the composition   *)
(* uses: whatever peers send, each of its steps is one of ListenerTask's,  *)
(* or changes nothing that ListenerTask speaks of. And it reads what peers *)
(* of the protocol wrote: their fields, and whether they log in.           *)
(***************************************************************************)
EXTENDS PlayerListener, Integers, SequenceTheorems, TLAPS

ListenerAction ==
    \/ Listener!Bind(1) \/ Listener!BindFails(1, FALSE)
    \/ Listener!Accept(1) \/ Listener!ReadOther(1) \/ Listener!ReadLogin(1)
    \/ Listener!ListenerRequestsStart(1)
    \/ Listener!ListenerFails(1) \/ Listener!ListenerCancelled(1)

(* The listener has begun; ListenerTask also knows those that have not.     *)
Begun == listening # "none"

(* It has begun from the first step on.                                     *)
LEMMA ListenerHasBegun == Spec => []Begun
<1>1. Init => Begun
  BY DEF Init, Begun
<1>2. Begun /\ [Next]_vars => Begun'
  BY DEF Begun, Next, ListenerStep, vars, Bind, Accept, SocketFails, IsClientConnection,
         RequestStart, CancelListener, Connect, Receive, CancelAll
<1> QED BY <1>1, <1>2, PTL DEF Spec

(* One listener is the function that maps its number to where it is.        *)
LEMMA OneListener ==
    ASSUME NEW pc
    PROVE  <<pc>> = [<<listening>> EXCEPT ![1] = pc]
  OBVIOUS

(* Binding, accepting, and their failures. *)
LEMMA SocketSteps ==
    ASSUME Bind \/ Accept \/ SocketFails PROVE ListenerAction
<1> USE OneListener DEF ListenerAction
<1>1. CASE Bind
  <2>1. \A k \in Listener!Inc : ~Listener!HoldsPort(k)
    BY <1>1 DEF Bind, Listener!Inc, Listener!HoldsPort
  <2>2. Listener!Bind(1)
    BY <1>1, <2>1 DEF Bind, Listener!Bind, runtimeVars, Listener!runtimeVars
  <2> QED BY <2>2
<1>2. CASE Accept
  <2>1. Listener!Accept(1)
    BY <1>2 DEF Accept, Listener!Accept, runtimeVars, Listener!runtimeVars
  <2> QED BY <2>1
<1>3. CASE SocketFails
  <2>1. CASE listening = "binding"
    <3>1. Listener!BindFails(1, FALSE)
      BY <1>3, <2>1 DEF SocketFails, Listener!BindFails, runtimeVars, Listener!runtimeVars
    <3> QED BY <3>1
  <2>2. CASE listening = "accepting"
    <3>1. Listener!ListenerFails(1)
      BY <1>3, <2>2 DEF SocketFails, Listener!ListenerFails, runtimeVars, Listener!runtimeVars
    <3> QED BY <3>1
  <2> QED BY <1>3, <2>1, <2>2 DEF SocketFails
<1> QED BY <1>1, <1>2, <1>3

(* What a read comes to is all that ListenerTask knows of it.               *)
LEMMA ReadingSteps ==
    ASSUME IsClientConnection
    PROVE  ListenerAction \/ UNCHANGED <<runtimeVars, listening>>
<1> USE OneListener DEF ListenerAction
<1>1. listening = "reading" /\ UNCHANGED runtimeVars
  BY DEF IsClientConnection
<1>2. listening' \in {"reading", "sending", "accepting", "panicked"}
  BY DEF IsClientConnection
<1>3. CASE listening' = "reading"
  BY <1>1, <1>3
<1>4. CASE listening' = "sending"
  <2>1. Listener!ReadLogin(1)
    BY <1>1, <1>4 DEF Listener!ReadLogin, runtimeVars, Listener!runtimeVars
  <2> QED BY <2>1
<1>5. CASE listening' = "accepting"
  <2>1. Listener!ReadOther(1)
    BY <1>1, <1>5 DEF Listener!ReadOther, runtimeVars, Listener!runtimeVars
  <2> QED BY <2>1
<1>6. CASE listening' = "panicked"
  <2>1. Listener!ListenerFails(1)
    BY <1>1, <1>6 DEF Listener!ListenerFails, runtimeVars, Listener!runtimeVars
  <2> QED BY <2>1
<1> QED BY <1>2, <1>3, <1>4, <1>5, <1>6

(* The request and the cancellation end the listener.                       *)
LEMMA EndingSteps ==
    ASSUME Begun, RequestStart \/ CancelListener PROVE ListenerAction
<1> USE OneListener DEF ListenerAction
<1>1. CASE RequestStart
  <2>1. Listener!ListenerRequestsStart(1)
    BY <1>1 DEF RequestStart, Listener!ListenerRequestsStart, Send, Listener!Send
  <2> QED BY <2>1
<1>2. CASE CancelListener
  <2>1. Listener!ListenerCancelled(1)
    BY <1>2 DEF Begun, CancelListener, Listener!ListenerCancelled, Listener!ListenerLive,
                Listener!ListenerOver, Cancelled, Listener!Cancelled, runtimeVars,
                Listener!runtimeVars
  <2> QED BY <2>1
<1> QED BY <1>1, <1>2

(* Every step of the listener, its peers and the server task is one of      *)
(* ListenerTask, of the channel, or none.                                   *)
LEMMA ListenerSteps ==
    Begun /\ [Next]_vars => [ListenerAction \/ Receive \/ CancelAll]_<<runtimeVars, listening>>
<1> SUFFICES ASSUME Begun, [Next]_vars
             PROVE  ListenerAction \/ Receive \/ CancelAll \/ UNCHANGED <<runtimeVars, listening>>
  OBVIOUS
<1>1. CASE ListenerStep
  BY <1>1, SocketSteps, ReadingSteps, EndingSteps DEF ListenerStep
<1>2. CASE Connect
  BY <1>2 DEF Connect
<1>3. CASE Receive \/ CancelAll
  BY <1>3
<1>4. CASE UNCHANGED vars
  BY <1>4 DEF vars
<1> QED BY <1>1, <1>2, <1>3, <1>4 DEF Next

(* Whatever bytes peers send, and however the listener reads them, it       *)
(* behaves as the listener of the composition (listener_task.rs:49-77).     *)
THEOREM BytesAreLeftOut == Spec => ReadsAsListenerTask
<1>1. Begun /\ [Next]_vars =>
        [\/ Listener!Bind(1) \/ Listener!BindFails(1, FALSE)
         \/ Listener!Accept(1) \/ Listener!ReadOther(1) \/ Listener!ReadLogin(1)
         \/ Listener!ListenerRequestsStart(1)
         \/ Listener!ListenerFails(1) \/ Listener!ListenerCancelled(1)
         \/ Receive \/ CancelAll]_<<runtimeVars, listening>>
  BY ListenerSteps DEF ListenerAction
<1> QED BY <1>1, ListenerHasBegun, PTL DEF Spec, ReadsAsListenerTask

-----------------------------------------------------------------------------
(* The fields of the packets, one by one.                                   *)
LEMMA FieldList ==
    /\ Len(HandshakePacket) = 7 /\ Len(Fields) = 13
    /\ Fields[1] = "length" /\ Fields[2] = "packet_id" /\ Fields[3] = "protocol_version"
    /\ Fields[4] = "address_length" /\ Fields[5] = "server_address"
    /\ Fields[6] = "server_port" /\ Fields[7] = "next_state"
    /\ Fields[8] = "length" /\ Fields[9] = "packet_id" /\ Fields[10] = "name_length"
    /\ Fields[11] = "name" /\ Fields[12] = "has_player_uuid" /\ Fields[13] = "player_uuid"
  BY DEF HandshakePacket, LoginStartPacket, Fields

(* Which fields are what, by their number.                                  *)
LEMMA FieldKinds ==
    ASSUME NEW k \in 1..13
    PROVE  /\ Fields[k] \in VarIntField <=> k \in {1, 2, 3, 4, 7, 8, 9, 10}
           /\ Fields[k] \in StringField <=> k \in {5, 11}
           /\ Fields[k] = "next_state" <=> k = 7
           /\ Fields[k] \in {"address_length", "name_length"} <=> k \in {4, 10}
           /\ Fields[k] = "server_port" <=> k = 6
           /\ Fields[k] = "has_player_uuid" <=> k = 12
           /\ Fields[k] = "player_uuid" <=> k = 13
<1>1. \/ k = 1 \/ k = 2 \/ k = 3 \/ k = 4 \/ k = 5 \/ k = 6 \/ k = 7 \/ k = 8
      \/ k = 9 \/ k = 10 \/ k = 11 \/ k = 12 \/ k = 13
  OBVIOUS
<1> QED BY <1>1, FieldList DEF VarIntField, StringField

(* What is read of a peer, by the number of the field.                      *)
LEMMA FieldReads ==
    ASSUME field \in 1..13
    PROVE  /\ Reading(VarIntField) <=> field \in {1, 2, 3, 4, 7, 8, 9, 10}
           /\ Reading(StringField) <=> field \in {5, 11}
           /\ Reading({"next_state"}) <=> field = 7
           /\ Reading({"server_port"}) <=> field = 6
           /\ Reading({"has_player_uuid"}) <=> field = 12
           /\ Reading({"player_uuid"}) <=> field = 13
  BY FieldKinds DEF Reading

-----------------------------------------------------------------------------
(* The types. *)

PeersTyped == TypeOK /\ scripts \in [1..MaxPeers -> Script]

(* A shift is a number of groups of seven bits.                             *)
LEMMA ShiftIsNat == ASSUME HandshakeTypeOK PROVE idx \in Nat
<1>1. PICK k \in 0..9 : idx = 7 * k
  BY DEF HandshakeTypeOK
<1>2. \A n \in 0..9 : 7 * n \in Nat
  OBVIOUS
<1> QED BY <1>1, <1>2

(* After nine groups of seven bits there is no further one.                 *)
LEMMA NextShift ==
    ASSUME NEW shift \in {7 * k : k \in 0..9}, shift + 7 < 64
    PROVE  shift + 7 \in {7 * k : k \in 0..9}
<1>1. PICK k \in 0..9 : shift = 7 * k
  OBVIOUS
<1>2. k + 1 \in 0..9 /\ shift + 7 = 7 * (k + 1)
  BY <1>1
<1> QED BY <1>2

(* A byte adds to the bits of an i32.                                       *)
LEMMA WithByteTyped == ASSUME HandshakeTypeOK PROVE WithByte \subseteq 0..31
  BY DEF WithByte, HandshakeTypeOK

(* The next field is one of them, unless it was the last.                   *)
LEMMA NextFieldTyped ==
    ASSUME HandshakeTypeOK, NEW bits \in SUBSET (0..31), NextField(bits), field < 13
    PROVE  /\ field' \in 1..13
           /\ idx' \in {7 * k : k \in 0..9}
           /\ value' \subseteq 0..31
  BY FieldList DEF NextField, HandshakeTypeOK

(* A read stays within the bytes and the fields, and its shift below 64.    *)
LEMMA ReadTyped ==
    ASSUME HandshakeTypeOK, NEW outcome, Read(outcome)
    PROVE  HandshakeTypeOK'
<1> USE FieldList DEF HandshakeTypeOK
<1>0. field \in 1..13
  OBVIOUS
<1>1. CASE StreamEnds(outcome) \/ MakeBuffer(outcome)
  BY <1>1 DEF StreamEnds, MakeBuffer, connVars
<1>2. ASSUME ReadByte PROVE stream' = stream /\ pos' \in 0..Len(stream')
  BY <1>2 DEF ReadByte
<1>3. CASE ShiftOverflows(outcome)
  BY <1>2, <1>3 DEF ShiftOverflows
<1>4. CASE ContinueVarInt(outcome)
  <2>1. ReadByte /\ field' = field
    BY <1>4 DEF ContinueVarInt
  <2>2. idx' \in {7 * k : k \in 0..9} /\ value' \subseteq 0..31
    <3>0. idx \in Nat
      BY ShiftIsNat
    <3>1. CASE idx + 7 >= 64
      BY <1>4, <3>1 DEF ContinueVarInt, Shift
    <3>2. CASE ~(idx + 7 >= 64)
      <4>1. idx' = idx + 7 /\ value' = WithByte
        BY <1>4, <3>2, Zenon DEF ContinueVarInt, Shift
      <4>2. idx + 7 \in {7 * k : k \in 0..9}
        <5>1. idx + 7 < 64
          BY <3>0, <3>2
        <5> QED BY <5>1, NextShift
      <4>3. idx' \in {7 * k : k \in 0..9}
        BY <4>1, <4>2
      <4>4. value' \subseteq 0..31
        BY <4>1, WithByteTyped
      <4> QED BY <4>3, <4>4
    <3> QED BY <3>1, <3>2
  <2> QED BY <1>2, <2>1, <2>2
<1>5. CASE FinishVarInt(outcome)
  <2>1. ReadByte /\ NextField(WithByte) /\ field < 13
    BY <1>0, <1>5, FieldReads DEF FinishVarInt, ReadByte
  <2> QED BY <1>2, <2>1, WithByteTyped, NextFieldTyped
<1>6. CASE ReadNextState(outcome)
  <2>1. ReadByte /\ field < 13
    BY <1>0, <1>6, FieldReads DEF ReadNextState
  <2>2. CASE NextField({})
    BY <1>2, <2>1, <2>2, NextFieldTyped
  <2>3. CASE UNCHANGED <<field, idx, value>>
    BY <1>2, <2>1, <2>3
  <2> QED BY <1>6, <2>2, <2>3 DEF ReadNextState
<1>7. CASE ReadString(outcome) \/ ReadUnsignedShort(outcome) \/ ReadBool(outcome)
            \/ ReadUuid(outcome)
  <2>1. stream' = stream /\ pos' \in 0..Len(stream')
    BY <1>7 DEF ReadString, ReadUnsignedShort, ReadBool, ReadUuid, ReadExact
  <2>2. (NextField({}) /\ field < 13) \/ UNCHANGED <<field, idx, value>>
    BY <1>0, <1>7, FieldReads DEF ReadString, ReadUnsignedShort, ReadBool, ReadUuid
  <2>3. CASE NextField({}) /\ field < 13
    BY <2>1, <2>3, NextFieldTyped
  <2>4. CASE UNCHANGED <<field, idx, value>>
    BY <2>1, <2>4
  <2> QED BY <2>2, <2>3, <2>4
<1> QED BY <1>1, <1>3, <1>4, <1>5, <1>6, <1>7 DEF Read

(* Every step keeps the types of the listener and its peers.                *)
LEMMA PlayersTypedStep ==
    PeersTyped /\ [Next]_vars => PeersTyped'
<1> SUFFICES ASSUME PeersTyped, [Next]_vars PROVE PeersTyped'
  OBVIOUS
<1> USE PlayerListenerAssumption DEF PeersTyped, TypeOK
<1>0. /\ HandshakeTypeOK /\ UNCHANGED connVars => HandshakeTypeOK'
      /\ RuntimeTypeOK /\ UNCHANGED runtimeVars => RuntimeTypeOK'
  BY DEF HandshakeTypeOK, connVars, RuntimeTypeOK, runtimeVars
<1>1. CASE Bind \/ SocketFails \/ CancelListener
  BY <1>0, <1>1 DEF Bind, SocketFails, CancelListener, peerVars
<1>2. CASE Connect
  BY <1>0, <1>2 DEF Connect
<1>3. CASE Accept
  <2>1. /\ accepted' \in 1..arrived /\ scripts' = scripts /\ arrived' = arrived
        /\ listening' = "reading" /\ UNCHANGED runtimeVars
    BY <1>3 DEF Accept
  <2>2. scripts[accepted'] \in Script
    BY <2>1
  <2>3. scripts[accepted'].bytes \in Seq(0..255)
    BY <2>2, ScriptAssumption
  <2>4. HandshakeTypeOK'
    BY <1>3, <2>3, FieldList DEF Accept, Opened, HandshakeTypeOK
  <2> QED BY <1>0, <2>1, <2>4
<1>4. CASE IsClientConnection
  <2>1. PICK outcome : Read(outcome)
    BY <1>4 DEF IsClientConnection
  <2>2. HandshakeTypeOK'
    BY <2>1, ReadTyped
  <2>3. listening' \in {"reading", "sending", "accepting", "panicked"}
    BY <1>4 DEF IsClientConnection
  <2>4. UNCHANGED <<runtimeVars, arrived, accepted, scripts>>
    BY <1>4 DEF IsClientConnection, peerVars
  <2> QED BY <1>0, <2>2, <2>3, <2>4
<1>5. CASE RequestStart
  <2>1. RuntimeTypeOK'
    BY <1>5 DEF RequestStart, Send, RuntimeTypeOK, ServerTaskRequest
  <2>2. UNCHANGED <<connVars, arrived, accepted, scripts>> /\ listening' = "done"
    BY <1>5 DEF RequestStart, peerVars
  <2> QED BY <1>0, <2>1, <2>2
<1>6. CASE Receive \/ CancelAll
  <2>1. RuntimeTypeOK'
    <3>1. requests' \in Seq(ServerTaskRequest)
      <4>1. CASE Receive
        BY <4>1 DEF Receive, RuntimeTypeOK
      <4>2. CASE CancelAll
        BY <4>2 DEF CancelAll, RuntimeTypeOK
      <4> QED BY <1>6, <4>1, <4>2
    <3>2. receiving' = receiving /\ token' \in {token, TRUE} /\ cancelled' = cancelled
      BY <1>6 DEF Receive, CancelAll
    <3> QED BY <3>1, <3>2 DEF RuntimeTypeOK
  <2>2. UNCHANGED <<connVars, listening, arrived, accepted, scripts>>
    BY <1>6 DEF Receive, CancelAll, peerVars
  <2> QED BY <1>0, <2>1, <2>2
<1>7. CASE UNCHANGED vars
  BY <1>0, <1>7 DEF vars, peerVars
<1> QED BY <1>1, <1>2, <1>3, <1>4, <1>5, <1>6, <1>7 DEF Next, ListenerStep

(* Nothing has been read at first.                                          *)
LEMMA PeersTypedInit == Init => PeersTyped
<1> SUFFICES ASSUME Init PROVE PeersTyped
  OBVIOUS
<1>1. HandshakeTypeOK
  BY FieldList DEF Init, HandshakeTypeOK
<1>2. RuntimeTypeOK
  <2>1. /\ requests \in Seq(ServerTaskRequest)
        /\ cancelled \subseteq (TokenKind \X Inc)
    BY DEF Init, RuntimeInit
  <2>2. receiving \in BOOLEAN /\ token \in BOOLEAN
    BY DEF Init, RuntimeInit
  <2> QED BY <2>1, <2>2 DEF RuntimeTypeOK
<1> QED BY <1>1, <1>2, PlayerListenerAssumption DEF Init, PeersTyped, TypeOK

(* Whatever bytes come: no read is past the bytes that there are or the     *)
(* fields of a packet, no shift reaches 64, and what is read of a number    *)
(* fits an i32 (protocol.rs:64-125, listener_task.rs:49-96).                *)
THEOREM PlayersTypeCorrect == Spec => []TypeOK
<1>1. PeersTyped => TypeOK
  BY DEF PeersTyped
<1> QED BY <1>1, PeersTypedInit, PlayersTypedStep, PTL DEF Spec

-----------------------------------------------------------------------------
(* What a script says, field by field. *)

(* A field has the bytes from where the one before it ends.                 *)
LEMMA SentBytes ==
    ASSUME NEW s \in Script, NEW k \in 1..Len(s.fields)
    PROVE  /\ k \in 1..13 /\ s.fields[k].bits \subseteq 0..31
           /\ Begins(s, k) \in Nat /\ s.fields[k].ends \in Begins(s, k)..Len(s.bytes)
           /\ Len(Sent(s, k)) = s.fields[k].ends - Begins(s, k)
           /\ DOMAIN Sent(s, k) = 1..Len(Sent(s, k))
           /\ \A j \in 1..Len(Sent(s, k)) : Sent(s, k)[j] = s.bytes[Begins(s, k) + j]
           /\ IsSent(s, k)
<1> DEFINE Field == [bits : SUBSET (0..31), ends : 0..Len(s.bytes)]
<1>0. /\ s.bytes \in Seq(0..255) /\ s.fields \in Seq(Field)
      /\ Len(s.fields) <= 13
      /\ \A j, l \in DOMAIN s.fields : j <= l => s.fields[j].ends <= s.fields[l].ends
      /\ \A l \in DOMAIN s.fields : IsSent(s, l)
  BY ScriptAssumption, FieldList
<1> HIDE DEF Field
<1>1. /\ DOMAIN s.fields = 1..Len(s.fields) /\ Len(s.bytes) \in Nat
      /\ k \in 1..13 /\ IsSent(s, k)
  BY <1>0
<1>2. s.fields[k] \in Field /\ (k > 1 => s.fields[k - 1] \in Field)
  BY <1>0
<1>3. k > 1 => s.fields[k - 1].ends <= s.fields[k].ends
  BY <1>0, <1>1
<1>4. /\ s.fields[k].bits \subseteq 0..31 /\ s.fields[k].ends \in 0..Len(s.bytes)
      /\ k > 1 => s.fields[k - 1].ends \in 0..Len(s.bytes)
  BY <1>2 DEF Field
<1>5. Begins(s, k) \in Nat /\ s.fields[k].ends \in Begins(s, k)..Len(s.bytes)
  BY <1>1, <1>3, <1>4 DEF Begins
<1>6. ASSUME NEW first \in Nat, NEW last \in first..Len(s.bytes)
      PROVE  LET sent == SubSeq(s.bytes, first + 1, last)
             IN  /\ Len(sent) = last - first /\ DOMAIN sent = 1..Len(sent)
                 /\ \A j \in 1..Len(sent) : sent[j] = s.bytes[first + j]
  BY <1>0, <1>1
<1>7. /\ Len(Sent(s, k)) = s.fields[k].ends - Begins(s, k)
      /\ DOMAIN Sent(s, k) = 1..Len(Sent(s, k))
      /\ \A j \in 1..Len(Sent(s, k)) : Sent(s, k)[j] = s.bytes[Begins(s, k) + j]
  BY <1>5, <1>6 DEF Sent
<1> QED BY <1>1, <1>4, <1>5, <1>7

(* A number has the bits of its groups of seven, the lowest first.          *)
InGroups(bits, last, G) ==
    \A b \in 0..31 : b \in bits <=>
        \E j \in 1..last : \E c \in G[j] \cap 0..6 : b = c + 7 * (j - 1)

(* A group adds the bits up to the next one, and the last one all others.   *)
AddsGroup(bits, last, n, group) ==
    /\ \A b \in 0..31 : b \in bits /\ b < 7 * n + 7 <=>
           \/ b \in bits /\ b < 7 * n
           \/ \E c \in group \cap 0..6 : b = c + 7 * n
    /\ n + 1 = last => \A b \in bits : b < 7 * n + 7

(* After n groups, the next one is added above them.                        *)
LEMMA GroupsOfSeven ==
    ASSUME NEW last \in 1..5, NEW n \in 0..(last - 1), NEW bits \in SUBSET (0..31), NEW G,
           InGroups(bits, last, G)
    PROVE  AddsGroup(bits, last, n, G[n + 1])
<1>1. ASSUME NEW b \in 0..31, NEW c \in G[n + 1] \cap 0..6, b = c + 7 * n
      PROVE  b \in bits /\ b < 7 * n + 7
  <2>1. b = c + 7 * ((n + 1) - 1) /\ b < 7 * n + 7 /\ n + 1 \in 1..last
    BY <1>1
  <2> QED BY <2>1 DEF InGroups
<1>2. ASSUME NEW b \in bits
      PROVE  /\ b < 7 * n => b < 7 * n + 7
             /\ b < 7 * n + 7 => b < 7 * n \/ \E c \in G[n + 1] \cap 0..6 : b = c + 7 * n
             /\ n + 1 = last => b < 7 * n + 7
  <2>1. PICK j \in 1..last : \E c \in G[j] \cap 0..6 : b = c + 7 * (j - 1)
    BY DEF InGroups
  <2>2. PICK c \in G[j] \cap 0..6 : b = c + 7 * (j - 1)
    BY <2>1
  <2>3. /\ b < 7 * n => b < 7 * n + 7
        /\ b < 7 * n + 7 => b < 7 * n \/ j = n + 1
        /\ n + 1 = last => b < 7 * n + 7
    <3>1. c \in 0..6 /\ j \in 1..5 /\ n \in 0..4 /\ j <= last
      OBVIOUS
    <3> QED BY <2>2, <3>1
  <2>4. ASSUME j = n + 1 PROVE c \in G[n + 1] \cap 0..6 /\ b = c + 7 * n
    <3>1. j - 1 = n
      BY <2>4
    <3> QED BY <2>2, <2>4, <3>1, Zenon
  <2> QED BY <2>3, <2>4, Zenon
<1> QED BY <1>1, <1>2 DEF AddsGroup

(* What the byte after n others adds to a number, and whether it is its     *)
(* last.                                                                    *)
NextGroup(s, k, n, byte) ==
    LET bits == s.fields[k].bits
        last == Len(Sent(s, k))
    IN  /\ n <= 4
        /\ byte < 128 <=> n + 1 = last
        /\ AddsGroup(bits, last, n, Bits(byte))

(* Each byte of a number that is sent does so.                              *)
LEMMA VarIntByte ==
    ASSUME NEW s \in Script, NEW k \in 1..Len(s.fields), Fields[k] \in VarIntField,
           NEW n \in Nat, n < Len(Sent(s, k))
    PROVE  NextGroup(s, k, n, s.bytes[Begins(s, k) + (n + 1)])
<1> DEFINE last == Len(Sent(s, k))
           bits == s.fields[k].bits
           byte == s.bytes[Begins(s, k) + (n + 1)]
           G == [j \in 1..last |-> Bits(Sent(s, k)[j])]
<1>1. /\ IsVarInt(Sent(s, k), bits) /\ DOMAIN Sent(s, k) = 1..last
      /\ bits \in SUBSET (0..31)
  BY SentBytes DEF IsSent
<1>2. last \in 1..5
  BY <1>1 DEF IsVarInt
<1>3. n \in 0..(last - 1) /\ n + 1 \in 1..last /\ n <= 4
  <2> HIDE DEF last
  <2>1. n < last
    BY DEF last
  <2> QED BY <1>2, <2>1
<1>4. Sent(s, k)[n + 1] = byte
  BY <1>3, SentBytes, Zenon
<1>5. byte < 128 <=> n + 1 = last
  BY <1>1, <1>3, <1>4, Zenon DEF IsVarInt
<1>6. InGroups(bits, last, G)
  BY <1>1 DEF IsVarInt, InGroups
<1>7. G[n + 1] = Bits(byte)
  BY <1>3, <1>4
<1> HIDE DEF last, bits, byte, G
<1>8. AddsGroup(bits, last, n, Bits(byte))
  <2>1. AddsGroup(bits, last, n, G[n + 1])
    BY <1>1, <1>2, <1>3, <1>6, GroupsOfSeven, Zenon
  <2> QED BY <1>7, <2>1, Zenon
<1> QED BY <1>3, <1>5, <1>8, Zenon DEF NextGroup, last, bits, byte

-----------------------------------------------------------------------------
(* How far a script has been read. *)

(* A field is read from its first byte on, and a number byte by byte.       *)
Placed ==
    IF Reading(VarIntField)
    THEN /\ 7 * (pos - Begins(script, field)) = idx
         /\ idx < 7 * Len(Sent(script, field))
         /\ value = {b \in script.fields[field].bits : b < idx}
    ELSE pos = Begins(script, field)

(* A string is read with the length that was sent for it.                   *)
LengthKnown ==
    Reading(StringField) /\ field - 1 <= Len(script.fields) =>
        value = script.fields[field - 1].bits

(* Only a login is read on after its handshake.                             *)
OnlyLogins ==
    script.wants # "unknown" /\ field > 7 => script.wants = "login" /\ HandshakeRead

Reads ==
    /\ accepted > 0 /\ stream = script.bytes
    /\ field <= Len(script.fields) => Placed
    /\ LengthKnown /\ OnlyLogins

PeersInv == PeersTyped /\ (listening = "reading" => Reads)

(* The script of a peer is one.                                             *)
LEMMA ScriptOf == ASSUME PeersTyped, accepted > 0 PROVE script \in Script
  BY PlayerListenerAssumption DEF PeersTyped, TypeOK, script

(* Where a peer is read is one of its fields, and somewhere in its bytes.   *)
LEMMA WhereRead ==
    ASSUME PeersTyped, Reads
    PROVE  /\ script \in Script /\ Len(script.fields) \in Nat
           /\ field \in 1..13 /\ pos \in Nat /\ idx \in Nat
<1>1. script \in Script /\ accepted > 0
  BY ScriptOf DEF Reads
<1>2. Len(script.fields) \in Nat
  BY <1>1, ScriptAssumption
<1>3. HandshakeTypeOK
  BY DEF PeersTyped, TypeOK
<1>4. field \in 1..13 /\ pos \in Nat /\ idx \in Nat
  BY <1>3, FieldList, ShiftIsNat DEF HandshakeTypeOK
<1> QED BY <1>1, <1>2, <1>4

(* A byte of a number, while the peer is read as its script says.           *)
LEMMA NumberByte ==
    ASSUME PeersTyped, Reads, Reading(VarIntField), field <= Len(script.fields)
    PROVE  /\ idx <= 28
           /\ Byte < 128 <=> pos + 1 = script.fields[field].ends
           /\ WithByte = {b \in script.fields[field].bits : b < idx + 7}
           /\ Byte < 128 => WithByte = script.fields[field].bits
           /\ ~(Byte < 128) => /\ 7 * (pos + 1 - Begins(script, field)) = idx + 7
                               /\ idx + 7 < 7 * Len(Sent(script, field))
<1> DEFINE begin == Begins(script, field)
           end == script.fields[field].ends
           bits == script.fields[field].bits
           last == Len(Sent(script, field))
           n == pos - begin
<1>1. script \in Script /\ field \in 1..Len(script.fields) /\ Fields[field] \in VarIntField
  <2>1. script \in Script /\ Len(script.fields) \in Nat /\ field \in 1..13
    BY WhereRead
  <2>2. Fields[field] \in VarIntField
    BY DEF Reading
  <2> QED BY <2>1, <2>2
<1>2. begin \in Nat /\ end \in Nat /\ last = end - begin /\ bits \subseteq 0..31
  <2>1. /\ begin \in Nat /\ end \in begin..Len(script.bytes)
        /\ last = end - begin /\ bits \subseteq 0..31
    BY <1>1, SentBytes, Zenon
  <2> HIDE DEF begin, end, last, bits
  <2>2. \A k \in Nat : \A m : \A l \in k..m : l \in Nat
    OBVIOUS
  <2> QED BY <2>1, <2>2, Zenon
<1>3. pos \in Nat /\ idx \in Nat
  BY WhereRead
<1>4. 7 * n = idx /\ idx < 7 * last /\ value = {b \in bits : b < idx}
  BY <1>1 DEF Reads, Placed
<1> SUFFICES /\ idx <= 28
             /\ Byte < 128 <=> pos + 1 = end
             /\ WithByte = {b \in bits : b < idx + 7}
             /\ Byte < 128 => WithByte = bits
             /\ ~(Byte < 128) => 7 * (pos + 1 - begin) = idx + 7 /\ idx + 7 < 7 * last
  OBVIOUS
<1> HIDE DEF begin, end, bits, last, n
<1>5. n \in Nat /\ n < last /\ pos = begin + n /\ last \in Int
  BY <1>2, <1>3, <1>4 DEF n
<1>6. Byte = script.bytes[begin + (n + 1)]
  BY <1>2, <1>5 DEF Byte, Reads
<1>7. /\ n <= 4
      /\ Byte < 128 <=> n + 1 = last
      /\ \A b \in 0..31 : b \in bits /\ b < 7 * n + 7 <=>
             \/ b \in bits /\ b < 7 * n
             \/ \E c \in Bits(Byte) \cap 0..6 : b = c + 7 * n
      /\ n + 1 = last => \A b \in bits : b < 7 * n + 7
  <2>1. NextGroup(script, field, n, script.bytes[begin + (n + 1)])
    BY <1>1, <1>5, VarIntByte, Zenon DEF begin, last
  <2>2. NextGroup(script, field, n, Byte)
    BY <1>6, <2>1, Zenon
  <2> QED BY <2>2, Zenon DEF NextGroup, AddsGroup, bits, last
<1>8. idx <= 28 /\ idx % 32 = 7 * n
  <2>1. n \in 0..4 /\ idx = 7 * n
    BY <1>4, <1>5, <1>7
  <2>2. \A m \in 0..4 : 7 * m <= 28 /\ (7 * m) % 32 = 7 * m
    OBVIOUS
  <2> QED BY <2>1, <2>2
<1>9. WithByte = {b \in bits : b < 7 * n + 7}
  <2>1. WithByte = value \cup ({c + 7 * n : c \in Bits(Byte) \cap 0..6} \cap 0..31)
    BY <1>8 DEF WithByte
  <2> QED BY <1>2, <1>4, <1>7, <2>1
<1>10. Byte < 128 <=> pos + 1 = end
  <2>1. n + 1 = last <=> pos + 1 = end
    BY <1>2, <1>5
  <2> QED BY <1>7, <2>1, Zenon
<1>11. ~(Byte < 128) => 7 * (pos + 1 - begin) = idx + 7 /\ idx + 7 < 7 * last
  <2>1. ~(Byte < 128) => n + 1 # last
    BY <1>7
  <2>2. pos + 1 - begin = n + 1
    BY <1>2, <1>5
  <2> QED BY <1>4, <1>5, <2>1, <2>2
<1> QED BY <1>4, <1>7, <1>8, <1>9, <1>10, <1>11

(* The handshake of a peer of the protocol ends somewhere in its bytes.     *)
LEMMA HandshakeIsSent ==
    ASSUME PeersTyped, accepted > 0, script.wants # "unknown"
    PROVE  /\ Len(script.fields) >= 7 /\ script.fields[7].ends \in Nat
           /\ script.wants = "login" <=> script.fields[7].bits = {1}
           /\ script.wants = "login" => Len(script.fields) >= 10
           /\ HandshakeRead <=> pos >= script.fields[7].ends
<1>1. script \in Script
  BY ScriptOf
<1>2. Len(script.fields) \in Nat
  BY <1>1, ScriptAssumption
<1>3. /\ Len(script.fields) >= 7
      /\ script.wants = "login" <=> script.fields[7].bits = {1}
      /\ script.wants = "login" => Len(script.fields) >= 10
  <2>1. SpeaksProtocol(script)
    BY <1>1, ScriptAssumption
  <2> QED BY <2>1, FieldList DEF SpeaksProtocol
<1>4. script.fields[7].ends \in Nat
  <2>1. 7 \in 1..Len(script.fields)
    BY <1>2, <1>3
  <2> DEFINE s == script
  <2>2. s \in Script /\ 7 \in 1..Len(s.fields)
    BY <1>1, <2>1
  <2> HIDE DEF s
  <2>3. Begins(s, 7) \in Nat /\ s.fields[7].ends \in Begins(s, 7)..Len(s.bytes)
    BY <2>2, SentBytes, Zenon
  <2>4. Len(s.bytes) \in Nat
    <3>1. s.bytes \in Seq(0..255)
      BY <2>2, ScriptAssumption
    <3> QED BY <3>1, LenProperties, Zenon
  <2>5. s.fields[7].ends \in Nat
    BY <2>3, <2>4
  <2> QED BY <2>5 DEF s
<1> QED BY <1>3, <1>4, FieldList DEF HandshakeRead

(* Once a field is read to its end, the next one is where it begins.        *)
LEMMA NextPlaced ==
    ASSUME PeersTyped, Reads, NEW bits \in SUBSET (0..31), NextField(bits), field < 13,
           field <= Len(script.fields) =>
               /\ pos' = script.fields[field].ends
               /\ field \in {4, 10} => bits = script.fields[field].bits,
           UNCHANGED <<stream, accepted, scripts>>, OnlyLogins'
    PROVE  Reads'
<1>1. /\ field' = field + 1 /\ idx' = 0
      /\ value' = IF Fields[field + 1] \in StringField THEN bits ELSE {}
      /\ script' = script /\ script \in Script
  BY ScriptOf DEF NextField, Reads, script
<1>2. field \in 1..12 /\ field' \in 2..13 /\ Len(script.fields) \in Nat
  <2>1. field \in 1..13
    BY FieldList DEF PeersTyped, TypeOK, HandshakeTypeOK
  <2> QED BY <1>1, <2>1, ScriptAssumption
<1>3. /\ Reading(VarIntField)' <=> field' \in {1, 2, 3, 4, 7, 8, 9, 10}
      /\ Reading(StringField)' <=> field' \in {5, 11}
      /\ Fields[field'] \in VarIntField <=> field' \in {1, 2, 3, 4, 7, 8, 9, 10}
      /\ Fields[field'] \in StringField <=> field' \in {5, 11}
  <2>1. field' \in 1..13
    BY <1>2
  <2> QED BY <2>1, FieldKinds DEF Reading
<1>4. ASSUME field' <= Len(script.fields) PROVE Placed'
  <2>1. field' \in 1..Len(script.fields) /\ field <= Len(script.fields)
    BY <1>1, <1>2, <1>4
  <2>2. Begins(script, field') = script.fields[field].ends
    <3>1. field' # 1 /\ field' - 1 = field
      BY <1>1, <1>2
    <3> QED BY <3>1 DEF Begins
  <2>3. pos' = Begins(script, field') /\ Begins(script, field') \in Nat
    BY <1>1, <2>1, <2>2, SentBytes
  <2>4. CASE Reading(VarIntField)'
    <3>1. IsVarInt(Sent(script, field'), script.fields[field'].bits)
      BY <1>1, <1>3, <2>1, <2>4, SentBytes DEF IsSent
    <3>2. Len(Sent(script, field')) \in 1..5
      BY <3>1 DEF IsVarInt
    <3>3. value' = {}
      BY <1>1, <1>2, <1>3, <2>4
    <3>4. script.fields[field'].bits \subseteq 0..31
      BY <1>1, <2>1, SentBytes
    <3>5. {b \in script.fields[field'].bits : b < 0} = {}
      <4>1. \A b \in 0..31 : ~(b < 0)
        OBVIOUS
      <4> QED BY <3>4, <4>1
    <3>6. 7 * (pos' - Begins(script, field')) = 0 /\ 0 < 7 * Len(Sent(script, field'))
      <4>1. \A begin \in Nat : 7 * (begin - begin) = 0
        OBVIOUS
      <4>2. 7 * (pos' - Begins(script, field')) = 0
        BY <2>3, <4>1, Zenon
      <4>3. \A size \in 1..5 : 0 < 7 * size
        OBVIOUS
      <4>4. 0 < 7 * Len(Sent(script, field'))
        BY <3>2, <4>3, Zenon
      <4> QED BY <4>2, <4>4, Zenon
    <3> QED BY <1>1, <2>4, <3>3, <3>5, <3>6 DEF Placed
  <2>5. CASE ~Reading(VarIntField)'
    BY <1>1, <2>3, <2>5 DEF Placed
  <2> QED BY <2>4, <2>5
<1>5. LengthKnown'
  <2> SUFFICES ASSUME Reading(StringField)', field' - 1 <= Len(script.fields)
               PROVE  value' = script.fields[field' - 1].bits
    BY <1>1 DEF LengthKnown
  <2>1. field' - 1 = field /\ field \in {4, 10} /\ Fields[field + 1] \in StringField
    BY <1>1, <1>2, <1>3
  <2> QED BY <1>1, <2>1
<1>6. accepted' > 0 /\ stream' = script'.bytes
  BY <1>1 DEF Reads
<1> QED BY <1>1, <1>4, <1>5, <1>6 DEF Reads

(* Reading on takes nothing from what was read.                             *)
LEMMA LoginsStay ==
    ASSUME PeersTyped, Reads, PeersTyped', pos' >= pos, UNCHANGED <<accepted, scripts>>,
           field' <= 7 \/ field > 7
    PROVE  OnlyLogins'
<1>1. script' = script /\ accepted > 0 /\ accepted' > 0
  BY DEF script, Reads
<1>2. SUFFICES ASSUME script.wants # "unknown", field' > 7
               PROVE  script.wants = "login" /\ HandshakeRead'
  BY <1>1 DEF OnlyLogins
<1>3. field > 7
  BY <1>2 DEF PeersTyped, TypeOK, HandshakeTypeOK
<1>4. script.wants = "login" /\ HandshakeRead
  BY <1>2, <1>3 DEF Reads, OnlyLogins
<1>5. pos \in Nat /\ pos' \in Nat /\ script.fields[7].ends \in Nat
  BY <1>1, <1>2, HandshakeIsSent DEF PeersTyped, TypeOK, HandshakeTypeOK
<1>6. HandshakeRead'
  BY <1>1, <1>4, <1>5, FieldList DEF HandshakeRead
<1> QED BY <1>4, <1>6

(* A byte of a number leaves the number as far as it was sent.              *)
LEMMA NumberReads ==
    ASSUME PeersTyped, PeersTyped', Reads, UNCHANGED <<accepted, scripts>>,
           ContinueVarInt("more") \/ FinishVarInt("more") \/ ReadNextState("more")
    PROVE  Reads'
<1>0. /\ ReadByte /\ Reading(VarIntField) /\ pos' = pos + 1 /\ stream' = stream
      /\ pos \in Nat /\ field \in 1..13 /\ idx \in Nat
  <2>1. ReadByte
    BY DEF ContinueVarInt, FinishVarInt, ReadNextState
  <2>2. pos \in Nat /\ field \in 1..13 /\ idx \in {7 * k : k \in 0..9}
    BY FieldList DEF PeersTyped, TypeOK, HandshakeTypeOK
  <2>3. idx \in Nat
    BY <2>2
  <2> QED BY <2>1, <2>2, <2>3 DEF ReadByte
<1>1. /\ script' = script /\ accepted' = accepted /\ accepted > 0
      /\ stream' = script'.bytes
      /\ field <= Len(script.fields) => Placed
  BY <1>0 DEF Reads, script
<1>2. field \in {1, 2, 3, 4, 7, 8, 9, 10}
  BY <1>0, FieldReads
<1>3. WithByte \in SUBSET (0..31)
  BY WithByteTyped DEF PeersTyped, TypeOK
<1>4. CASE ContinueVarInt("more")
  <2>1. field' = field /\ ~(Byte < 128)
    <3>1. Byte \in 0..255
      <4>1. stream \in Seq(0..255) /\ pos + 1 \in 1..Len(stream)
        BY <1>0 DEF ReadByte, PeersTyped, TypeOK, HandshakeTypeOK
      <4> QED BY <4>1, ElementOfSeq, Zenon DEF Byte
    <3> QED BY <1>4, <3>1 DEF ContinueVarInt
  <2>2. idx' = idx + 7 /\ value' = WithByte
    BY <1>4 DEF ContinueVarInt, Shift, Error
  <2>3. Reading(VarIntField)' /\ ~Reading(StringField)'
    BY <1>2, <2>1, FieldReads, FieldKinds DEF Reading
  <2>4. ASSUME field <= Len(script.fields) PROVE Placed'
    <3>1. /\ WithByte = {b \in script.fields[field].bits : b < idx + 7}
          /\ 7 * (pos + 1 - Begins(script, field)) = idx + 7
          /\ idx + 7 < 7 * Len(Sent(script, field))
      BY <1>0, <2>1, <2>4, NumberByte
    <3>2. /\ 7 * (pos' - Begins(script', field')) = idx'
          /\ idx' < 7 * Len(Sent(script', field'))
          /\ value' = {b \in script'.fields[field'].bits : b < idx'}
      <4>1. 7 * (pos' - Begins(script', field')) = idx'
        <5>1. Begins(script', field') = Begins(script, field)
          BY <1>1, <2>1
        <5>2. pos' = pos + 1 /\ idx' = idx + 7
          BY <1>0, <2>2
        <5>3. 7 * (pos' - Begins(script, field)) = idx'
          <6>1. Begins(script, field) \in Int
            BY <1>0, <2>4, ScriptOf, SentBytes DEF Reads
          <6>2. \A begin \in Int : 7 * (pos + 1 - begin) = idx + 7 => 7 * (pos' - begin) = idx'
            BY <1>0, <5>2
          <6> QED BY <3>1, <6>1, <6>2, Zenon
        <5> QED BY <5>1, <5>3
      <4>2. idx' < 7 * Len(Sent(script', field'))
        BY <1>0, <1>1, <2>1, <2>2, <3>1, Zenon
      <4>3. value' = {b \in script'.fields[field'].bits : b < idx'}
        BY <1>1, <2>1, <2>2, <3>1
      <4> QED BY <4>1, <4>2, <4>3
    <3> QED BY <2>3, <3>2, Zenon DEF Placed
  <2>5. OnlyLogins'
    <3>1. pos' >= pos /\ (field' <= 7 \/ field > 7)
      BY <1>0, <2>1
    <3> QED BY <3>1, LoginsStay
  <2>6. LengthKnown'
    BY <2>3 DEF LengthKnown
  <2>7. field' <= Len(script'.fields) => Placed'
    BY <1>1, <2>1, <2>4
  <2> QED BY <1>1, <2>5, <2>6, <2>7, Zenon DEF Reads
<1>5. CASE FinishVarInt("more")
  <2>1. NextField(WithByte) /\ Byte < 128 /\ field # 7
    BY <1>0, <1>5, FieldReads DEF FinishVarInt
  <2>2. field <= Len(script.fields) =>
           pos' = script.fields[field].ends /\ WithByte = script.fields[field].bits
    BY <1>0, <2>1, NumberByte
  <2>3. OnlyLogins'
    <3>1. field' = field + 1
      BY <2>1 DEF NextField
    <3>2. pos' >= pos /\ (field' <= 7 \/ field > 7)
      BY <1>0, <2>1, <3>1
    <3> QED BY <3>2, LoginsStay
  <2>4. field < 13
    BY <1>2
  <2> QED BY <1>0, <1>3, <2>1, <2>2, <2>3, <2>4, NextPlaced
<1>6. CASE ReadNextState("more")
  <2>1. NextField({}) /\ Byte < 128 /\ field = 7 /\ WithByte = {1}
    BY <1>0, <1>6, FieldReads DEF ReadNextState, WantsLogin
  <2>2. field <= Len(script.fields) =>
           pos' = script.fields[field].ends /\ WithByte = script.fields[field].bits
    BY <1>0, <2>1, NumberByte
  <2>3. OnlyLogins'
    <3>1. ASSUME script.wants # "unknown"
          PROVE  script.wants = "login" /\ HandshakeRead'
      <4>1. /\ Len(script.fields) >= 7 /\ script.fields[7].ends \in Nat
            /\ script.wants = "login" <=> script.fields[7].bits = {1}
        BY <1>1, <3>1, HandshakeIsSent
      <4>2. script.wants = "login" /\ pos' = script.fields[7].ends
        BY <2>1, <2>2, <4>1
      <4> QED BY <1>1, <4>1, <4>2, FieldList DEF HandshakeRead
    <3> QED BY <1>1, <3>1 DEF OnlyLogins
  <2>4. field < 13 /\ field \notin {4, 10} /\ {} \in SUBSET (0..31)
    BY <2>1
  <2> QED BY <1>0, <2>1, <2>2, <2>3, <2>4, NextPlaced
<1> QED BY <1>4, <1>5, <1>6

(* What is read at once is read to its end.                                 *)
LEMMA ExactReads ==
    ASSUME PeersTyped, Reads, ReadExact, field <= Len(script.fields), field \in {5, 6, 11, 12, 13}
    PROVE  pos' = script.fields[field].ends
<1>1. script \in Script /\ field \in 1..Len(script.fields) /\ field \in 1..13
  BY ScriptOf DEF Reads
<1>2. /\ ~Reading(VarIntField)
      /\ Reading(StringField) <=> field \in {5, 11}
      /\ Reading({"server_port"}) <=> field = 6
      /\ Reading({"has_player_uuid"}) <=> field = 12
      /\ Reading({"player_uuid"}) <=> field = 13
  BY <1>1, FieldReads
<1>3. /\ Begins(script, field) \in Nat /\ script.fields[field].ends \in Nat
      /\ Len(Sent(script, field)) = script.fields[field].ends - Begins(script, field)
      /\ IsSent(script, field)
  BY <1>1, SentBytes
<1>4. pos = Begins(script, field) /\ pos' \in pos..Len(script.bytes)
  BY <1>2 DEF Reads, Placed, ReadExact
<1>5. Len(script.bytes) \in Nat
  BY <1>1, ScriptAssumption
<1>6. pos' - pos = Len(Sent(script, field))
  <2>1. CASE field \in {5, 11}
    <3>1. IsString(script, field)
      BY <1>1, <1>3, <2>1, FieldKinds DEF IsSent
    <3>2. value = script.fields[field - 1].bits
      BY <1>1, <1>2, <2>1 DEF Reads, LengthKnown
    <3>3. value = Bits(pos' - pos)
      BY <1>2, <2>1 DEF ReadExact, HasLength
    <3>4. pos' - pos \in 0..Len(script.bytes)
      BY <1>3, <1>4, <1>5
    <3> QED BY <3>1, <3>2, <3>3, <3>4 DEF IsString
  <2>2. CASE field = 6
    BY <1>2, <1>3, <2>2, FieldList DEF ReadExact, HasLength, IsSent
  <2>3. CASE field = 12
    BY <1>2, <1>3, <2>3, FieldList DEF ReadExact, HasLength, IsSent
  <2>4. CASE field = 13
    BY <1>2, <1>3, <2>4, FieldList DEF ReadExact, HasLength, IsSent
  <2> QED BY <2>1, <2>2, <2>3, <2>4
<1>7. pos' \in Int
  BY <1>3, <1>4, <1>5
<1> QED BY <1>3, <1>4, <1>6, <1>7

(* So the field after it is where the script has it.                        *)
LEMMA BytesRead ==
    ASSUME PeersTyped, PeersTyped', Reads, UNCHANGED <<accepted, scripts>>,
           ReadString("more") \/ ReadUnsignedShort("more") \/ ReadBool("more")
    PROVE  Reads'
<1>0. field \in 1..13 /\ pos \in Nat /\ Len(stream) \in Nat
  BY FieldList DEF PeersTyped, TypeOK, HandshakeTypeOK
<1>1. ReadExact /\ field \in {5, 6, 11, 12}
  BY <1>0, FieldReads DEF ReadString, ReadUnsignedShort, ReadBool
<1>2. NextField({})
  BY <1>0, <1>1, FieldReads DEF ReadString, ReadUnsignedShort, ReadBool, Error
<1>3. stream' = stream /\ pos' >= pos
  BY <1>0, <1>1 DEF ReadExact
<1>4. OnlyLogins'
  <2>1. field' = field + 1
    BY <1>2 DEF NextField
  <2>2. field' <= 7 \/ field > 7
    BY <1>1, <2>1
  <2> QED BY <1>3, <2>2, LoginsStay
<1>5. field <= Len(script.fields) => pos' = script.fields[field].ends
  BY <1>1, ExactReads
<1>6. field < 13 /\ field \notin {4, 10} /\ {} \in SUBSET (0..31)
  BY <1>1
<1> QED BY <1>2, <1>3, <1>4, <1>5, <1>6, NextPlaced

(* A peer that is not done with is read as its script says.                 *)
LEMMA MoreReads ==
    ASSUME PeersTyped, PeersTyped', Reads, UNCHANGED <<accepted, scripts>>, Read("more")
    PROVE  Reads'
<1>1. ~StreamEnds("more") /\ ~ShiftOverflows("more") /\ ~MakeBuffer("more") /\ ~ReadUuid("more")
  BY DEF StreamEnds, ShiftOverflows, MakeBuffer, ReadUuid, Error
<1> QED BY <1>1, NumberReads, BytesRead DEF Read

(* Nothing is read yet of a peer that is accepted.                          *)
LEMMA AcceptReads == ASSUME PeersTyped, PeersTyped', Accept PROVE Reads'
<1>1. /\ pos' = 0 /\ field' = 1 /\ idx' = 0 /\ value' = {}
      /\ accepted' = accepted + 1 /\ stream' = script'.bytes
  BY DEF Accept, Opened, script
<1>2. accepted' > 0
  BY <1>1 DEF PeersTyped, TypeOK
<1>3. script' \in Script
  BY <1>2, PlayerListenerAssumption DEF PeersTyped, TypeOK, script
<1>4. Reading(VarIntField)' /\ ~Reading(StringField)'
  BY <1>1, FieldKinds DEF Reading
<1>5. ASSUME field' <= Len(script'.fields) PROVE Placed'
  <2>1. 1 \in 1..Len(script'.fields)
    BY <1>1, <1>3, <1>5, ScriptAssumption
  <2>2. Len(Sent(script', 1)) \in 1..5 /\ script'.fields[1].bits \subseteq 0..31
    <3>1. IsVarInt(Sent(script', 1), script'.fields[1].bits)
      BY <1>3, <2>1, SentBytes, FieldKinds DEF IsSent
    <3> QED BY <1>3, <2>1, <3>1, SentBytes DEF IsVarInt
  <2>3. Begins(script', 1) = 0
    BY DEF Begins
  <2>4. {b \in script'.fields[1].bits : b < 0} = {}
    <3>1. \A b \in 0..31 : ~(b < 0)
      OBVIOUS
    <3> QED BY <2>2, <3>1
  <2>5. 7 * (0 - 0) = 0 /\ 0 < 7 * Len(Sent(script', 1))
    BY <2>2
  <2> QED BY <1>1, <1>4, <2>3, <2>4, <2>5 DEF Placed
<1>6. LengthKnown' /\ OnlyLogins'
  BY <1>1, <1>4 DEF LengthKnown, OnlyLogins
<1> QED BY <1>1, <1>2, <1>5, <1>6 DEF Reads

(* Every step leaves the peer where its script has it.                      *)
LEMMA PeersInvStep == PeersInv /\ [Next]_vars => PeersInv'
<1> SUFFICES ASSUME PeersInv, [Next]_vars PROVE PeersInv'
  OBVIOUS
<1>1. PeersTyped /\ PeersTyped'
  BY PlayersTypedStep DEF PeersInv
<1> SUFFICES ASSUME listening' = "reading" PROVE Reads'
  BY <1>1 DEF PeersInv
<1>2. ASSUME listening = "reading", UNCHANGED <<connVars, accepted, scripts>> PROVE Reads'
  BY <1>2 DEF PeersInv, Reads, connVars, script, Placed, LengthKnown, OnlyLogins, HandshakeRead,
              Reading
<1>3. CASE Accept
  BY <1>1, <1>3, AcceptReads
<1>4. CASE IsClientConnection
  <2>1. Read("more") /\ listening = "reading" /\ UNCHANGED <<accepted, scripts>>
    BY <1>4 DEF IsClientConnection, peerVars
  <2> QED BY <1>1, <2>1, MoreReads DEF PeersInv
<1>5. CASE Connect \/ Receive \/ CancelAll \/ UNCHANGED vars
  BY <1>2, <1>5 DEF Connect, Receive, CancelAll, vars, peerVars
<1>6. CASE Bind \/ SocketFails \/ RequestStart \/ CancelListener
  BY <1>6 DEF Bind, SocketFails, RequestStart, CancelListener
<1> QED BY <1>3, <1>4, <1>5, <1>6 DEF Next, ListenerStep

(* Every peer is read as its script says, as long as it has one.            *)
LEMMA PeersInvariant == Spec => []PeersInv
<1>1. Init => PeersInv
  BY PeersTypedInit DEF PeersInv, Init
<1> QED BY <1>1, PeersInvStep, PTL DEF Spec

(* The lengths of the packets are not looked at, and still every field that *)
(* a peer sent begins where the one before it ended, and each number has   *)
(* the bits that its bytes so far tell, negative ones too                  *)
(* (protocol.rs:80-125).                                                   *)
THEOREM FieldsAreReadRight == Spec => []FieldsAreRead
<1>1. ASSUME PeersInv, listening = "reading", field <= Len(script.fields), ~Reading(VarIntField)
      PROVE  HasLength(Len(Sent(script, field)))
  <2>1. PeersTyped /\ Reads /\ script \in Script /\ field \in 1..13
    BY <1>1, ScriptOf, FieldList DEF PeersInv, Reads, PeersTyped, TypeOK, HandshakeTypeOK
  <2>2. field \in 1..Len(script.fields) /\ Len(script.bytes) \in Nat
    BY <1>1, <2>1, ScriptAssumption
  <2>3. /\ IsSent(script, field)
        /\ Len(Sent(script, field)) \in 0..Len(script.bytes)
    <3>1. /\ IsSent(script, field) /\ Begins(script, field) \in Nat
          /\ script.fields[field].ends \in Begins(script, field)..Len(script.bytes)
          /\ Len(Sent(script, field)) = script.fields[field].ends - Begins(script, field)
      BY <2>1, <2>2, SentBytes
    <3> QED BY <2>2, <3>1
  <2>4. field \in {5, 6, 11, 12, 13}
    BY <1>1, <2>1, FieldReads
  <2>5. CASE field \in {5, 11}
    <3>1. Reading(StringField)
      BY <2>1, <2>5, FieldReads
    <3>2. IsString(script, field)
      BY <2>3, <3>1 DEF IsSent, Reading
    <3>3. value = script.fields[field - 1].bits
      BY <2>1, <2>2, <3>1 DEF Reads, LengthKnown
    <3> QED BY <2>3, <3>1, <3>2, <3>3 DEF IsString, HasLength
  <2>6. CASE field \in {6, 12, 13}
    BY <2>1, <2>3, <2>6, FieldReads, FieldKinds DEF IsSent, HasLength
  <2> QED BY <2>4, <2>5, <2>6
<1>2. PeersInv => FieldsAreRead
  BY <1>1 DEF FieldsAreRead, PeersInv, Reads, Placed
<1> QED BY <1>2, PeersInvariant, PTL

-----------------------------------------------------------------------------
(* What a connection comes to. *)

(* A place before the end of the last field of a handshake.                *)
LEMMA BeforeTheEnd ==
    ASSUME PeersTyped, Reads, script.wants # "unknown", NEW end \in Nat,
           pos < end, end <= script.fields[7].ends
    PROVE  ~HandshakeRead
<1>1. HandshakeRead <=> pos >= script.fields[7].ends
  BY HandshakeIsSent DEF Reads
<1>2. pos \in Nat /\ script.fields[7].ends \in Nat
  BY WhereRead, HandshakeIsSent DEF Reads
<1>3. \A here, last \in Nat : here < end /\ end <= last => ~(here >= last)
  OBVIOUS
<1> QED BY <1>1, <1>2, <1>3, Zenon

(* The end of the field before it is such a place.                          *)
LEMMA BeforeTheLast ==
    ASSUME PeersTyped, Reads, script.wants # "unknown", NEW end \in Nat,
           pos <= end, end < script.fields[7].ends
    PROVE  ~HandshakeRead
<1>1. HandshakeRead <=> pos >= script.fields[7].ends
  BY HandshakeIsSent DEF Reads
<1>2. pos \in Nat /\ script.fields[7].ends \in Nat
  BY WhereRead, HandshakeIsSent DEF Reads
<1>3. \A here, last \in Nat : here <= end /\ end < last => ~(here >= last)
  OBVIOUS
<1> QED BY <1>1, <1>2, <1>3, Zenon

(* Before the last field of a handshake is read, some of it is to come.     *)
LEMMA HandshakeToCome ==
    ASSUME PeersTyped, Reads, script.wants # "unknown", field <= 7
    PROVE  ~HandshakeRead
<1>1. script \in Script /\ field \in 1..7 /\ pos \in Nat /\ idx \in Nat
  BY WhereRead
<1>2. Len(script.fields) \in Nat /\ Len(script.fields) >= 7 /\ script.fields[7].ends \in Nat
  BY WhereRead, HandshakeIsSent DEF Reads
<1>3. field \in 1..Len(script.fields) /\ 7 \in 1..Len(script.fields)
  BY <1>1, <1>2
<1>4. /\ Placed /\ Begins(script, field) \in Nat /\ script.fields[field].ends \in Nat
      /\ Len(Sent(script, field)) = script.fields[field].ends - Begins(script, field)
  <2>1. field <= Len(script.fields)
    BY <1>3
  <2>2. Placed
    BY <2>1 DEF Reads
  <2> QED BY <1>1, <1>3, <2>2, SentBytes
<1>5. \A j, k \in 1..Len(script.fields) : j <= k => script.fields[j].ends <= script.fields[k].ends
  <2>1. DOMAIN script.fields = 1..Len(script.fields)
    BY <1>1, ScriptAssumption
  <2> QED BY <1>1, <2>1, ScriptAssumption
<1>6. CASE Reading(VarIntField)
  <2>1. /\ 7 * (pos - Begins(script, field)) = idx
        /\ idx < 7 * (script.fields[field].ends - Begins(script, field))
    BY <1>4, <1>6 DEF Placed
  <2>2. \A p, begin, end \in Nat : 7 * (p - begin) < 7 * (end - begin) => p < end
    OBVIOUS
  <2>3. pos < script.fields[field].ends
    BY <1>1, <1>4, <2>1, <2>2
  <2>4. script.fields[field].ends <= script.fields[7].ends
    BY <1>1, <1>3, <1>5
  <2> QED BY <1>2, <1>4, <2>3, <2>4, BeforeTheEnd
<1>7. CASE ~Reading(VarIntField)
  <2>1. field \in {5, 6}
    BY <1>1, <1>7, FieldReads
  <2>2. pos = script.fields[field - 1].ends /\ field - 1 \in {4, 5}
    BY <1>4, <1>7, <2>1 DEF Placed, Begins
  <2>3. pos <= script.fields[6].ends
    <3>1. 4 \in 1..Len(script.fields) /\ 5 \in 1..Len(script.fields) /\ 6 \in 1..Len(script.fields)
      BY <1>2
    <3> QED BY <1>5, <2>2, <3>1
  <2>4. script.fields[6].ends \in Nat /\ script.fields[6].ends < script.fields[7].ends
    <3>1. 6 \in 1..Len(script.fields)
      BY <1>2
    <3>2. script.fields[6].ends \in Nat /\ Begins(script, 7) = script.fields[6].ends
      <4>1. script.fields[6].ends \in Begins(script, 6)..Len(script.bytes)
            /\ Begins(script, 6) \in Nat
        BY <1>1, <3>1, SentBytes
      <4>2. script.fields[6].ends \in Nat
        BY <1>1, <4>1, ScriptAssumption
      <4>3. Begins(script, 7) = script.fields[6].ends
        BY DEF Begins
      <4> QED BY <4>2, <4>3
    <3>3. IsVarInt(Sent(script, 7), script.fields[7].bits)
      BY <1>1, <1>3, SentBytes, FieldKinds DEF IsSent
    <3>4. Len(Sent(script, 7)) \in 1..5
      BY <3>3 DEF IsVarInt
    <3>5. Len(Sent(script, 7)) = script.fields[7].ends - script.fields[6].ends
      BY <1>1, <1>3, <3>2, SentBytes
    <3>6. \A begin, end \in Nat : end - begin \in 1..5 => begin < end
      OBVIOUS
    <3>7. script.fields[7].ends - script.fields[6].ends \in 1..5
      BY <3>4, <3>5
    <3> QED BY <1>2, <3>2, <3>6, <3>7, Zenon
  <2> QED BY <2>3, <2>4, BeforeTheLast
<1> QED BY <1>6, <1>7

(* Numbers that peers of the protocol send are no reason to panic.          *)
LEMMA NoPanic ==
    ASSUME PeersTyped, Reads, script.wants # "unknown"
    PROVE  ~Read("panic")
<1>1. script \in Script /\ field \in 1..13 /\ Len(script.fields) \in Nat /\ idx \in Nat
  BY WhereRead
<1>2. field <= 10 => field \in 1..Len(script.fields)
  <2>1. /\ Len(script.fields) >= 7
        /\ script.wants = "login" => Len(script.fields) >= 10
    BY HandshakeIsSent DEF Reads
  <2>2. field > 7 => script.wants = "login"
    BY DEF Reads, OnlyLogins
  <2> QED BY <1>1, <2>1, <2>2
<1>3. ~ShiftOverflows("panic")
  <2> SUFFICES ASSUME ReadByte PROVE idx <= 28
    BY <1>1 DEF ShiftOverflows
  <2>1. Reading(VarIntField) /\ field \in {1, 2, 3, 4, 7, 8, 9, 10}
    BY <1>1, FieldReads DEF ReadByte
  <2>2. field <= Len(script.fields)
    BY <1>1, <1>2, <2>1
  <2> QED BY <2>1, <2>2, NumberByte
<1>4. ~MakeBuffer("panic")
  <2> SUFFICES ASSUME Overlong PROVE FALSE
    BY DEF MakeBuffer
  <2>1. Reading(StringField) /\ field - 1 \in {4, 10} /\ field <= 11 /\ Negative(value)
    BY <1>1, FieldReads DEF Overlong
  <2>2. field - 1 \in 1..Len(script.fields)
    <3>1. /\ Len(script.fields) >= 7
          /\ script.wants = "login" => Len(script.fields) >= 10
      BY HandshakeIsSent DEF Reads
    <3>2. field > 7 => script.wants = "login"
      BY DEF Reads, OnlyLogins
    <3> QED BY <1>1, <2>1, <3>1, <3>2
  <2>3. value = script.fields[field - 1].bits
    BY <1>1, <2>1, <2>2 DEF Reads, LengthKnown
  <2>4. ~Negative(script.fields[field - 1].bits)
    <3>1. IsSent(script, field - 1)
      BY <1>1, <2>2, SentBytes
    <3> QED BY <2>1, <3>1, FieldKinds DEF IsSent
  <2> QED BY <2>1, <2>3, <2>4
<1>5. /\ ~StreamEnds("panic") /\ ~ContinueVarInt("panic") /\ ~FinishVarInt("panic")
      /\ ~ReadNextState("panic") /\ ~ReadString("panic") /\ ~ReadUnsignedShort("panic")
      /\ ~ReadBool("panic") /\ ~ReadUuid("panic")
  BY DEF StreamEnds, ContinueVarInt, FinishVarInt, ReadNextState, ReadString,
         ReadUnsignedShort, ReadBool, ReadUuid, Error
<1> QED BY <1>3, <1>4, <1>5 DEF Read

(* It is a client from the login start on, and nothing else before.         *)
LEMMA OutcomeOfRead ==
    ASSUME PeersTyped, NEW outcome \in {"client", "other"}, Read(outcome)
    PROVE  outcome = "client" <=> field > 7
<1>1. field \in 1..13
  BY FieldList DEF PeersTyped, TypeOK, HandshakeTypeOK
<1>2. Error = "client" <=> field > 7
  BY FieldList DEF Error
<1>3. CASE outcome = Error
  BY <1>2, <1>3
<1>4. CASE ReadNextState(outcome)
  BY <1>1, <1>4, FieldReads DEF ReadNextState
<1>5. CASE ReadBool(outcome) \/ ReadUuid(outcome)
  BY <1>1, <1>5, FieldReads DEF ReadBool, ReadUuid
<1>6. CASE ContinueVarInt(outcome)
  BY <1>3, <1>6 DEF ContinueVarInt
<1>7. CASE ReadString(outcome)
  BY <1>3, <1>7 DEF ReadString
<1> QED BY <1>3, <1>4, <1>5, <1>6, <1>7 DEF Read, StreamEnds, ShiftOverflows, FinishVarInt,
                                            MakeBuffer, ReadUnsignedShort

(* Whichever peers speak the protocol, in whatever pieces their bytes come: *)
(* those that log in start the server, also those whose login start is of  *)
(* another version or never comes, and no other peer does                  *)
(* (listener_task.rs:86-96).                                               *)
THEOREM LoginsAreToldApart == Spec => ClientsAreToldApart
<1>1. ASSUME PeersInv, [Next]_vars, listening = "reading", listening' # "reading",
             script.wants # "unknown"
      PROVE  \/ listening' = "sending" /\ LoginRead
             \/ listening' = "accepting" /\ ~LoginRead
             \/ listening' = "done" /\ Cancelled("listener", 1)
  <2>0. PeersTyped /\ Reads
    BY <1>1 DEF PeersInv
  <2>1. CASE IsClientConnection
    <3>1. PICK outcome \in {"more", "client", "other", "panic"} :
              /\ Read(outcome)
              /\ listening' = CASE outcome = "more"   -> "reading"
                                [] outcome = "client" -> "sending"
                                [] outcome = "other"  -> "accepting"
                                [] outcome = "panic"  -> "panicked"
      BY <2>1 DEF IsClientConnection
    <3>2. outcome # "panic"
      BY <1>1, <2>0, <3>1, NoPanic
    <3>3. outcome # "more"
      BY <1>1, <3>1
    <3>4. outcome = "client" <=> field > 7
      BY <2>0, <3>1, <3>2, <3>3, OutcomeOfRead
    <3>5. field \in 1..13
      BY <2>0, FieldList DEF PeersTyped, TypeOK, HandshakeTypeOK
    <3>6. CASE outcome = "client"
      <4>1. LoginRead
        BY <1>1, <2>0, <3>4, <3>6 DEF Reads, OnlyLogins, LoginRead
      <4>2. listening' = "sending"
        BY <3>1, <3>6
      <4> QED BY <4>1, <4>2
    <3>7. CASE outcome = "other"
      <4>1. field <= 7
        BY <3>4, <3>5, <3>7
      <4>2. ~LoginRead
        BY <1>1, <2>0, <4>1, HandshakeToCome DEF LoginRead
      <4>3. listening' = "accepting"
        BY <3>1, <3>7
      <4> QED BY <4>2, <4>3
    <3> QED BY <3>2, <3>3, <3>6, <3>7
  <2>2. CASE CancelListener
    BY <2>2 DEF CancelListener
  <2>3. CASE Bind \/ Accept \/ SocketFails \/ RequestStart \/ Connect \/ Receive \/ CancelAll
             \/ UNCHANGED vars
    BY <1>1, <2>3 DEF Bind, Accept, SocketFails, RequestStart, Connect, Receive, CancelAll, vars
  <2> QED BY <1>1, <2>1, <2>2, <2>3 DEF Next, ListenerStep
<1>2. PeersInv /\ [Next]_vars =>
        [(listening = "reading" /\ listening' # "reading" /\ script.wants # "unknown") =>
            \/ listening' = "sending" /\ LoginRead
            \/ listening' = "accepting" /\ ~LoginRead
            \/ listening' = "done" /\ Cancelled("listener", 1)]_vars
  BY <1>1
<1> QED BY <1>2, PeersInvariant, PTL DEF Spec, ClientsAreToldApart

=============================================================================
