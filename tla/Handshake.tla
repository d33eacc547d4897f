----------------------------- MODULE Handshake -----------------------------
(***************************************************************************)
(* How a connection is read: the fields of a handshake packet and, for a   *)
(* login, of the login start packet, one after the other. The bytes may    *)
(* take any time, and the peer may close before it has sent them all.      *)
(***************************************************************************)
EXTENDS Runtime

VARIABLES stream,  (* the bytes that the peer has to send                    *)
          pos,     (* how many of them have been read                        *)
          field,   (* the field being read, as an index of Fields            *)
          idx,     (* read_varint: the shift of its next byte                *)
          value    (* read_varint: the bits set so far; kept while a string  *)
                   (* of that length is read                                 *)

connVars == <<stream, pos, field, idx, value>>

HandshakePacket == <<"length", "packet_id", "protocol_version", "address_length",
                     "server_address", "server_port", "next_state">>

LoginStartPacket == <<"length", "packet_id", "name_length", "name",
                      "has_player_uuid", "player_uuid">>

Fields == HandshakePacket \o LoginStartPacket

VarIntField == {"length", "packet_id", "protocol_version", "address_length",
                "next_state", "name_length"}

StringField == {"server_address", "name"}

(* An i32 is the set of its bits; bit 31 is its sign. *)
Bits(n) == {b \in 0..30 : (n \div 2^b) % 2 = 1}

Negative(bits) == 31 \in bits

(* Bytes that no UTF-8 text holds. *)
NeverUtf8 == {192, 193} \cup 245..255

HandshakeTypeOK ==
    /\ stream \in Seq(0..255)
    /\ pos \in 0..Len(stream)
    /\ field \in 1..Len(Fields)
    /\ idx \in {7 * k : k \in 0..9}
    /\ value \subseteq 0..31

Opened(bytes) ==
    /\ stream' = bytes
    /\ pos' = 0
    /\ field' = 1
    /\ idx' = 0
    /\ value' = {}

Reading(kinds) == Fields[field] \in kinds

NextField(bits) ==
    /\ field' = field + 1
    /\ idx' = 0
    /\ value' = IF Fields[field + 1] \in StringField THEN bits ELSE {}

-----------------------------------------------------------------------------
(* Each read has an outcome: "more" to read, or what the connection is:    *)
(* that of a "client", or of an "other"; "panic" ends the task itself.     *)

(* An error counts as "other", but that of the login start is only logged. *)
Error == IF field > Len(HandshakePacket) THEN "client" ELSE "other"

(* Does read_exact read n bytes for this field? *)
HasLength(n) ==
    \/ Reading(StringField) /\ value = Bits(n)
    \/ Reading({"server_port"}) /\ n = 2
    \/ Reading({"has_player_uuid"}) /\ n = 1
    \/ Reading({"player_uuid"}) /\ n = 16

Overlong == Reading(StringField) /\ Negative(value)

(* Mutant: a login start whose bytes end is waited for. *)
HandshakeEnds(outcome) ==
    /\ ~Overlong
    /\ field <= Len(HandshakePacket)
    /\ outcome = Error
    /\ UNCHANGED connVars

(* No more bytes come; the bytes of a field that is not complete are lost. *)
StreamEnds(outcome) ==
    /\ ~Overlong
    /\ outcome = Error
    /\ UNCHANGED connVars

Byte == stream[pos + 1]

ReadByte ==
    /\ Reading(VarIntField)
    /\ pos < Len(stream)
    /\ pos' = pos + 1
    /\ UNCHANGED stream

(* A shift past 31 panics in a build that checks for overflow; one that does *)
(* not takes it modulo 32 and goes on.                                     *)
ShiftOverflows(outcome) ==
    /\ ReadByte
    /\ idx > 31
    /\ outcome = "panic"
    /\ UNCHANGED <<field, idx, value>>

(* Mutant: the continue bit is kept. *)
WithWholeByte ==
    value \cup ({b + (idx % 32) : b \in Bits(Byte)} \cap 0..31)

(* The seven low bits of a byte count; those past bit 31 are lost. *)
WithByte ==
    value \cup ({b + (idx % 32) : b \in Bits(Byte) \cap 0..6} \cap 0..31)

(* Mutant: eight bits a byte. *)
ShiftOfOctets ==
    8

Shift ==
    7

ContinueVarInt(outcome) ==
    /\ ReadByte
    /\ Byte >= 128
    /\ UNCHANGED field
    /\ IF idx + Shift >= 64
       THEN outcome = Error /\ UNCHANGED <<idx, value>>
       ELSE outcome = "more" /\ idx' = idx + Shift /\ value' = WithByte

FinishVarInt(outcome) ==
    /\ ReadByte
    /\ Byte < 128
    /\ ~Reading({"next_state"})
    /\ outcome = "more"
    /\ NextField(WithByte)

(* Mutant: a status request is taken for a login too. *)
WantsAnything(bits) ==
    bits \in {{0}, {1}}

(* NextState::Login is 2; 1 is a status request, and the rest an error. *)
WantsLogin(bits) ==
    bits = {1}

ReadNextState(outcome) ==
    /\ ReadByte
    /\ Byte < 128
    /\ Reading({"next_state"})
    /\ IF WantsLogin(WithByte)
       THEN outcome = "more" /\ NextField({})
       ELSE outcome = "other" /\ UNCHANGED <<field, idx, value>>

(* A negative length becomes an enormous one, and no buffer can be made. *)
MakeBuffer(outcome) ==
    /\ Overlong
    /\ outcome = "panic"
    /\ UNCHANGED connVars

ReadExact ==
    /\ pos' \in pos..Len(stream)
    /\ HasLength(pos' - pos)
    /\ UNCHANGED stream

ReadString(outcome) ==
    /\ Reading(StringField)
    /\ ReadExact
    /\ IF \E k \in (pos + 1)..pos' : stream[k] \in NeverUtf8
       THEN outcome = Error /\ UNCHANGED <<field, idx, value>>
       ELSE outcome = "more" /\ NextField({})

ReadUnsignedShort(outcome) ==
    /\ Reading({"server_port"})
    /\ ReadExact
    /\ outcome = "more"
    /\ NextField({})

ReadBool(outcome) ==
    /\ Reading({"has_player_uuid"})
    /\ ReadExact
    /\ IF Byte = 1
       THEN outcome = "more" /\ NextField({})
       ELSE outcome = "client" /\ UNCHANGED <<field, idx, value>>

ReadUuid(outcome) ==
    /\ Reading({"player_uuid"})
    /\ ReadExact
    /\ outcome = "client"
    /\ UNCHANGED <<field, idx, value>>

Read(outcome) ==
    \/ StreamEnds(outcome) \/ ShiftOverflows(outcome) \/ ContinueVarInt(outcome)
    \/ FinishVarInt(outcome) \/ ReadNextState(outcome) \/ MakeBuffer(outcome)
    \/ ReadString(outcome) \/ ReadUnsignedShort(outcome) \/ ReadBool(outcome)
    \/ ReadUuid(outcome)

=============================================================================
