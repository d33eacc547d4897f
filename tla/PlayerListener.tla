-------------------------- MODULE PlayerListener ---------------------------
(***************************************************************************)
(* One listener with its peers: Minecraft clients of every age, pingers of *)
(* the server list, and whatever else connects to the port. They wait in   *)
(* the backlog of the socket until the listener has read those before.     *)
(***************************************************************************)
EXTENDS Handshake

CONSTANTS Script,   (* what peers say; see ScriptAssumption                  *)
          MaxPeers  (* bound: how many peers connect                         *)

ASSUME PlayerListenerAssumption == MaxPeers \in Nat

(* A script holds the bytes that a peer sends, and which of them it takes   *)
(* for which field: where each field ends, and the bits of its number.     *)
Begins(s, k) == IF k = 1 THEN 0 ELSE s.fields[k - 1].ends

Sent(s, k) == SubSeq(s.bytes, Begins(s, k) + 1, s.fields[k].ends)

(* Numbers are sent in groups of seven bits, the lowest first.             *)
IsVarInt(sent, bits) ==
    /\ Len(sent) \in 1..5
    /\ \A j \in DOMAIN sent : sent[j] < 128 <=> j = Len(sent)
    /\ bits = {b \in 0..31 : \E j \in DOMAIN sent :
                   \E c \in Bits(sent[j]) \cap 0..6 : b = c + 7 * (j - 1)}

(* The number before a string is its length, and that of no other one.     *)
IsString(s, k) ==
    /\ \A n \in 0..Len(s.bytes) : s.fields[k - 1].bits = Bits(n) <=> n = Len(Sent(s, k))
    /\ \A j \in DOMAIN Sent(s, k) : Sent(s, k)[j] \notin NeverUtf8

IsSent(s, k) ==
    /\ Fields[k] \in VarIntField => IsVarInt(Sent(s, k), s.fields[k].bits)
    /\ Fields[k] \in StringField => IsString(s, k)
    /\ Fields[k] \in {"address_length", "name_length"} => ~Negative(s.fields[k].bits)
    /\ Fields[k] = "server_port" => Len(Sent(s, k)) = 2
    /\ Fields[k] = "has_player_uuid" => Len(Sent(s, k)) = 1
    /\ Fields[k] = "player_uuid" => Len(Sent(s, k)) = 16

(* Peers of the protocol send a handshake, which says what they want. One   *)
(* that logs in goes on at least to the length of a name.                  *)
SpeaksProtocol(s) ==
    /\ Len(s.fields) >= Len(HandshakePacket)
    /\ s.wants = "login" <=> s.fields[Len(HandshakePacket)].bits = {1}
    /\ s.wants = "login" => Len(s.fields) >= Len(HandshakePacket) + 3

ASSUME ScriptAssumption ==
    \A s \in Script :
        /\ s.bytes \in Seq(0..255)
        /\ s.fields \in Seq([bits : SUBSET (0..31), ends : 0..Len(s.bytes)])
        /\ Len(s.fields) <= Len(Fields)
        /\ \A j, k \in DOMAIN s.fields : j <= k => s.fields[j].ends <= s.fields[k].ends
        /\ \A k \in DOMAIN s.fields : IsSent(s, k)
        /\ s.wants # "unknown" => SpeaksProtocol(s)

VARIABLES listening,  (* where the listener task is                          *)
          arrived,    (* how many peers have connected                       *)
          accepted,   (* how many of them were accepted                      *)
          scripts     (* what each peer has to say                           *)

peerVars == <<arrived, accepted, scripts>>
vars == <<runtimeVars, connVars, listening, peerVars>>

script == scripts[accepted]

TypeOK ==
    /\ RuntimeTypeOK
    /\ HandshakeTypeOK
    /\ listening \in {"binding", "accepting", "reading", "sending",
                      "done", "failed", "panicked"}
    /\ arrived \in 0..MaxPeers
    /\ accepted \in 0..arrived
    /\ DOMAIN scripts = 1..MaxPeers

Init ==
    /\ RuntimeInit
    /\ stream = <<>> /\ pos = 0 /\ field = 1 /\ idx = 0 /\ value = {}
    /\ listening = "binding"
    /\ arrived = 0
    /\ accepted = 0
    /\ scripts \in [1..MaxPeers -> Script]

Bind ==
    /\ listening = "binding"
    /\ listening' = "accepting"
    /\ UNCHANGED <<runtimeVars, connVars, peerVars>>

(* The system connects peers while the socket is open. *)
Connect ==
    /\ listening \in {"accepting", "reading", "sending"}
    /\ arrived < MaxPeers
    /\ arrived' = arrived + 1
    /\ UNCHANGED <<runtimeVars, connVars, listening, accepted, scripts>>

Accept ==
    /\ listening = "accepting"
    /\ accepted < arrived
    /\ accepted' = accepted + 1
    /\ listening' = "reading"
    /\ Opened(scripts[accepted'].bytes)
    /\ UNCHANGED <<runtimeVars, arrived, scripts>>

(* Bind and accept may fail, which ends the task. *)
SocketFails ==
    /\ listening \in {"binding", "accepting"}
    /\ listening' = "failed"
    /\ UNCHANGED <<runtimeVars, connVars, peerVars>>

IsClientConnection ==
    /\ listening = "reading"
    /\ \E outcome \in {"more", "client", "other", "panic"} :
        /\ Read(outcome)
        /\ listening' = CASE outcome = "more"   -> "reading"
                          [] outcome = "client" -> "sending"
                          [] outcome = "other"  -> "accepting"
                          [] outcome = "panic"  -> "panicked"
    /\ UNCHANGED <<runtimeVars, peerVars>>

(* Mutant: the loop goes on after the request. *)
RequestStartAndListen ==
    /\ listening = "sending"
    /\ Send("Start")
    /\ listening' = "accepting"
    /\ UNCHANGED <<receiving, token, cancelled, connVars, peerVars>>

RequestStart ==
    /\ listening = "sending"
    /\ Send("Start")
    /\ listening' = "done"
    /\ UNCHANGED <<receiving, token, cancelled, connVars, peerVars>>

CancelListener ==
    /\ listening \notin {"done", "failed", "panicked"}
    /\ Cancelled("listener", 1)
    /\ listening' = "done"
    /\ UNCHANGED <<runtimeVars, connVars, peerVars>>

(* The server task receives, and main cancels. *)
Receive ==
    /\ requests # <<>>
    /\ requests' = Tail(requests)
    /\ UNCHANGED <<receiving, token, cancelled, connVars, listening, peerVars>>

CancelAll ==
    /\ token' = TRUE
    /\ UNCHANGED <<requests, receiving, cancelled, connVars, listening, peerVars>>

ListenerStep ==
    Bind \/ Accept \/ SocketFails \/ IsClientConnection \/ RequestStart \/ CancelListener

Next == ListenerStep \/ Connect \/ Receive \/ CancelAll

Spec == Init /\ [][Next]_vars

(* A peer that speaks the protocol sends on or closes in the end: clients  *)
(* and pingers time out. Of a stranger nothing is assumed, and the listener *)
(* itself waits for it without a timeout (listener_task.rs:58).            *)
ReadsClient ==
    /\ listening = "reading"
    /\ script.wants # "unknown"
    /\ IsClientConnection

FairSpec ==
    /\ Spec
    /\ WF_vars(Bind) /\ WF_vars(Accept) /\ WF_vars(ReadsClient)
    /\ WF_vars(RequestStart) /\ WF_vars(CancelListener) /\ WF_vars(Receive)

-----------------------------------------------------------------------------
(* Peers of the protocol are read field by field: each field begins where  *)
(* the one before it ended, although the lengths of the packets are not    *)
(* looked at, and a VarInt has the bits that its bytes so far tell,        *)
(* negative ones too (protocol.rs:66-125). Of the port, the flag and the   *)
(* UUID it is about the place: what value the code makes of the two bytes  *)
(* of a port (protocol.rs:85) is not modelled, and nobody uses it.         *)
FieldsAreRead ==
    (listening = "reading" /\ field <= Len(script.fields)) =>
        IF Reading(VarIntField)
        THEN /\ 7 * (pos - Begins(script, field)) = idx
             /\ value = {b \in script.fields[field].bits : b < idx}
        ELSE /\ pos = Begins(script, field)
             /\ HasLength(Len(Sent(script, field)))

(* Has the handshake of this client been read? *)
HandshakeRead == pos >= script.fields[Len(HandshakePacket)].ends

LoginRead == listening = "reading" /\ script.wants = "login" /\ HandshakeRead

(* Clients that log in are told apart from all others that speak the       *)
(* protocol, whatever comes after their handshake or does not come: older  *)
(* clients send no UUID, newer ones no flag before it, and pings of before *)
(* 1.7 another packet (listener_task.rs:86-96).                            *)
ClientsAreToldApart ==
    [][(listening = "reading" /\ listening' # "reading" /\ script.wants # "unknown") =>
        \/ listening' = "sending" /\ LoginRead
        \/ listening' = "accepting" /\ ~LoginRead
        \/ listening' = "done" /\ Cancelled("listener", 1)]_vars

(* A login ends in a request to start the server, as long as nobody cancels *)
(* the listener, although the rest of the connection is read without a     *)
(* timeout (listener_task.rs:86-96).                                       *)
LoginStartsServer ==
    LoginRead ~> (requests # <<>> \/ token)

(* Nobody waits in the backlog for ever behind peers that speak the        *)
(* protocol: they are read to their end and none of them panics, unless a  *)
(* login has started the server, the listener is cancelled, or its accept  *)
(* fails. Behind a stranger one may: it may send nothing for ever, or panic *)
(* the listener (listener_task.rs:55-75, protocol.rs:93).                  *)
EveryPeerIsServed ==
    \A n \in 1..MaxPeers :
        (arrived >= n /\ \A q \in 1..(n - 1) : scripts[q].wants # "unknown")
            ~> (accepted >= n \/ listening \in {"done", "failed"})

Listener == INSTANCE ListenerTask WITH
    MaxStarts <- 1, ListenerMayFail <- TRUE, listener <- <<listening>>

(* ListenerTask, which the composition uses, is this listener with the     *)
(* bytes left out: what it reads, every step takes (listener_task.rs:49-77). *)
ReadsAsListenerTask ==
    [][\/ Listener!Bind(1) \/ Listener!BindFails(1, FALSE)
       \/ Listener!Accept(1) \/ Listener!ReadOther(1) \/ Listener!ReadLogin(1)
       \/ Listener!ListenerRequestsStart(1)
       \/ Listener!ListenerFails(1) \/ Listener!ListenerCancelled(1)
       \/ Receive \/ CancelAll]_<<runtimeVars, listening>>

=============================================================================
