----------------------------- MODULE MCPlayers -----------------------------
(***************************************************************************)
(* PlayerListener with the peers that the port of a Minecraft server sees. *)
(* The numbers they send are encoded as the protocol has it (wiki.vg).     *)
(***************************************************************************)
EXTENDS PlayerListener, Integers

LOCAL INSTANCE SequencesExt

(* The bits of an i32, and its bytes of seven bits, lowest first. *)
VarInt(n) ==
    LET bits     == IF n >= 0 THEN Bits(n) ELSE (0..31) \ Bits(-n - 1)
        group(g) == CHOOSE m \in 0..127 : Bits(m) = {b \in 0..6 : b + 7 * g \in bits}
        last     == CHOOSE g \in 0..4 : /\ \A b \in bits : b < 7 * (g + 1)
                                        /\ g > 0 => \E b \in bits : b >= 7 * g
        byte(g)  == group(g) + IF g = last THEN 0 ELSE 128
    IN  [bits |-> bits,
         bytes |-> SubSeq(<<byte(0), byte(1), byte(2), byte(3), byte(4)>>, 1, last + 1)]

Octets(bytes) == [bits |-> {}, bytes |-> bytes]

Handshaken(version, wants) ==
    <<VarInt(9), VarInt(0), VarInt(version), VarInt(2), Octets(<<104, 105>>),
      Octets(<<99, 221>>), VarInt(wants)>>

NameOf(letters) == <<VarInt(9), VarInt(0), VarInt(Len(letters)), Octets(letters)>>

Uuid == <<0, 15, 31, 47, 63, 79, 95, 111, 127, 143, 159, 175, 191, 207, 223, 239>>

(* What a peer says, with the fields where the bytes before them end. *)
Peer(wants, said, rest) ==
    LET sent(k) == FlattenSeq([j \in 1..k |-> said[j].bytes])
    IN  [wants  |-> wants,
         bytes  |-> sent(Len(said)) \o rest,
         fields |-> [k \in DOMAIN said |-> [bits |-> said[k].bits, ends |-> Len(sent(k))]]]

(* A number in bytes that are not the ones of VarInt. *)
Number(n, bytes) == [bits |-> Bits(n), bytes |-> bytes]

MCScript == {
    (* the server list, and a ping that does not know the server's version *)
    Peer("status", Handshaken(763, 1), <<1, 0>>),
    Peer("status", Handshaken(-1, 1), <<1, 0>>),
    (* logins: up to 1.18, up to 1.20.1 with and without a UUID, from 1.20.2 *)
    Peer("login", Handshaken(47, 2) \o NameOf(<<65, 66>>), <<>>),
    Peer("login", Handshaken(2097151, 2) \o NameOf(<<65, 66>>)
                    \o <<Octets(<<1>>), Octets(Uuid)>>, <<>>),
    Peer("login", Handshaken(763, 2) \o NameOf(<<65>>) \o <<Octets(<<0>>)>>, <<>>),
    Peer("login", Handshaken(764, 2) \o NameOf(<<65>>), Uuid),
    (* another packet in place of the login start *)
    Peer("login", Handshaken(763, 2) \o <<VarInt(3), VarInt(0), VarInt(1)>>, <<255>>),
    (* a transfer, which the protocol has from 1.20.5, is no login           *)
    Peer("transfer", Handshaken(766, 3), <<>>),
    (* a ping from before 1.7, which is another packet, as it is read       *)
    Peer("status", <<VarInt(254), Number(122, <<250, 0>>), VarInt(11), VarInt(0), Octets(<<>>),
                     Octets(<<77, 0>>), VarInt(67)>>, <<0, 124>>),
    (* other protocols: an HTTP request, and numbers out of bounds          *)
    Peer("unknown", <<>>, <<71, 69, 84, 32, 47, 32, 72, 84>>),
    Peer("unknown", <<>>, <<255, 255, 255, 255, 255, 255, 255, 255, 255, 255, 255>>),
    Peer("unknown", <<>>, <<9, 0, 47>> \o VarInt(-1).bytes)}
=============================================================================
