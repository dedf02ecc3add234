------------------------------ MODULE Framing ------------------------------
(***************************************************************************)
(* How the MQTT client cuts the bytes of its connection into packets:      *)
(* L/src/mqtt/MqttClient.cpp, from async_read_control_packet to            *)
(* handle_payload, over one buffer for all connections.  A byte says which *)
(* packet of which connection it belongs to, its place in it and, where it *)
(* is part of the remaining length, its value.                             *)
(***************************************************************************)
EXTENDS ByteStream

CONSTANTS
  Base,       (* 128: what one byte of a remaining length counts to        *)
  Modulus,    (* 2^32: the range of remaining_length and of its multiplier *)
  Sendings,   (* the packets, by their remaining lengths, that a server    *)
              (* may send on one connection                                *)
  MaxConn     (* bound: connections                                        *)

VARIABLES
  step,       (* which read is pending, or none                            *)
  fixed_header, remaining_length, remaining_length_multiplier,
  conn,       (* the connection                                            *)
  sent,       (* what the server sends on it                               *)
  handled,    (* the packets handled on it                                 *)
  cut         (* a connection was lost with bytes in the buffer            *)

framingVars == <<step, fixed_header, remaining_length, remaining_length_multiplier,
                 conn, sent, handled, cut>>

-----------------------------------------------------------------------------
(* The packets of the server, whose lengths are encoded as add_length does. *)

Octet(c, i, at, val) == [part |-> "packet", conn |-> c, of |-> i, at |-> at, val |-> val]

Digits[n \in Nat] ==
  IF n < Base THEN <<n>> ELSE <<(n % Base) + Base>> \o Digits[n \div Base]

Payload(c, i, n) == [k \in 1..n |-> Octet(c, i, k, 1)]

(* The bytes of a remaining length. *)
Length(c, i, n) == [k \in 1..Len(Digits[n]) |-> Octet(c, i, 0, Digits[n][k])]

Packet(c, i, n) == <<Octet(c, i, 0, 0)>> \o Length(c, i, n) \o Payload(c, i, n)

(* The last packets of s: as many as the index says.                       *)
Unsent(c, s) ==
  LET last[k \in 0..Len(s)] ==
        IF k = 0 THEN <<>>
        ELSE Packet(c, Len(s) - k + 1, s[Len(s) - k + 1]) \o last[k - 1]
  IN  last

Bytes(c, s) == Unsent(c, s)[Len(s)]

(* What is sent has a length that the client can hold.                     *)
ASSUME FramingAssumption ==
  /\ Base \in Nat /\ Base > 1
  /\ Modulus \in Nat \ {0}
  /\ Sendings \subseteq Seq(0..Modulus - 1)
  /\ MaxConn \in Nat
  /\ \A c \in 1..MaxConn, s \in Sendings : Bytes(c, s) \in Seq(Byte)

-----------------------------------------------------------------------------

FramingInit ==
  /\ fixed_header = Zero
  /\ remaining_length = 0 /\ remaining_length_multiplier = 0
  /\ conn = 0 /\ sent = <<>> /\ handled = <<>>
  /\ cut = FALSE

(* read_async(buffer, n). *)
Await(s, n) == step' = s /\ missing' = n

(* A connection, the first one too: the read of the first packet follows.  *)
(* Nothing empties the buffer.                                             *)
Connected ==
  /\ conn < MaxConn
  /\ conn' = conn + 1
  /\ \E s \in Sendings : sent' = s /\ wire' = Bytes(conn + 1, s)
  /\ handled' = <<>>
  /\ Await("header", 1)
  /\ cut' = (cut \/ consume_size > 0)
  /\ UNCHANGED <<bufferVars, fixed_header, remaining_length, remaining_length_multiplier>>

Read == step \in {"header", "length", "payload"} /\ ReadMissing /\ UNCHANGED framingVars

(* The exception of reserve ends the read; nothing reads on until the next *)
(* connection.                                                             *)
PacketTooLarge ==
  /\ step \in {"header", "length", "payload"} /\ missing > 0
  /\ Throw(missing)
  /\ Await("dead", 0)
  /\ UNCHANGED <<wire, fixed_header, remaining_length, remaining_length_multiplier,
                 conn, sent, handled, cut>>

(* handle_control_packet. *)
HandleControlPacket ==
  /\ step = "header" /\ missing = 0
  /\ remaining_length' = 0 /\ remaining_length_multiplier' = 1
  /\ fixed_header' = content[1]
  /\ Take(1)
  /\ Await("length", 1)
  /\ UNCHANGED <<wire, conn, sent, handled, cut>>

(* Slip: every byte counts as the first. *)
AddedUnscaled(val) == remaining_length + (val % Base)

Added(val) == (remaining_length + (val % Base) * remaining_length_multiplier) % Modulus

(* handle_remaining_length: on to the next byte or to the payload, which   *)
(* is handled at once when it is empty.                                    *)
HandleRemainingLength ==
  /\ step = "length" /\ missing = 0
  /\ remaining_length' = Added(content[1].val)
  /\ remaining_length_multiplier' = (remaining_length_multiplier * Base) % Modulus
  /\ Take(1)
  /\ \/ content[1].val >= Base /\ Await("length", 1)
     \/ content[1].val < Base /\ Await("payload", remaining_length')
  /\ UNCHANGED <<wire, fixed_header, conn, sent, handled, cut>>

(* handle_payload. *)
HandlePayload ==
  /\ step = "payload" /\ missing = 0
  /\ handled' = Append(handled, [header |-> fixed_header,
                                 payload |-> SubSeq(content, 1, remaining_length)])
  /\ Take(remaining_length)
  /\ Await("header", 1)
  /\ UNCHANGED <<wire, fixed_header, remaining_length, remaining_length_multiplier,
                 conn, sent, cut>>

Framing ==
  \/ step # "none" /\ Connected
  \/ Read \/ PacketTooLarge
  \/ HandleControlPacket \/ HandleRemainingLength \/ HandlePayload

-----------------------------------------------------------------------------

(* However the bytes of a connection are split, the packets that are       *)
(* handled are those that the server sent, whole and in order; when no     *)
(* more bytes come the last of them is handled; and reading stops only at  *)
(* a packet that is larger than the buffer may be.  This ends with a       *)
(* connection that is lost within a payload: the buffer keeps the part     *)
(* (async_read_payload, handle_error), and each read of the next           *)
(* connection takes bytes of the last one in the place of those it got.    *)
HandlesWhatWasSent ==
  ~cut /\ step # "none" =>
    /\ Len(handled) <= Len(sent)
    /\ \A i \in 1..Len(handled) :
          handled[i] = [header |-> Octet(conn, i, 0, 0), payload |-> Payload(conn, i, sent[i])]
    /\ wire = <<>> /\ missing > 0 => Len(handled) = Len(sent)
    /\ step = "dead" => sent[Len(handled) + 1] > MaxBuffer

=============================================================================
