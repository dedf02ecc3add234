----------------------------- MODULE MqttClient -----------------------------
(***************************************************************************)
(* The MQTT client: components/loopp/src/mqtt/MqttClient.cpp, from connect *)
(* to handle_error, over the streams it makes.                             *)
(*                                                                         *)
(* Its callbacks do not say which stream they were registered with: they   *)
(* use sock, the stream that the client has at the time.  That is what     *)
(* this module is about: answers for an old stream arrive when there is a  *)
(* new one, or none.  Packets are their kinds.                             *)
(*                                                                         *)
(* The application calls connect whenever the Wi-Fi comes up.  connect     *)
(* asks whether the client is connected, not whether it has a stream, so   *)
(* it may put a second one beside a stream that is still connecting or     *)
(* subscribing.  replaced says that it did: what the client promises of    *)
(* one stream at a time, it keeps only until then.                         *)
(***************************************************************************)
EXTENDS Stream

CONSTANTS
  Subscribes,   (* whether the client has subscriptions when it connects   *)
  Commands,     (* whether the server sends the command to upgrade         *)
  MaxSend,      (* bound: pings and publications                           *)
  MaxJoin,      (* bound: how often the Wi-Fi comes up                     *)
  PingLimit     (* pending_ping_count_limit                                *)

ASSUME ClientAssumption ==
  /\ Subscribes \in BOOLEAN /\ Commands \in BOOLEAN
  /\ MaxSend \in Nat /\ MaxJoin \in Nat /\ PingLimit \in Nat

NoConn == 0

VARIABLES
  current,    (* MqttClient::sock                                          *)
  connected,  (* MqttClient::connected_property                            *)
  ping_timer, (* whether ping_timer is set                                 *)
  pending_ping_count,
  made,       (* streams made so far                                       *)
  sends,      (* pings and publications so far                             *)
  crashed,    (* sock was used when it was null                            *)
  upgrading,  (* the firmware update took over                             *)
  server,     (* what the server has still to answer, for each stream      *)
  session,    (* whether it has accepted the client, for each stream       *)
  joins,      (* how often the Wi-Fi has come up                           *)
  replaced    (* connect took the place of a stream that the client had    *)

clientVars == <<current, connected, ping_timer, pending_ping_count>>
worldVars == <<sends, crashed, upgrading, server, session>>
joinVars == <<joins, replaced>>
vars == <<loopVars, streamVars, clientVars, made, worldVars, joinVars>>

Init ==
  /\ StreamInit
  /\ current = NoConn /\ connected = FALSE
  /\ ping_timer = FALSE /\ pending_ping_count = 0
  /\ made = 0 /\ sends = 0
  /\ crashed = FALSE /\ upgrading = FALSE
  /\ server = [c \in Conn |-> <<>>]
  /\ session = [c \in Conn |-> "new"]
  /\ joins = 0 /\ replaced = FALSE

-----------------------------------------------------------------------------
(* connect and handle_error.                                               *)

(* A new stream; the old one lives as long as something refers to it.      *)
NewStream ==
  /\ made < MaxConn
  /\ made' = made + 1
  /\ current' = made + 1
  /\ resolving' = Append(resolving, made + 1)

(* The Wi-Fi is up, again: on_wifi_connected is bound to the loop.         *)
Join ==
  /\ joins < MaxJoin
  /\ joins' = joins + 1
  /\ funcs' = Append(funcs, Invoked([call |-> "connect"]))
  /\ UNCHANGED <<passVars, poll_list, calls, streamVars, clientVars, made, worldVars, replaced>>

(* It throws while the client is connected, and the loop drops that.  A    *)
(* client that is not may have a stream, in any state: nothing closes it,  *)
(* and its callbacks will come.                                            *)
Connect ==
  /\ Running("connect")
  /\ IF connected
     THEN UNCHANGED <<made, current, resolving, replaced>>
     ELSE NewStream /\ replaced' = (replaced \/ current # NoConn)
  /\ Calling(<<>>)
  /\ UNCHANGED <<passVars, poll_list, funcs, sock, server_fd, up, write_op_queue, owner, connected,
                 ping_timer, pending_ping_count, worldVars, joins>>

(* Slip: the stream is dropped and not closed. *)
DropUnclosed ==
  /\ ping_timer' = FALSE
  /\ UNCHANGED <<funcs, up>>

(* What both handle_error and disconnect do with the stream. *)
DropStream ==
  /\ funcs' = IF current = NoConn THEN funcs ELSE Closing(current, funcs)
  /\ up' = IF current = NoConn THEN up ELSE [up EXCEPT ![current] = FALSE]
  /\ ping_timer' = FALSE

HandleError ==
  /\ Running("handle_error")
  /\ connected' = FALSE
  /\ DropStream
  /\ IF calls[1].ec = "Cancelled"
     THEN /\ current' = NoConn
          /\ UNCHANGED <<made, resolving>>
     ELSE NewStream
  /\ Calling(<<>>)
  /\ UNCHANGED <<passVars, poll_list, sock, server_fd, write_op_queue, owner, pending_ping_count, worldVars>>

Fail(e) == [call |-> "handle_error", ec |-> e]

ConnectDone ==
  /\ Running("connect_cb")
  /\ Calling(<<IF calls[1].ec = "ok" THEN [call |-> "send", op |-> "connect"] ELSE Fail(calls[1].ec)>>)
  /\ UNCHANGED <<passVars, poll_list, funcs, streamVars, clientVars, made, worldVars>>

-----------------------------------------------------------------------------
(* Sending: send_connect, send_ping, send_publish, send_subscribe.         *)

Send ==
  /\ Running("send")
  /\ IF current = NoConn
     THEN /\ crashed' = TRUE
          /\ Calling(<<>>)
          /\ UNCHANGED funcs
     ELSE IF up[current]
     THEN /\ funcs' = Append(funcs, Write(current, calls[1].op))
          /\ Calling(<<>>)
          /\ UNCHANGED crashed
     ELSE /\ Calling(<<WriteCb(calls[1].op, "ConnectionClosed")>>)
          /\ UNCHANGED <<funcs, crashed>>
  /\ UNCHANGED <<passVars, poll_list, streamVars, clientVars, made, sends, upgrading, server, session>>

(* The server gets what is written to a socket. *)
Writing(c) ==
  /\ \E result \in {"done", "again", "write_error"} :
       LET op == Head(write_op_queue[c])
       IN  /\ DoWrite(c, result)
           /\ server' = IF result = "done" /\ sock[c] # NoFd /\ op # "publish"
                        THEN [server EXCEPT ![c] = Append(@, op)] ELSE server
  /\ UNCHANGED <<clientVars, made, sends, crashed, upgrading, session>>

(* The first read follows the CONNECT; a written ping counts.  An error    *)
(* goes to handle_error, and for a ping it may go there twice.             *)
WriteDone ==
  /\ Running("write_cb")
  /\ LET op == calls[1].op
         failed == IF calls[1].ec = "ok" THEN <<>> ELSE <<Fail(calls[1].ec)>>
     IN  IF op = "ping"
         THEN /\ pending_ping_count' = pending_ping_count + 1
              /\ Calling(failed \o
                   (IF pending_ping_count' > PingLimit THEN <<Fail("Timeout")>> ELSE <<>>))
         ELSE /\ Calling(IF op = "connect" /\ failed = <<>>
                         THEN <<[call |-> "read_packet"]>> ELSE failed)
              /\ UNCHANGED pending_ping_count
  /\ UNCHANGED <<passVars, poll_list, funcs, streamVars, current, connected, ping_timer, made, worldVars>>

-----------------------------------------------------------------------------
(* Receiving: async_read_control_packet to handle_payload.                 *)

ReadPacket ==
  /\ Running("read_packet")
  /\ IF current = NoConn
     THEN crashed' = TRUE /\ Calling(<<>>)
     ELSE Calling(<<[call |-> "do_read", conn |-> current]>>) /\ UNCHANGED crashed
  /\ UNCHANGED <<passVars, poll_list, funcs, streamVars, clientVars, made, sends, upgrading, server, session>>

(* Slips: the next packet is read all the same; the error is dropped. *)
ReadFailedReadsOn ==
  /\ Running("read_cb")
  /\ Calling(<<Fail(calls[1].ec), [call |-> "read_packet"]>>)
  /\ UNCHANGED <<passVars, poll_list, funcs, streamVars, clientVars, made, worldVars>>

ReadFailedSilently ==
  /\ Running("read_cb")
  /\ Calling(<<>>)
  /\ UNCHANGED <<passVars, poll_list, funcs, streamVars, clientVars, made, worldVars>>

ReadFailed ==
  /\ Running("read_cb")
  /\ Calling(<<Fail(calls[1].ec)>>)
  /\ UNCHANGED <<passVars, poll_list, funcs, streamVars, clientVars, made, worldVars>>

ReadNext == <<[call |-> "read_packet"]>>

(* A packet is there, for a stream that is connected: the server answers  *)
(* requests in their order.                                                *)
Receive(c, op) ==
  /\ RunningFor(c, "do_read") /\ up[c]
  /\ server[c] # <<>> /\ Head(server[c]) = op
  /\ server' = [server EXCEPT ![c] = Tail(@)]

ConnAck(c) ==
  /\ Receive(c, "connect")
  /\ session[c] = "new"
  /\ session' = [session EXCEPT ![c] = "open"]
  /\ ping_timer' = TRUE
  /\ IF Subscribes
     THEN /\ Calling(<<[call |-> "send", op |-> "subscribe"]>> \o ReadNext)
          /\ UNCHANGED connected
     ELSE /\ connected' = TRUE
          /\ Calling(ReadNext)
  /\ UNCHANGED <<passVars, poll_list, funcs, streamVars, current, pending_ping_count, made,
                 sends, crashed, upgrading>>

(* A refusal is an error, and still the next packet is read, from the      *)
(* stream that handle_error has put in place.                              *)
Refused(c) ==
  /\ "refused" \in Faults
  /\ Receive(c, "connect")
  /\ session[c] = "new"
  /\ session' = [session EXCEPT ![c] = "gone"]
  /\ Calling(<<Fail("ProtocolError")>> \o ReadNext)
  /\ UNCHANGED <<passVars, poll_list, funcs, streamVars, clientVars, made, sends, crashed, upgrading>>

SubAck(c) ==
  /\ session[c] = "open"
  /\ Receive(c, "subscribe")
  /\ connected' = TRUE
  /\ Calling(ReadNext)
  /\ UNCHANGED <<passVars, poll_list, funcs, streamVars, current, ping_timer, pending_ping_count, made,
                 sends, crashed, upgrading, session>>

PingResp(c) ==
  /\ session[c] = "open"
  /\ Receive(c, "ping")
  /\ pending_ping_count' = pending_ping_count - 1
  /\ Calling(ReadNext)
  /\ UNCHANGED <<passVars, poll_list, funcs, streamVars, current, connected, ping_timer, made,
                 sends, crashed, upgrading, session>>

(* The server leaves when it refused or sees a second CONNECT. *)
Leaves(c) == session[c] = "gone" \/ (session[c] = "open" /\ server[c] # <<>> /\ Head(server[c]) = "connect")

(* A publish packet, for the filter of the remote commands: the callback   *)
(* is bound to the loop.                                                   *)
Command(c) ==
  /\ Commands /\ ~upgrading
  /\ RunningFor(c, "do_read") /\ up[c]
  /\ session[c] = "open"
  /\ Invoked([call |-> "upgrade"]) \notin Range(funcs)
  /\ funcs' = Append(funcs, Invoked([call |-> "upgrade"]))
  /\ Calling(ReadNext)
  /\ UNCHANGED <<passVars, poll_list, streamVars, clientVars, made, worldVars>>

(* A packet that handle_publish does not accept ends the reading.  One of  *)
(* an unknown type does not: handle_payload reads on, as after a refusal.  *)
Malformed(c) ==
  /\ "malformed" \in Faults
  /\ RunningFor(c, "do_read") /\ up[c]
  /\ session[c] = "open"
  /\ \/ Calling(<<Fail("ProtocolError")>>)
     \/ Calling(<<Fail("ProtocolError")>> \o ReadNext)
  /\ UNCHANGED <<passVars, poll_list, funcs, streamVars, clientVars, made, worldVars>>

Reading(c) ==
  /\ ReadClosed(c, Leaves(c)) \/ ReadError(c) \/ ReadAgain(c)
  /\ UNCHANGED <<clientVars, made, worldVars>>

-----------------------------------------------------------------------------
(* The application: publish, the ping timer, and the firmware update,      *)
(* which disconnects before it retrieves the firmware (main.cpp,           *)
(* firmware_update).                                                       *)

Publish ==
  /\ connected /\ sends < MaxSend
  /\ sends' = sends + 1
  /\ funcs' = Append(funcs, Invoked([call |-> "send", op |-> "publish"]))
  /\ UNCHANGED <<passVars, poll_list, calls, streamVars, clientVars, made, crashed, upgrading, server, session,
                 joinVars>>

(* handle_timers, at the end of a pass. *)
PingDue ==
  /\ phase = "pass" /\ calls = <<>> /\ batch = 0 /\ todo = {}
  /\ ping_timer /\ sends < MaxSend
  /\ sends' = sends + 1
  /\ calls' = <<[call |-> "send", op |-> "ping"]>>
  /\ UNCHANGED <<passVars, poll_list, funcs, streamVars, clientVars, made, crashed, upgrading, server, session>>

(* disconnect throws when the client is not connected, and the update does *)
(* not happen.                                                             *)
Upgrade ==
  /\ Running("upgrade")
  /\ Calling(<<>>)
  /\ IF connected
     THEN DropStream /\ current' = NoConn /\ upgrading' = TRUE
     ELSE UNCHANGED <<funcs, up, ping_timer, current, upgrading>>
  /\ UNCHANGED <<passVars, poll_list, resolving, sock, server_fd, write_op_queue, owner, connected,
                 pending_ping_count, made, sends, crashed, server, session>>

-----------------------------------------------------------------------------

(* The steps of a stream that the client has no part in. *)
StreamStep ==
  /\ \E c \in Conn :
       OnResolved(c) \/ SocketOnConnected(c) \/ OnHandshake(c) \/ Written(c) \/ SocketClose(c)
  /\ UNCHANGED <<clientVars, made, worldVars, joinVars>>

Resolver ==
  /\ \E found \in BOOLEAN : Resolved(found)
  /\ UNCHANGED <<clientVars, made, worldVars, joinVars>>

(* A stream is destroyed as soon as nothing refers to it: the client's     *)
(* sock does, too.                                                         *)
Doomed(c) == current # c /\ Unreferenced(c) /\ (sock[c] # NoFd \/ server_fd[c] # NoFd)
DestroyStream(c) ==
  /\ Doomed(c) /\ Destroy(c)
  /\ UNCHANGED <<clientVars, made, worldVars, joinVars>>

Receiving(c) == ConnAck(c) \/ Refused(c) \/ SubAck(c) \/ PingResp(c) \/ Command(c) \/ Malformed(c)

ClientStep ==
  /\ \/ HandleError \/ ConnectDone \/ Send \/ WriteDone \/ ReadPacket \/ ReadFailed \/ Upgrade
     \/ \E c \in Conn : Writing(c) \/ Reading(c) \/ Receiving(c)
  /\ UNCHANGED joinVars

LoopStep ==
  /\ \A c \in Conn : ~Doomed(c)
  /\ \/ PingDue
     \/ (Select \/ SelectTimeout \/ RunFunc \/ Answer \/ PassDone) /\ UNCHANGED <<clientVars, made, worldVars>>
  /\ UNCHANGED joinVars

Next ==
  /\ ~crashed
  /\ \/ Join \/ Connect \/ Publish \/ Resolver
     \/ StreamStep \/ ClientStep
     \/ \E c \in Conn : DestroyStream(c)
     \/ LoopStep

Spec == Init /\ [][Next]_vars

(* The loop is never stuck: it runs what there is to run, is woken for the *)
(* functions that were invoked, and is told, for each stream, when its     *)
(* connect's time is over or its socket has something else.  A name is     *)
(* resolved or not found.  The server goes on: it finishes a handshake,    *)
(* and answers what it was sent or leaves when that is a second CONNECT;   *)
(* or the stream fails.  Nothing in the client limits these.               *)
Woken == Select /\ funcs # <<>> /\ batch' = Len(funcs)
TimeOver(c) == SelectTimeout /\ \E n \in todo' : copy'[n].conn = c
Reported(c) == Select /\ \E n \in todo' : copy'[n].conn = c /\ copy'[n].cb # "connect"
HandshakeEnds == \E c \in Conn : OnHandshake(c) /\ calls' # <<>>
Answers == \E c \in Conn : ConnAck(c) \/ SubAck(c) \/ (Leaves(c) /\ Reading(c) /\ ~up'[c])

FairSpec ==
  /\ Spec
  /\ WF_vars(Connect \/ ClientStep \/ StreamStep \/ LoopStep \/ \E c \in Conn : DestroyStream(c))
  /\ WF_vars(Resolver)
  /\ SF_vars(LoopStep /\ Woken)
  /\ \A c \in Conn : SF_vars(LoopStep /\ (TimeOver(c) \/ Reported(c)))
  /\ SF_vars((StreamStep /\ HandshakeEnds) \/ (Answers /\ UNCHANGED joinVars))

-----------------------------------------------------------------------------

Code == {"ok", "Cancelled", "Timeout", "NameResolutionFailed", "InternalError", "TLSProtocolError",
         "ConnectionClosed", "ReadError", "WriteError", "ProtocolError"}
Op == {"connect", "subscribe", "ping", "publish"}
Call ==
  [call : {"socket_on_connected", "on_handshake", "do_write", "written", "do_read", "socket_close"},
   conn : Conn]
  \union [call : {"on_resolved"}, conn : Conn, found : BOOLEAN]
  \union [call : {"connect_cb"}, conn : Conn, ec : Code]
  \union [call : {"write_cb"}, op : Op, ec : Code]
  \union [call : {"read_cb", "handle_error"}, ec : Code]
  \union [call : {"send"}, op : Op]
  \union [call : {"read_packet", "upgrade", "connect"}]
Dir == {"read", "write"}
Purpose == {"connect", "handshake", "read", "write"}
Entry == [fd : Fd \union {NoFd}, dir : Dir, cb : Purpose, conn : Conn, cancelled : BOOLEAN]

Func ==
  [f : {"resolved"}, conn : Conn, found : BOOLEAN]
  \union [f : {"close"}, conn : Conn]
  \union [f : {"write"}, conn : Conn, op : Op]
  \union [f : {"call"}, conn : {Free}, then : {x \in Call : x.call \in {"send", "upgrade", "connect"}}]

LoopTypes ==
  /\ phase \in {"select", "pass"}
  /\ poll_list \in Seq(Entry) /\ copy \in Seq(Entry)
  /\ todo \subseteq DOMAIN copy
  /\ ec \in {"ok", "Cancelled", "Timeout"}
  /\ funcs \in Seq(Func)
  /\ batch \in 0..Len(funcs)
  /\ calls \in Seq(Call)
StreamTypes ==
  /\ resolving \in Seq(Conn)
  /\ sock \in [Conn -> Fd \union {NoFd}] /\ server_fd \in [Conn -> Fd \union {NoFd}]
  /\ up \in [Conn -> BOOLEAN]
  /\ write_op_queue \in [Conn -> Seq(Op)]
  /\ owner \in [Fd -> Conn \union {Free}]
ClientTypes ==
  /\ current \in Conn \union {NoConn}
  /\ connected \in BOOLEAN /\ ping_timer \in BOOLEAN
  /\ pending_ping_count \in Int
  /\ made \in 0..MaxConn /\ sends \in 0..MaxSend
  /\ crashed \in BOOLEAN /\ upgrading \in BOOLEAN
  /\ server \in [Conn -> Seq(Op)]
  /\ session \in [Conn -> {"new", "open", "gone"}]

JoinTypes == joins \in 0..MaxJoin /\ replaced \in BOOLEAN

(* The types of the variables. *)
TypeOK == LoopTypes /\ StreamTypes /\ ClientTypes /\ JoinTypes

(* A descriptor that a stream has is its own: close and the destructors    *)
(* never close one that the network stack has given to another stream      *)
(* since, whatever fails and whichever answers arrive late.                *)
OwnsItsDescriptor == \A c \in Conn : sock[c] # NoFd => owner[sock[c]] = c

(* What the loop watches for a stream is that stream's, and open: no       *)
(* registration outlives its socket without being cancelled (close,        *)
(* ~Stream), so that none is answered with the events of another stream.   *)
RegistersOwnDescriptor ==
  \A e \in Range(poll_list) : e.fd # NoFd /\ ~e.cancelled => owner[e.fd] = e.conn

(* As long as connect replaced no stream, the application is told that the *)
(* client is connected only while the stream it has now is up and the      *)
(* server accepted it there, and the periodic ping only ever meets such a  *)
(* stream.  Answers for the streams before it are handled by the same      *)
(* functions (handle_connect_ack, handle_subscribe_ack, send_ping,         *)
(* handle_error).  (disconnect leaves the property as it was, so that      *)
(* after it the property says nothing.  A connect between the CONNACK and  *)
(* the SUBACK leaves the ping timer set for a stream without a session.)   *)
HasSession == current # NoConn /\ session[current] = "open"
KnowsItsSession ==
  calls = <<>> /\ ~replaced => /\ connected /\ ~upgrading => HasSession /\ up[current]
                               /\ ping_timer => HasSession

Connecting(c) ==
  \/ c \in Range(resolving)
  \/ \E f \in Range(funcs) : f.f = "resolved" /\ f.conn = c
  \/ \E e \in Range(poll_list) : e.cb \in {"connect", "handshake"} /\ e.conn = c

(* When only connections fail, and not what is written to them, and        *)
(* connect replaced no stream, a failure begins one attempt: the stream    *)
(* that is being connected is the client's and no other (connect,          *)
(* handle_error).                                                          *)
OneAttempt == calls = <<>> /\ ~replaced => \A c \in Conn : Connecting(c) => c = current

(* A pass may have what a stream waits for in its copy only, and a step of *)
(* its connecting may run.                                                 *)
Underway(c) ==
  \/ Connecting(c)
  \/ \E n \in todo : copy[n].cb \in {"connect", "handshake"} /\ copy[n].conn = c
  \/ \E name \in {"on_resolved", "socket_on_connected", "on_handshake"} : RunningFor(c, name)

(* What Completion sees: how far each stream is, and whose callback runs.  *)
Stages ==
  [c \in Conn |-> IF c > made THEN "unmade" ELSE IF Underway(c) THEN "connecting" ELSE "completed"]
Told == IF Running("connect_cb") THEN calls[1].conn ELSE NoConn
Streams == INSTANCE Completion WITH
  Connection <- Conn, Nobody <- NoConn, stage <- Stages, told <- Told

(* Over TCP, when no write has to wait for its socket, each stream that is *)
(* made completes its connecting once, however many connect at the same    *)
(* time: whichever pass, function or task has it, it is handed on until    *)
(* connect's callback is called with the result, no answer for another     *)
(* stream takes it away, though that had the same descriptor, and nothing  *)
(* completes it a second time (Stream::connect, on_resolved, handle_io,    *)
(* and the client's connect and handle_error, which make the streams).     *)
(* (A write that waits may be cancelled when its number is a new stream's, *)
(* and its answer then takes the new stream's registration away.)          *)
CompletesOnce == Streams!Spec

(* Something will call the client for this stream. *)
Attended(c) ==
  \/ Connecting(c)
  \/ \E f \in Range(funcs) : f.conn = c
  \/ \E e \in Range(poll_list) : e.conn = c /\ e.fd # NoFd

(* When only connections fail, and connect replaced no stream, the client  *)
(* never falls silent: until an update takes over, it has a stream that    *)
(* the loop or the resolver will call it for (handle_error).  (When        *)
(* connect left a stream connecting, and that one fails, handle_error      *)
(* closes the stream in its place, whose answer Cancelled then drops the   *)
(* next one.)                                                              *)
NeverStuck ==
  phase = "select" /\ calls = <<>> /\ made > 0 /\ ~upgrading /\ ~replaced =>
    current # NoConn /\ Attended(current)

(* Then no callback finds the client without a stream (send_connect,       *)
(* async_read_control_packet), although disconnect and handle_error drop   *)
(* it while callbacks are on their way.  (The Cancelled of one stream      *)
(* drops the other that connect left connecting, and its callback sends    *)
(* through none.)                                                          *)
NeverUsesNullSock == ~replaced => ~crashed

(* When only connections fail, every attempt ends, however often connect   *)
(* is called: the client is connected, or has dropped the stream, for the  *)
(* next attempt or for an update.  (The last stream of the bound has no    *)
(* next.)                                                                  *)
AttemptEnds ==
  \A c \in Conn \ {MaxConn} : (current = c /\ ~connected) ~> (connected \/ current # c)

(* "520K is insufficient to run two TLS connections, so close MQTT before  *)
(* retrieving new firmware": once firmware_update has disconnected the     *)
(* client, it does not connect again.                                      *)
StaysDisconnected == [][upgrading => made' = made]_vars

=============================================================================
