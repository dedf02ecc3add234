------------------------------- MODULE Stream -------------------------------
(***************************************************************************)
(* Streams over the main loop: components/loopp/src/net/Stream.cpp with    *)
(* TCPStream.cpp, TLSStream.cpp and Resolver.cpp.                          *)
(*                                                                         *)
(* A stream is made for one connection.  It is resolved by the resolver's  *)
(* task, connected, read, written and closed by functions and callbacks    *)
(* of the loop, and destroyed when nothing refers to it any more.  The     *)
(* loop's pass is that of Poll, with everything that only wakes it left    *)
(* out: a copy of poll_list, the functions that were invoked, the answers. *)
(*                                                                         *)
(* A callback calls others before it returns.  What is still to be called  *)
(* is in calls, innermost first, and the loop goes on when it is empty.    *)
(* The calls that belong to the user of the streams are MqttClient's.      *)
(***************************************************************************)
EXTENDS Integers, Sequences, SequencesExt, FiniteSets

CONSTANTS
  MaxConn,   (* bound: streams that are made                               *)
  MaxFd,     (* descriptors of the network stack                           *)
  Secure,    (* whether the streams are TLS streams                        *)
  Faults     (* what may go wrong outside, see Fault                       *)

Fault == {"no_address", "unreachable", "silent", "handshake", "again",
          "closed", "read_error", "write_error", "refused", "malformed"}

ASSUME StreamAssumption ==
  /\ MaxConn \in Nat \ {0}
  /\ MaxFd \in Nat \ {0}
  /\ Secure \in BOOLEAN
  /\ Faults \subseteq Fault

Conn == 1..MaxConn
Fd == 1..MaxFd
NoFd == -1       \* sock of a stream without a socket
Free == 0        \* owner of a descriptor that is not open

VARIABLES
  phase,      (* where the loop is in its pass                             *)
  poll_list,  (* entries [fd, dir, cb, conn, cancelled]                    *)
  copy,       (* poll_list_copy: it keeps the streams in it alive          *)
  todo,       (* positions in the copy that the pass has still to answer   *)
  ec,         (* the error code that the pass hands to callbacks           *)
  funcs,      (* the functions that were invoked and have not run          *)
  batch,      (* how many of them the pass still runs                      *)
  calls,      (* what the running function or callback has still to call   *)
  resolving,  (* streams whose name is at the resolver                     *)
  sock,       (* Stream::sock                                              *)
  server_fd,  (* TLSStream::server_fd.fd                                   *)
  up,         (* Stream::connected_property                                *)
  write_op_queue,
  owner       (* which stream has a descriptor open                        *)

passVars == <<phase, copy, todo, ec, batch>>
streamVars == <<resolving, sock, server_fd, up, write_op_queue, owner>>
loopVars == <<passVars, poll_list, funcs, calls>>

(* Slip: the constructor leaves the socket at zero. *)
NoSocketZero ==
  /\ sock = [c \in Conn |-> 0]
  /\ server_fd = [c \in Conn |-> NoFd]

NoSocket ==
  /\ sock = [c \in Conn |-> NoFd]
  /\ server_fd = [c \in Conn |-> NoFd]

StreamInit ==
  /\ phase = "select"
  /\ poll_list = <<>> /\ copy = <<>> /\ todo = {}
  /\ funcs = <<>> /\ calls = <<>>
  /\ ec = "ok" /\ batch = 0
  /\ resolving = <<>>
  /\ NoSocket
  /\ up = [c \in Conn |-> FALSE]
  /\ write_op_queue = [c \in Conn |-> <<>>]
  /\ owner = [fd \in Fd |-> Free]

-----------------------------------------------------------------------------
(* MainLoop::notify, unnotify and cancel on a list.                        *)

Has(list, fd, dir) == \E e \in Range(list) : e.fd = fd /\ e.dir = dir

(* A second registration of a key keeps the cancelled mark of the first.   *)
Notify(list, fd, dir, cb, c) ==
  IF Has(list, fd, dir)
  THEN [n \in DOMAIN list |->
          IF list[n].fd = fd /\ list[n].dir = dir
          THEN [list[n] EXCEPT !.cb = cb, !.conn = c] ELSE list[n]]
  ELSE Append(list, [fd |-> fd, dir |-> dir, cb |-> cb, conn |-> c, cancelled |-> FALSE])

(* The first entry of the key is erased; there is no second one.           *)
Find(list, fd, dir) ==
  CHOOSE n \in DOMAIN list :
    /\ list[n].fd = fd /\ list[n].dir = dir
    /\ \A m \in 1..(n - 1) : ~(list[m].fd = fd /\ list[m].dir = dir)

Unnotify(list, fd, dir) ==
  IF Has(list, fd, dir) THEN RemoveAt(list, Find(list, fd, dir)) ELSE list

UnnotifyFd(list, fd) ==
  IF fd = NoFd THEN list ELSE Unnotify(Unnotify(list, fd, "read"), fd, "write")

(* Slip: nothing is cancelled. *)
CancelNothing(list, fd) == list

Cancel(list, fd) ==
  [n \in DOMAIN list |-> IF list[n].fd = fd THEN [list[n] EXCEPT !.cancelled = TRUE] ELSE list[n]]

(* The running call is done and calls those in s first. *)
Calling(s) == calls' = s \o Tail(calls)
Running(name) == calls # <<>> /\ calls[1].call = name
RunningFor(c, name) == Running(name) /\ calls[1].conn = c

(* The calls that the user of a stream gets. *)
ConnectCb(c, e) == [call |-> "connect_cb", conn |-> c, ec |-> e]
ReadCb(e) == [call |-> "read_cb", ec |-> e]
WriteCb(op, e) == [call |-> "write_cb", op |-> op, ec |-> e]

-----------------------------------------------------------------------------
(* Connecting.                                                             *)

(* The resolver's task answers one request after the other. *)
Resolved(found) ==
  /\ resolving # <<>>
  /\ found \/ "no_address" \in Faults
  /\ resolving' = Tail(resolving)
  /\ funcs' = Append(funcs, [f |-> "resolved", conn |-> Head(resolving), found |-> found])
  /\ UNCHANGED <<passVars, poll_list, calls, sock, server_fd, up, write_op_queue, owner>>

FreeFds == {fd \in Fd : owner[fd] = Free}
Lowest(fd) == fd \in FreeFds /\ \A other \in FreeFds : fd <= other

(* on_resolved: the stack hands out the lowest free descriptor.  A socket  *)
(* that connect refuses is closed again; one that fcntl does not make      *)
(* non-blocking stays open, until the stream is closed or destroyed.       *)
OnResolved(c) ==
  /\ RunningFor(c, "on_resolved")
  /\ \/ /\ ~calls[1].found
        /\ Calling(<<ConnectCb(c, "NameResolutionFailed")>>)
        /\ UNCHANGED <<poll_list, sock, owner>>
     \/ /\ calls[1].found
        /\ FreeFds = {} \/ "unreachable" \in Faults
        /\ Calling(<<ConnectCb(c, "InternalError")>>)
        /\ UNCHANGED <<poll_list, sock, owner>>
     \/ /\ calls[1].found
        /\ \E fd \in Fd :
             /\ Lowest(fd)
             /\ sock' = [sock EXCEPT ![c] = fd]
             /\ owner' = [owner EXCEPT ![fd] = c]
             /\ \/ /\ poll_list' = Notify(poll_list, fd, "write", "connect", c)
                   /\ Calling(<<>>)
                \/ /\ "unreachable" \in Faults
                   /\ poll_list' = poll_list
                   /\ Calling(<<ConnectCb(c, "InternalError")>>)
  /\ UNCHANGED <<passVars, funcs, resolving, server_fd, up, write_op_queue>>

(* socket_on_connected: a TCP stream is connected, a TLS stream begins its *)
(* handshake.                                                              *)
SocketOnConnected(c) ==
  /\ RunningFor(c, "socket_on_connected")
  /\ IF Secure
     THEN /\ server_fd' = [server_fd EXCEPT ![c] = sock[c]]
          /\ Calling(<<[call |-> "on_handshake", conn |-> c]>>)
          /\ UNCHANGED up
     ELSE /\ up' = [up EXCEPT ![c] = TRUE]
          /\ Calling(<<ConnectCb(c, "ok")>>)
          /\ UNCHANGED server_fd
  /\ UNCHANGED <<passVars, poll_list, funcs, resolving, sock, write_op_queue, owner>>

(* on_handshake wants to read or to write more, is done, or fails.         *)
OnHandshake(c) ==
  /\ RunningFor(c, "on_handshake")
  /\ \/ /\ \E dir \in {"read", "write"} :
             poll_list' = Notify(poll_list, server_fd[c], dir, "handshake", c)
        /\ Calling(<<>>)
        /\ UNCHANGED up
     \/ /\ up' = [up EXCEPT ![c] = TRUE]
        /\ Calling(<<ConnectCb(c, "ok")>>)
        /\ UNCHANGED poll_list
     \/ /\ "handshake" \in Faults
        /\ Calling(<<ConnectCb(c, "TLSProtocolError")>>)
        /\ UNCHANGED <<poll_list, up>>
  /\ UNCHANGED <<passVars, funcs, resolving, sock, server_fd, write_op_queue, owner>>

-----------------------------------------------------------------------------
(* Writing.  An operation is a name; its data is written whole or not yet. *)

(* write_async of a connected stream. *)
Write(c, op) == [f |-> "write", conn |-> c, op |-> op]

(* What write() may return: a stream that was closed writes to -1, or      *)
(* through TLS to a number that is not its own any more.                   *)
Target(c) == IF Secure THEN server_fd[c] ELSE sock[c]
WriteResult(c) ==
  IF Target(c) = NoFd \/ owner[Target(c)] = Free
  THEN {"write_error"}
  ELSE {"done"} \union (Faults \cap {"again", "write_error"})

DoWrite(c, result) ==
  /\ RunningFor(c, "do_write")
  /\ result \in WriteResult(c)
  /\ IF result = "again"
     THEN /\ poll_list' = Notify(poll_list, sock[c], "write", "write", c)
          /\ Calling(<<>>)
     ELSE /\ Calling(<<WriteCb(Head(write_op_queue[c]), IF result = "done" THEN "ok" ELSE "WriteError"),
                       [call |-> "written", conn |-> c]>>)
          /\ UNCHANGED poll_list
  /\ UNCHANGED <<passVars, funcs, streamVars>>

(* The operation leaves the queue after its callback, and the next one     *)
(* waits for the socket, which may be gone.                                *)
Written(c) ==
  /\ RunningFor(c, "written")
  /\ write_op_queue' = [write_op_queue EXCEPT ![c] = Tail(@)]
  /\ poll_list' = IF write_op_queue'[c] = <<>> THEN poll_list
                  ELSE Notify(poll_list, sock[c], "write", "write", c)
  /\ Calling(<<>>)
  /\ UNCHANGED <<passVars, funcs, resolving, sock, server_fd, up, owner>>

-----------------------------------------------------------------------------
(* Reading.  One read stands for the reads of one packet: a whole packet   *)
(* arrives, or nothing does.                                               *)

ReadClosed(c, leaves) ==
  /\ RunningFor(c, "do_read")
  /\ ~up[c] \/ leaves \/ "closed" \in Faults
  /\ up' = [up EXCEPT ![c] = FALSE]
  /\ Calling(<<ReadCb("ConnectionClosed")>>)
  /\ UNCHANGED <<passVars, poll_list, funcs, resolving, sock, server_fd, write_op_queue, owner>>

ReadError(c) ==
  /\ RunningFor(c, "do_read")
  /\ up[c] /\ "read_error" \in Faults
  /\ Calling(<<ReadCb("ReadError")>>)
  /\ UNCHANGED <<passVars, poll_list, funcs, streamVars>>

ReadAgain(c) ==
  /\ RunningFor(c, "do_read")
  /\ up[c]
  /\ poll_list' = Notify(poll_list, sock[c], "read", "read", c)
  /\ Calling(<<>>)
  /\ UNCHANGED <<passVars, funcs, streamVars>>

-----------------------------------------------------------------------------
(* Closing.                                                                *)

CloseFd(own, fd) == IF fd = NoFd THEN own ELSE [own EXCEPT ![fd] = Free]

(* close() leaves the rest to a function. *)
Closing(c, fs) == IF up[c] THEN Append(fs, [f |-> "close", conn |-> c]) ELSE fs

(* Slip: the number of the closed socket is kept. *)
SocketCloseKeeps(c) ==
  /\ RunningFor(c, "socket_close")
  /\ owner' = CloseFd(owner, sock[c])
  /\ poll_list' = Cancel(poll_list, sock[c])
  /\ Calling(<<>>)
  /\ UNCHANGED <<passVars, funcs, resolving, sock, server_fd, up, write_op_queue>>

SocketClose(c) ==
  /\ RunningFor(c, "socket_close")
  /\ owner' = CloseFd(owner, sock[c])
  /\ poll_list' = Cancel(poll_list, sock[c])
  /\ sock' = [sock EXCEPT ![c] = NoFd]
  /\ Calling(<<>>)
  /\ UNCHANGED <<passVars, funcs, resolving, server_fd, up, write_op_queue>>

(* Nothing in the loop or the resolver refers to a stream. *)
Unreferenced(c) ==
  /\ \A e \in Range(copy) : e.conn # c
  /\ c \notin Range(resolving)
  /\ \A e \in Range(poll_list) : e.conn # c
  /\ \A f \in Range(funcs) : f.conn # c

(* The destructors: a TLS stream closes the number that its handshake      *)
(* used, whoever has it now, and every stream the socket it still has.     *)
Destroy(c) ==
  /\ calls = <<>>
  /\ owner' = CloseFd(CloseFd(owner, server_fd[c]), sock[c])
  /\ poll_list' = UnnotifyFd(UnnotifyFd(poll_list, server_fd[c]), sock[c])
  /\ sock' = [sock EXCEPT ![c] = NoFd]
  /\ server_fd' = [server_fd EXCEPT ![c] = NoFd]
  /\ UNCHANGED <<passVars, funcs, calls, resolving, up, write_op_queue>>

-----------------------------------------------------------------------------
(* The loop's pass: run, do_select, handle_queue, handle_io and            *)
(* handle_timeout.                                                         *)

Ready(list) == {n \in DOMAIN list : ~list[n].cancelled /\ list[n].fd # NoFd}

(* select reports some descriptors, or the trigger, or both.               *)
Select ==
  /\ phase = "select" /\ calls = <<>>
  /\ \E ready \in SUBSET Ready(poll_list), n \in {0, Len(funcs)} :
       /\ batch' = n
       /\ todo' = ready \union {i \in DOMAIN poll_list : poll_list[i].cancelled}
  /\ copy' = poll_list
  /\ ec' = "ok"
  /\ phase' = "pass"
  /\ UNCHANGED <<poll_list, funcs, calls, streamVars>>

(* Slip: the time limit is set for reads. *)
SelectTimeoutReads ==
  /\ phase = "select" /\ calls = <<>> /\ "silent" \in Faults
  /\ todo' \in (SUBSET {n \in DOMAIN poll_list : poll_list[n].cb = "read"}) \ {{}}
  /\ copy' = poll_list
  /\ ec' = "Timeout"
  /\ phase' = "pass"
  /\ UNCHANGED <<poll_list, funcs, batch, calls, streamVars>>

(* select's own time is over: connections that were not answered expire.   *)
SelectTimeout ==
  /\ phase = "select" /\ calls = <<>> /\ "silent" \in Faults
  /\ todo' \in (SUBSET {n \in DOMAIN poll_list : poll_list[n].cb = "connect"}) \ {{}}
  /\ copy' = poll_list
  /\ ec' = "Timeout"
  /\ phase' = "pass"
  /\ UNCHANGED <<poll_list, funcs, batch, calls, streamVars>>

(* handle_queue calls the next function of its batch. *)
RunFunc ==
  /\ phase = "pass" /\ calls = <<>> /\ batch > 0
  /\ batch' = batch - 1
  /\ funcs' = Tail(funcs)
  /\ LET f == Head(funcs)
     IN  CASE f.f = "resolved" ->
                /\ calls' = <<[call |-> "on_resolved", conn |-> f.conn, found |-> f.found]>>
                /\ UNCHANGED write_op_queue
           [] f.f = "close" ->
                /\ calls' = <<[call |-> "socket_close", conn |-> f.conn]>>
                /\ UNCHANGED write_op_queue
           [] f.f = "write" ->
                /\ write_op_queue' = [write_op_queue EXCEPT ![f.conn] = Append(@, f.op)]
                /\ calls' = IF write_op_queue[f.conn] = <<>>
                            THEN <<[call |-> "do_write", conn |-> f.conn]>> ELSE <<>>
           [] OTHER ->
                /\ calls' = <<f.then>>
                /\ UNCHANGED write_op_queue
  /\ UNCHANGED <<phase, copy, todo, ec, poll_list, resolving, sock, server_fd, up, owner>>

(* A function of the streams' user is the call that it makes. *)
Invoked(call) == [f |-> "call", conn |-> Free, then |-> call]

(* What the callback of an entry does with the error code it is told. *)
Callback(e, code) ==
  CASE e.cb = "connect" /\ code = "ok" -> <<[call |-> "socket_on_connected", conn |-> e.conn]>>
    [] e.cb = "handshake" /\ code = "ok" -> <<[call |-> "on_handshake", conn |-> e.conn]>>
    [] e.cb \in {"connect", "handshake"} /\ code # "ok" -> <<ConnectCb(e.conn, code)>>
    [] e.cb = "write" /\ code = "ok" -> <<[call |-> "do_write", conn |-> e.conn]>>
    [] e.cb = "write" /\ code # "ok" ->
         <<WriteCb(Head(write_op_queue[e.conn]), code), [call |-> "written", conn |-> e.conn]>>
    [] e.cb = "read" /\ code = "ok" -> <<[call |-> "do_read", conn |-> e.conn]>>
    [] OTHER -> <<ReadCb(code)>>

(* Slip: the key stays in the list. *)
AnswerKeeps ==
  /\ phase = "pass" /\ calls = <<>> /\ batch = 0
  /\ \E n \in todo :
       /\ \A m \in todo : n <= m
       /\ ec' = IF copy[n].cancelled /\ ec # "Timeout" THEN "Cancelled" ELSE ec
       /\ calls' = Callback(copy[n], ec')
       /\ todo' = todo \ {n}
  /\ UNCHANGED <<phase, copy, batch, poll_list, funcs, streamVars>>

(* handle_io and handle_timeout: the key leaves the list, whatever is      *)
(* registered there by now, and the entry of the copy is called.           *)
Answer ==
  /\ phase = "pass" /\ calls = <<>> /\ batch = 0
  /\ \E n \in todo :
       /\ \A m \in todo : n <= m
       /\ LET e == copy[n]
          IN  /\ ec' = IF e.cancelled /\ ec # "Timeout" THEN "Cancelled" ELSE ec
              /\ poll_list' = Unnotify(poll_list, e.fd, e.dir)
              /\ calls' = Callback(e, ec')
       /\ todo' = todo \ {n}
  /\ UNCHANGED <<phase, copy, batch, funcs, streamVars>>

(* The copy is gone at the end of the pass. *)
PassDone ==
  /\ phase = "pass" /\ calls = <<>> /\ batch = 0 /\ todo = {}
  /\ phase' = "select"
  /\ copy' = <<>>
  /\ UNCHANGED <<todo, ec, batch, poll_list, funcs, calls, streamVars>>

=============================================================================
