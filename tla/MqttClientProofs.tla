-------------------------- MODULE MqttClientProofs --------------------------
(***************************************************************************)
(* Proofs about Stream and MqttClient, for every value of the constants.   *)
(*                                                                         *)
(*   OwnInv       over TCP no stream has, and so closes, a descriptor that *)
(*                is not its own: one that is handed out was free, and     *)
(*                close and the destructor forget the number they close    *)
(*   TInv         the types, with one writer for each stream               *)
(*   RegInv       over TCP no registration outlives its socket             *)
(*   SessionInv   a stream connects once, and what is read is read from    *)
(*                the stream that the client has, so that the session is   *)
(*                that stream's                                            *)
(*   AttemptInv   if only connections fail, the client's attempt is in one *)
(*                place at a time, and a stream that was dropped writes    *)
(*                and closes before it is gone                             *)
(*   CompletionInv  over TCP what the loop watches for writing is a stream *)
(*                that connects, under the number of its socket, and what  *)
(*                a pass answers is still registered, so that each step    *)
(*                is one of Completion                                     *)
(*                                                                         *)
(* What is read and the attempt are the client's stream's only as long as  *)
(* connect never took the place of a stream that the client had, which     *)
(* MqttClient::connect does not prevent: those invariants are about the    *)
(* behaviours in which replaced is false, the others about all of them.    *)
(*                                                                         *)
(* Each section defines its invariant, shows that every action keeps it,   *)
(* one lemma for each, and ends with its theorems.                         *)
(***************************************************************************)
EXTENDS MqttClient, SequenceTheorems, TLAPS

(* The types of the descriptors. *)
FdTypes ==
  /\ sock \in [Conn -> Fd \union {NoFd}]
  /\ server_fd = [c \in Conn |-> NoFd]
  /\ owner \in [Fd -> Conn \union {Free}]

OwnInv == FdTypes /\ OwnsItsDescriptor

fdVars == <<sock, server_fd, owner>>

(* Steps that do not touch the descriptors keep the invariant. *)
LEMMA OwnStutter ==
  ASSUME OwnInv, UNCHANGED fdVars
  PROVE  OwnInv'
BY DEF OwnInv, FdTypes, OwnsItsDescriptor, fdVars

(* Closing the descriptor of a stream frees one that no other has. *)
LEMMA OwnClose ==
  ASSUME OwnInv, NEW c \in Conn,
         owner' = CloseFd(owner, sock[c]), sock' = [sock EXCEPT ![c] = NoFd],
         UNCHANGED server_fd
  PROVE  OwnInv'
<1>1. FdTypes'
  BY StreamAssumption DEF OwnInv, FdTypes, CloseFd, Conn, Fd, NoFd, Free
<1>2. ASSUME NEW d \in Conn, sock'[d] # NoFd
      PROVE  owner'[sock'[d]] = d
  <2>1. d # c /\ sock'[d] = sock[d]
    BY <1>2 DEF OwnInv, FdTypes
  <2>2. owner[sock[d]] = d
    BY <1>2, <2>1 DEF OwnInv, OwnsItsDescriptor
  <2>3. sock[c] # NoFd => sock[c] # sock[d]
    BY <2>1, <2>2 DEF OwnInv, OwnsItsDescriptor
  <2> QED
    BY <2>1, <2>2, <2>3 DEF CloseFd, OwnInv, FdTypes
<1> QED
  BY <1>1, <1>2 DEF OwnInv, OwnsItsDescriptor

(* A stream's new socket has a number that no stream has. *)
LEMMA OwnOpen ==
  ASSUME OwnInv, NEW c \in Conn, OnResolved(c)
  PROVE  OwnInv'
<1>1. CASE UNCHANGED <<sock, owner>>
  <2>1. UNCHANGED fdVars
    BY <1>1 DEF OnResolved, fdVars
  <2> QED
    BY <2>1, OwnStutter
<1>2. CASE \E fd \in Fd : /\ Lowest(fd)
                          /\ sock' = [sock EXCEPT ![c] = fd]
                          /\ owner' = [owner EXCEPT ![fd] = c]
  <2>1. PICK fd \in Fd : /\ owner[fd] = Free
                         /\ sock' = [sock EXCEPT ![c] = fd]
                         /\ owner' = [owner EXCEPT ![fd] = c]
    BY <1>2 DEF Lowest, FreeFds
  <2>2. FdTypes'
    BY <2>1 DEF OwnInv, FdTypes, OnResolved
  <2>3. ASSUME NEW d \in Conn, sock'[d] # NoFd
        PROVE  owner'[sock'[d]] = d
    <3>1. CASE d = c
      BY <2>1, <3>1 DEF OwnInv, FdTypes
    <3>2. CASE d # c
      <4>1. sock'[d] = sock[d] /\ owner[sock[d]] = d
        BY <2>1, <2>3, <3>2 DEF OwnInv, FdTypes, OwnsItsDescriptor
      <4>2. sock[d] # fd
        BY <2>1, <4>1 DEF Conn, Free
      <4> QED
        BY <2>1, <2>3, <4>1, <4>2 DEF OwnInv, FdTypes
    <3> QED
      BY <3>1, <3>2
  <2> QED
    BY <2>2, <2>3 DEF OwnInv, OwnsItsDescriptor
<1> QED
  BY <1>1, <1>2 DEF OnResolved

(* A step of the loop's pass leaves the descriptors alone. *)
LEMMA LoopKeepsFds ==
  ASSUME LoopStep
  PROVE  UNCHANGED fdVars
<1>1. CASE PingDue
  BY <1>1 DEF PingDue, streamVars, fdVars
<1>2. CASE Select
  BY <1>2 DEF Select, streamVars, fdVars
<1>3. CASE SelectTimeout
  BY <1>3 DEF SelectTimeout, streamVars, fdVars
<1>4. CASE RunFunc
  BY <1>4 DEF RunFunc, fdVars
<1>5. CASE Answer
  BY <1>5 DEF Answer, streamVars, fdVars
<1>6. CASE PassDone
  BY <1>6 DEF PassDone, streamVars, fdVars
<1> QED
  BY <1>1, <1>2, <1>3, <1>4, <1>5, <1>6 DEF LoopStep

(* So does every step of the client: it closes a stream by a function. *)
LEMMA ClientKeepsFds ==
  ASSUME ClientStep
  PROVE  UNCHANGED fdVars
<1>1. CASE HandleError
  BY <1>1 DEF HandleError, fdVars
<1>2. CASE ConnectDone
  BY <1>2 DEF ConnectDone, streamVars, fdVars
<1>3. CASE Send
  BY <1>3 DEF Send, streamVars, fdVars
<1>4. CASE WriteDone
  BY <1>4 DEF WriteDone, streamVars, fdVars
<1>5. CASE ReadPacket
  BY <1>5 DEF ReadPacket, streamVars, fdVars
<1>6. CASE ReadFailed
  BY <1>6 DEF ReadFailed, streamVars, fdVars
<1>7. CASE Upgrade
  BY <1>7 DEF Upgrade, fdVars
<1>8. ASSUME NEW c \in Conn, Writing(c)
      PROVE  UNCHANGED fdVars
  BY <1>8 DEF Writing, DoWrite, streamVars, fdVars
<1>9. ASSUME NEW c \in Conn, Reading(c)
      PROVE  UNCHANGED fdVars
  BY <1>9 DEF Reading, ReadClosed, ReadError, ReadAgain, streamVars, fdVars
<1>10. ASSUME NEW c \in Conn, Receiving(c)
       PROVE  UNCHANGED fdVars
  BY <1>10 DEF Receiving, ConnAck, Refused, SubAck, PingResp, Command, Malformed, streamVars, fdVars
<1> QED
  BY <1>1, <1>2, <1>3, <1>4, <1>5, <1>6, <1>7, <1>8, <1>9, <1>10 DEF ClientStep

(* The streams' own steps: one opens a socket, one closes it. *)
LEMMA StreamKeepsOwn ==
  ASSUME ~Secure, OwnInv, StreamStep
  PROVE  OwnInv'
<1>1. PICK c \in Conn :
        OnResolved(c) \/ SocketOnConnected(c) \/ OnHandshake(c) \/ Written(c) \/ SocketClose(c)
  BY DEF StreamStep
<1>2. CASE OnResolved(c)
  BY <1>2, OwnOpen
<1>3. CASE SocketOnConnected(c)
  <2>1. UNCHANGED fdVars
    BY <1>3 DEF SocketOnConnected, fdVars
  <2> QED
    BY <2>1, OwnStutter
<1>4. CASE OnHandshake(c)
  <2>1. UNCHANGED fdVars
    BY <1>4 DEF OnHandshake, fdVars
  <2> QED
    BY <2>1, OwnStutter
<1>5. CASE Written(c)
  <2>1. UNCHANGED fdVars
    BY <1>5 DEF Written, fdVars
  <2> QED
    BY <2>1, OwnStutter
<1>6. CASE SocketClose(c)
  BY <1>6, OwnClose DEF SocketClose
<1> QED
  BY <1>1, <1>2, <1>3, <1>4, <1>5, <1>6

(* Every step keeps the invariant. *)
LEMMA OwnNext ==
  ASSUME ~Secure, OwnInv, [Next]_vars
  PROVE  OwnInv'
<1>1. CASE Join \/ Connect
  <2>1. UNCHANGED fdVars
    BY <1>1 DEF Join, Connect, streamVars, fdVars
  <2> QED
    BY <2>1, OwnStutter
<1>2. CASE Publish
  <2>1. UNCHANGED fdVars
    BY <1>2 DEF Publish, streamVars, fdVars
  <2> QED
    BY <2>1, OwnStutter
<1>3. CASE Resolver
  <2>1. UNCHANGED fdVars
    BY <1>3 DEF Resolver, Resolved, fdVars
  <2> QED
    BY <2>1, OwnStutter
<1>4. CASE StreamStep
  BY <1>4, StreamKeepsOwn
<1>5. CASE ClientStep
  BY <1>5, ClientKeepsFds, OwnStutter
<1>6. ASSUME NEW c \in Conn, DestroyStream(c)
      PROVE  OwnInv'
  <2>1. owner' = CloseFd(owner, sock[c]) /\ sock' = [sock EXCEPT ![c] = NoFd]
    BY <1>6 DEF DestroyStream, Destroy, OwnInv, FdTypes, CloseFd
  <2>2. UNCHANGED server_fd
    BY <1>6 DEF DestroyStream, Destroy, OwnInv, FdTypes
  <2> QED
    BY <2>1, <2>2, OwnClose
<1>7. CASE LoopStep
  BY <1>7, LoopKeepsFds, OwnStutter
<1>8. CASE UNCHANGED vars
  <2>1. UNCHANGED fdVars
    BY <1>8 DEF vars, streamVars, fdVars
  <2> QED
    BY <2>1, OwnStutter
<1> QED
  BY <1>1, <1>2, <1>3, <1>4, <1>5, <1>6, <1>7, <1>8 DEF Next

(* Over TCP, whatever fails and however many streams there are, a stream's *)
(* descriptor is its own (on_resolved, close, ~Stream).                    *)
THEOREM TcpStreamsOwnTheirDescriptors ==
  ASSUME ~Secure
  PROVE  Spec => []OwnsItsDescriptor
<1>1. Init => OwnInv
  BY StreamAssumption DEF Init, StreamInit, NoSocket, OwnInv, FdTypes, OwnsItsDescriptor, Conn, Fd, Free, NoFd
<1>2. OwnInv /\ [Next]_vars => OwnInv'
  BY OwnNext
<1>3. OwnInv => OwnsItsDescriptor
  BY DEF OwnInv
<1> QED
  BY <1>1, <1>2, <1>3, PTL DEF Spec

-----------------------------------------------------------------------------
(* The types, for every value of the constants.  That a callback of write  *)
(* takes the head of its queue is part of them, so the invariant says who  *)
(* writes: one at a time for a stream, a call that runs or a registration, *)
(* and then there is something to write.                                   *)

(* A key is in a list once (notify). *)
Unique(list) ==
  \A m, n \in DOMAIN list : list[m].fd = list[n].fd /\ list[m].dir = list[n].dir => m = n

(* Only these calls are behind the running one. *)
Behind == \A n \in 2..Len(calls) : calls[n].call \in {"written", "handle_error", "read_packet"}

(* What the loop may still answer. *)
Watched == Range(poll_list) \union {copy[n] : n \in todo}
SameKey(a, b) == a.fd = b.fd /\ a.dir = b.dir

WriteCall == {"do_write", "written"}
WriteCalled(c) == \E n \in DOMAIN calls : calls[n].call \in WriteCall /\ calls[n].conn = c
WriteAwaited(c) == \E e \in Watched : e.cb = "write" /\ e.conn = c

OneWriteCall ==
  \A m, n \in DOMAIN calls : calls[m].call \in WriteCall /\ calls[n].call \in WriteCall => m = n
OneWrite ==
  /\ OneWriteCall
  /\ \A a, b \in Watched : a.cb = "write" /\ b.cb = "write" /\ a.conn = b.conn => SameKey(a, b)
  /\ \A c \in Conn :
       /\ WriteCalled(c) => ~WriteAwaited(c)
       /\ WriteCalled(c) \/ WriteAwaited(c) => write_op_queue[c] # <<>>

LInv == LoopTypes /\ Unique(poll_list) /\ Unique(copy) /\ Behind /\ OneWrite
TInv == LInv /\ StreamTypes /\ ClientTypes

(* What is known of an entry and of its fields. *)
LEMMA EntryFields ==
  \A e \in Entry : /\ e.fd \in Fd \union {NoFd} /\ e.dir \in {"read", "write"}
                   /\ e.cb \in {"connect", "handshake", "read", "write"}
                   /\ e.conn \in Conn /\ e.cancelled \in BOOLEAN
BY DEF Entry, Dir, Purpose

LEMMA InRange ==
  ASSUME NEW S, NEW list \in Seq(S)
  PROVE  /\ DOMAIN list = 1..Len(list) /\ Len(list) \in Nat
         /\ Range(list) \subseteq S
         /\ \A n \in DOMAIN list : list[n] \in S /\ list[n] \in Range(list)
         /\ \A x \in Range(list) : \E n \in DOMAIN list : x = list[n]
BY DEF Range

LEMMA NotifyIs ==
  ASSUME NEW list \in Seq(Entry), Unique(list), NEW fd \in Fd \union {NoFd},
         NEW dir \in Dir, NEW cb \in Purpose, NEW c \in Conn
  PROVE  /\ Notify(list, fd, dir, cb, c) \in Seq(Entry)
         /\ Unique(Notify(list, fd, dir, cb, c))
         /\ \A e \in Range(Notify(list, fd, dir, cb, c)) :
              \/ e \in Range(list) /\ ~(e.fd = fd /\ e.dir = dir)
              \/ /\ e.fd = fd /\ e.dir = dir /\ e.cb = cb /\ e.conn = c
                 /\ \/ \E old \in Range(list) : old.fd = fd /\ old.cancelled = e.cancelled
                    \/ ~e.cancelled
<1> DEFINE new == Notify(list, fd, dir, cb, c)
           fresh == [fd |-> fd, dir |-> dir, cb |-> cb, conn |-> c, cancelled |-> FALSE]
<1>1. DOMAIN list = 1..Len(list) /\ Len(list) \in Nat /\ \A n \in DOMAIN list : list[n] \in Entry
  OBVIOUS
<1>2. CASE Has(list, fd, dir)
  <2> DEFINE put(n) == IF list[n].fd = fd /\ list[n].dir = dir
                       THEN [list[n] EXCEPT !.cb = cb, !.conn = c] ELSE list[n]
  <2>1. new = [n \in DOMAIN list |-> put(n)]
    BY <1>2 DEF Notify
  <2>2. ASSUME NEW n \in DOMAIN list
        PROVE  /\ put(n) \in Entry
               /\ put(n).fd = list[n].fd /\ put(n).dir = list[n].dir
               /\ put(n).cancelled = list[n].cancelled
               /\ ~(list[n].fd = fd /\ list[n].dir = dir) => put(n) = list[n]
               /\ list[n].fd = fd /\ list[n].dir = dir => put(n).cb = cb /\ put(n).conn = c
    BY <1>1 DEF Entry
  <2> HIDE DEF put
  <2>3. /\ new \in Seq(Entry) /\ DOMAIN new = DOMAIN list
        /\ \A n \in DOMAIN list : new[n] = put(n)
    BY <2>1, <2>2, <1>1
  <2>4. Unique(new)
    BY <2>2, <2>3 DEF Unique
  <2>5. ASSUME NEW e \in Range(new)
        PROVE  \/ e \in Range(list) /\ ~(e.fd = fd /\ e.dir = dir)
               \/ /\ e.fd = fd /\ e.dir = dir /\ e.cb = cb /\ e.conn = c
                  /\ \/ \E old \in Range(list) : old.fd = fd /\ old.cancelled = e.cancelled
                     \/ ~e.cancelled
    <3>1. PICK n \in DOMAIN list : e = put(n)
      BY <2>3 DEF Range
    <3>2. list[n] \in Range(list)
      BY DEF Range
    <3>3. QED
      BY <2>2, <3>1, <3>2
  <2>6. QED
    BY <2>3, <2>4, <2>5
<1>3. CASE ~Has(list, fd, dir)
  <2>1. fresh \in Entry
    BY DEF Entry
  <2>2. new = Append(list, fresh)
    BY <1>3 DEF Notify
  <2> HIDE DEF fresh, new
  <2>3. /\ new \in Seq(Entry) /\ DOMAIN new = 1..(Len(list) + 1)
        /\ \A n \in DOMAIN list : new[n] = list[n]
        /\ new[Len(list) + 1] = fresh
    BY <1>1, <2>1, <2>2
  <2>4. \A n \in DOMAIN list : ~(list[n].fd = fd /\ list[n].dir = dir)
    BY <1>3 DEF Has, Range
  <2>5. /\ fresh.fd = fd /\ fresh.dir = dir /\ fresh.cb = cb /\ fresh.conn = c
        /\ ~fresh.cancelled
    BY DEF fresh
  <2>6. Unique(new)
    BY <1>1, <2>3, <2>4, <2>5 DEF Unique
  <2>7. ASSUME NEW e \in Range(new)
        PROVE  \/ e \in Range(list) /\ ~(e.fd = fd /\ e.dir = dir)
               \/ e.fd = fd /\ e.dir = dir /\ e.cb = cb /\ e.conn = c /\ ~e.cancelled
    <3>1. PICK n \in DOMAIN new : e = new[n]
      BY DEF Range
    <3>2. CASE n \in DOMAIN list
      BY <2>3, <2>4, <3>1, <3>2 DEF Range
    <3>3. CASE n = Len(list) + 1
      BY <2>3, <2>5, <3>1, <3>3
    <3>4. QED
      BY <1>1, <2>3, <3>2, <3>3
  <2>8. QED
    BY <2>3, <2>6, <2>7 DEF new
<1>4. QED
  BY <1>2, <1>3

(* The positions behind one that is left out. *)
LEMMA BehindOne ==
  ASSUME NEW n \in Nat, NEW at \in 1..n
  PROVE  /\ n - (at + 1) + 1 = n - at
         /\ (IF at + 1 <= n THEN n - at ELSE 0) = n - at
         /\ \A i \in 1..(n - at) : (at + 1) + i - 1 = at + i
OBVIOUS

(* Unnotify removes the entry of the key, which is alone. *)
LEMMA UnnotifyIs ==
  ASSUME NEW list \in Seq(Entry), Unique(list), NEW fd, NEW dir
  PROVE  /\ Unnotify(list, fd, dir) \in Seq(Entry)
         /\ Unique(Unnotify(list, fd, dir))
         /\ \A e \in Range(Unnotify(list, fd, dir)) :
              e \in Range(list) /\ ~(e.fd = fd /\ e.dir = dir)
         /\ \A e \in Range(list) : ~(e.fd = fd /\ e.dir = dir) => e \in Range(Unnotify(list, fd, dir))
<1> DEFINE Key(n) == list[n].fd = fd /\ list[n].dir = dir
<1>1. DOMAIN list = 1..Len(list) /\ Len(list) \in Nat /\ \A n \in DOMAIN list : list[n] \in Entry
  OBVIOUS
<1>2. CASE ~Has(list, fd, dir)
  BY <1>2 DEF Unnotify, Has
<1>3. CASE Has(list, fd, dir)
  <2> DEFINE at == Find(list, fd, dir)
             new == Unnotify(list, fd, dir)
  <2>1. PICK k \in DOMAIN list : Key(k)
    BY <1>3 DEF Has, Range
  <2>2. \A m \in DOMAIN list : Key(m) => m = k
    BY <2>1 DEF Unique
  <2>3. \A m \in 1..(k - 1) : m \in DOMAIN list /\ m # k
    BY <1>1, <2>1, SMT
  <2>4. at \in DOMAIN list /\ Key(at)
    <3>1. \E n \in DOMAIN list : /\ list[n].fd = fd /\ list[n].dir = dir
                                 /\ \A m \in 1..(n - 1) : ~(list[m].fd = fd /\ list[m].dir = dir)
      BY <2>1, <2>2, <2>3
    <3>2. QED
      BY <3>1, Zenon DEF Find
  <2>5. new = SubSeq(list, 1, at - 1) \o SubSeq(list, at + 1, Len(list))
    BY <1>3 DEF Unnotify, RemoveAt
  <2> HIDE DEF at, new
  <2>6. at \in 1..Len(list) /\ at \in Nat
    BY <2>4, <1>1
  <2>7. /\ SubSeq(list, 1, at - 1) \in Seq(Entry) /\ Len(SubSeq(list, 1, at - 1)) = at - 1
        /\ \A i \in 1..(at - 1) : SubSeq(list, 1, at - 1)[i] = list[i]
    BY <1>1, <2>6, SubSeqProperties
  <2>8. /\ SubSeq(list, at + 1, Len(list)) \in Seq(Entry)
        /\ Len(SubSeq(list, at + 1, Len(list))) = Len(list) - at
        /\ \A i \in 1..(Len(list) - at) : SubSeq(list, at + 1, Len(list))[i] = list[at + i]
    <3>1. at + 1 \in Int /\ Len(list) \in Int /\ \A i \in (at + 1)..Len(list) : list[i] \in Entry
      BY <1>1, <2>6, SMT
    <3>2. /\ SubSeq(list, at + 1, Len(list)) \in Seq(Entry)
          /\ Len(SubSeq(list, at + 1, Len(list)))
               = IF at + 1 <= Len(list) THEN Len(list) - (at + 1) + 1 ELSE 0
          /\ \A i \in 1..(Len(list) - (at + 1) + 1) :
               SubSeq(list, at + 1, Len(list))[i] = list[(at + 1) + i - 1]
      BY <3>1, SubSeqProperties
    <3>3. /\ Len(list) - (at + 1) + 1 = Len(list) - at
          /\ (IF at + 1 <= Len(list) THEN Len(list) - at ELSE 0) = Len(list) - at
          /\ \A i \in 1..(Len(list) - at) : (at + 1) + i - 1 = at + i
      BY <1>1, <2>6, BehindOne
    <3>4. QED
      BY <3>2, <3>3
  <2>9. /\ new \in Seq(Entry) /\ Len(new) = Len(list) - 1 /\ DOMAIN new = 1..(Len(list) - 1)
        /\ \A i \in 1..(Len(list) - 1) : new[i] = IF i < at THEN list[i] ELSE list[i + 1]
    <3> DEFINE front == SubSeq(list, 1, at - 1)
               back == SubSeq(list, at + 1, Len(list))
    <3>1. /\ front \in Seq(Entry) /\ Len(front) = at - 1
          /\ back \in Seq(Entry) /\ Len(back) = Len(list) - at
          /\ new = front \o back
      BY <2>5, <2>7, <2>8
    <3>2. /\ \A i \in 1..(at - 1) : front[i] = list[i]
          /\ \A i \in 1..(Len(list) - at) : back[i] = list[at + i]
      BY <2>7, <2>8
    <3> HIDE DEF front, back
    <3>3. /\ new \in Seq(Entry) /\ Len(new) = Len(list) - 1
          /\ DOMAIN new = 1..(Len(list) - 1)
      <4>1. new \in Seq(Entry) /\ Len(new) = Len(front) + Len(back)
        BY <3>1, ConcatProperties
      <4>2. (at - 1) + (Len(list) - at) = Len(list) - 1
        BY <1>1, <2>6, SMT
      <4>3. QED
        BY <3>1, <4>1, <4>2, LenProperties
    <3>4. ASSUME NEW i \in 1..(Len(list) - 1)
          PROVE  new[i] = IF i < at THEN list[i] ELSE list[i + 1]
      <4>1. CASE i < at
        BY <1>1, <2>6, <3>1, <3>2, <4>1
      <4>2. CASE ~(i < at)
        <5>1. i - (at - 1) \in 1..(Len(list) - at) /\ at + (i - (at - 1)) = i + 1
          BY <1>1, <2>6, <4>2, SMT
        <5>2. new[i] = back[i - (at - 1)]
          <6>1. i \in 1..(Len(front) + Len(back)) /\ ~(i <= Len(front))
            BY <1>1, <2>6, <3>1, <4>2, SMT
          <6>2. QED
            BY <3>1, <6>1, ConcatProperties
        <5>3. QED
          BY <3>2, <4>2, <5>1, <5>2
      <4>3. QED
        BY <4>1, <4>2
    <3>5. QED
      BY <3>3, <3>4
  <2>10. \A i \in DOMAIN new : \E n \in DOMAIN list :
            n # at /\ new[i] = list[n] /\ n = (IF i < at THEN i ELSE i + 1)
    BY <1>1, <2>6, <2>9
  <2>11. Unique(new)
    <3>1. ASSUME NEW i \in DOMAIN new, NEW j \in DOMAIN new,
                 new[i].fd = new[j].fd, new[i].dir = new[j].dir
          PROVE  i = j
      <4>1. (IF i < at THEN i ELSE i + 1) = (IF j < at THEN j ELSE j + 1)
        BY <2>10, <3>1 DEF Unique
      <4>2. i \in Nat /\ j \in Nat
        BY <2>9
      <4>3. QED
        BY <4>1, <4>2, <2>6, SMT
    <3>2. QED
      BY <3>1 DEF Unique
  <2>12. \A e \in Range(new) : e \in Range(list) /\ ~(e.fd = fd /\ e.dir = dir)
    BY <2>2, <2>4, <2>10 DEF Range
  <2>13. ASSUME NEW n \in DOMAIN list, ~Key(n)
         PROVE  list[n] \in Range(new)
    <3>1. n \in Nat /\ n # at /\ n <= Len(list) /\ n >= 1
      BY <1>1, <2>4, <2>13
    <3>2. CASE n < at
      <4>1. n \in 1..(Len(list) - 1)
        BY <1>1, <2>6, <3>1, <3>2, SMT
      <4>2. new[n] = list[n]
        BY <2>9, <3>2, <4>1
      <4>3. QED
        BY <2>9, <4>1, <4>2 DEF Range
    <3>3. CASE ~(n < at)
      <4>1. n - 1 \in 1..(Len(list) - 1) /\ ~(n - 1 < at) /\ (n - 1) + 1 = n
        BY <1>1, <2>6, <3>1, <3>3, SMT
      <4>2. new[n - 1] = list[n]
        BY <2>9, <4>1
      <4>3. QED
        BY <2>9, <4>1, <4>2 DEF Range
    <3>4. QED
      BY <3>2, <3>3
  <2>14. \A e \in Range(list) : ~(e.fd = fd /\ e.dir = dir) => e \in Range(new)
    BY <2>13 DEF Range
  <2>15. QED
    BY <2>9, <2>11, <2>12, <2>14 DEF new
<1>4. QED
  BY <1>2, <1>3

LEMMA UnnotifyFdIs ==
  ASSUME NEW list \in Seq(Entry), Unique(list), NEW fd
  PROVE  /\ UnnotifyFd(list, fd) \in Seq(Entry)
         /\ Unique(UnnotifyFd(list, fd))
         /\ \A e \in Range(UnnotifyFd(list, fd)) : e \in Range(list) /\ (fd # NoFd => e.fd # fd)
<1>1. CASE fd = NoFd
  BY <1>1 DEF UnnotifyFd
<1>2. CASE fd # NoFd
  <2> DEFINE half == Unnotify(list, fd, "read")
  <2>1. /\ half \in Seq(Entry) /\ Unique(half)
        /\ \A e \in Range(half) : e \in Range(list) /\ ~(e.fd = fd /\ e.dir = "read")
    BY UnnotifyIs
  <2>2. /\ Unnotify(half, fd, "write") \in Seq(Entry) /\ Unique(Unnotify(half, fd, "write"))
        /\ \A e \in Range(Unnotify(half, fd, "write")) :
             e \in Range(half) /\ ~(e.fd = fd /\ e.dir = "write")
    <3> HIDE DEF half
    <3>1. QED
      BY <2>1, UnnotifyIs
  <2>3. \A e \in Range(list) : e.dir \in {"read", "write"}
    BY InRange, EntryFields
  <2>4. UnnotifyFd(list, fd) = Unnotify(half, fd, "write")
    BY <1>2 DEF UnnotifyFd
  <2>5. QED
    BY <1>2, <2>1, <2>2, <2>3, <2>4
<1>3. QED
  BY <1>1, <1>2

LEMMA CancelIs ==
  ASSUME NEW list \in Seq(Entry), Unique(list), NEW fd
  PROVE  /\ Cancel(list, fd) \in Seq(Entry)
         /\ Unique(Cancel(list, fd))
         /\ \A e \in Range(Cancel(list, fd)) : \E old \in Range(list) :
              /\ e.fd = old.fd /\ e.dir = old.dir /\ e.cb = old.cb /\ e.conn = old.conn
              /\ e.fd # fd => e.cancelled = old.cancelled
              /\ e.fd = fd => e.cancelled
<1> DEFINE put(n) == IF list[n].fd = fd THEN [list[n] EXCEPT !.cancelled = TRUE] ELSE list[n]
           new == Cancel(list, fd)
<1>1. DOMAIN list = 1..Len(list) /\ Len(list) \in Nat /\ \A n \in DOMAIN list : list[n] \in Entry
  OBVIOUS
<1>2. new = [n \in DOMAIN list |-> put(n)]
  BY DEF Cancel
<1>3. ASSUME NEW n \in DOMAIN list
      PROVE  /\ put(n) \in Entry
             /\ put(n).fd = list[n].fd /\ put(n).dir = list[n].dir
             /\ put(n).cb = list[n].cb /\ put(n).conn = list[n].conn
             /\ list[n].fd # fd => put(n).cancelled = list[n].cancelled
             /\ list[n].fd = fd => put(n).cancelled
  BY <1>1 DEF Entry
<1> HIDE DEF put, new
<1>4. /\ new \in Seq(Entry) /\ DOMAIN new = DOMAIN list
      /\ \A n \in DOMAIN list : new[n] = put(n)
  BY <1>1, <1>2, <1>3
<1>5. Unique(new)
  BY <1>3, <1>4 DEF Unique
<1>6. ASSUME NEW e \in Range(new)
      PROVE  \E old \in Range(list) :
               /\ e.fd = old.fd /\ e.dir = old.dir /\ e.cb = old.cb /\ e.conn = old.conn
               /\ e.fd # fd => e.cancelled = old.cancelled
               /\ e.fd = fd => e.cancelled
  <2>1. PICK n \in DOMAIN list : e = put(n)
    BY <1>4 DEF Range
  <2>2. list[n] \in Range(list)
    BY DEF Range
  <2>3. QED
    BY <1>3, <2>1, <2>2
<1>7. QED
  BY <1>4, <1>5, <1>6 DEF new

(* The calls and the functions that are, and their fields. *)
LEMMA CallMembers ==
  ASSUME NEW c \in Conn, NEW e \in Code, NEW op \in Op
  PROVE  /\ \A name \in {"socket_on_connected", "on_handshake", "do_write", "written",
                         "do_read", "socket_close"} : [call |-> name, conn |-> c] \in Call
         /\ \A b \in BOOLEAN : [call |-> "on_resolved", conn |-> c, found |-> b] \in Call
         /\ ConnectCb(c, e) \in Call /\ ReadCb(e) \in Call /\ WriteCb(op, e) \in Call
         /\ Fail(e) \in Call /\ [call |-> "send", op |-> op] \in Call
         /\ \A name \in {"read_packet", "upgrade", "connect"} : [call |-> name] \in Call
BY DEF Call, ConnectCb, ReadCb, WriteCb, Fail

LEMMA CallFields ==
  \A x \in Call :
    /\ x.call \in {"socket_on_connected", "on_handshake", "do_write", "written", "do_read",
                   "socket_close", "on_resolved", "connect_cb"} => x.conn \in Conn
    /\ x.call \in {"connect_cb", "write_cb", "read_cb", "handle_error"} => x.ec \in Code
    /\ x.call \in {"write_cb", "send"} => x.op \in Op
    /\ x.call = "on_resolved" => x.found \in BOOLEAN
BY DEF Call

LEMMA FuncMembers ==
  /\ \A c \in Conn, b \in BOOLEAN : [f |-> "resolved", conn |-> c, found |-> b] \in Func
  /\ \A c \in Conn : [f |-> "close", conn |-> c] \in Func
  /\ \A c \in Conn, op \in Op : Write(c, op) \in Func
  /\ \A x \in Call : x.call \in {"send", "upgrade", "connect"} => Invoked(x) \in Func
BY DEF Func, Write, Invoked

LEMMA FuncFields ==
  \A x \in Func :
    /\ x.f \in {"resolved", "close", "write", "call"}
    /\ x.f \in {"resolved", "close", "write"} => x.conn \in Conn
    /\ x.f = "resolved" => x.found \in BOOLEAN
    /\ x.f = "write" => x.op \in Op
    /\ x.f = "call" => x.then \in Call /\ x.then.call \in {"send", "upgrade", "connect"}
BY DEF Func

(* The running call is done: what follows it, behind what it calls. *)
LEMMA CallingIs ==
  ASSUME calls \in Seq(Call), calls # <<>>, Behind, NEW s \in Seq(Call), Calling(s),
         \A n \in 2..Len(s) : s[n].call \in {"written", "handle_error", "read_packet"}
  PROVE  /\ calls' \in Seq(Call) /\ Behind'
         /\ Len(s) \in Nat /\ Len(calls) \in Nat \ {0}
         /\ DOMAIN s = 1..Len(s) /\ DOMAIN calls = 1..Len(calls) /\ DOMAIN calls' = 1..Len(calls')
         /\ Len(calls') = Len(s) + Len(calls) - 1
         /\ \A n \in DOMAIN s : n \in DOMAIN calls' /\ calls'[n] = s[n]
         /\ \A n \in DOMAIN calls' :
              \/ n \in DOMAIN s /\ calls'[n] = s[n]
              \/ /\ n > Len(s) /\ n - Len(s) + 1 \in 2..Len(calls)
                 /\ calls'[n] = calls[n - Len(s) + 1]
<1> DEFINE t == Tail(calls)
<1>1. /\ calls' = s \o t
      /\ t \in Seq(Call) /\ Len(calls) \in Nat \ {0} /\ Len(t) = Len(calls) - 1
      /\ \A n \in 1..(Len(calls) - 1) : t[n] = calls[n + 1]
      /\ DOMAIN calls = 1..Len(calls) /\ DOMAIN s = 1..Len(s) /\ Len(s) \in Nat
  BY HeadTailProperties, LenProperties DEF Calling
<1> HIDE DEF t
<1>2. /\ calls' \in Seq(Call) /\ Len(calls') = Len(s) + Len(calls) - 1
      /\ DOMAIN calls' = 1..Len(calls')
  <2>1. calls' \in Seq(Call) /\ Len(calls') = Len(s) + Len(t)
    BY <1>1, ConcatProperties
  <2>2. QED
    BY <1>1, <2>1, LenProperties
<1>3. \A n \in 1..(Len(s) + Len(t)) : calls'[n] = IF n <= Len(s) THEN s[n] ELSE t[n - Len(s)]
  BY <1>1, ConcatProperties
<1>4. \A n \in DOMAIN s : n \in DOMAIN calls' /\ calls'[n] = s[n]
  <2>1. SUFFICES ASSUME NEW n \in 1..Len(s) PROVE n \in DOMAIN calls' /\ calls'[n] = s[n]
    BY <1>1
  <2>2. n \in 1..(Len(s) + Len(t)) /\ n <= Len(s)
    BY <1>1
  <2>3. QED
    BY <1>1, <1>2, <1>3, <2>2
<1>5. ASSUME NEW n \in DOMAIN calls', n \notin DOMAIN s
      PROVE  /\ n > Len(s) /\ n - Len(s) + 1 \in 2..Len(calls)
             /\ calls'[n] = calls[n - Len(s) + 1]
  <2>1. n \in 1..(Len(s) + Len(t)) /\ ~(n <= Len(s)) /\ n > Len(s)
    BY <1>1, <1>2, <1>5
  <2>2. n - Len(s) \in 1..(Len(calls) - 1) /\ n - Len(s) + 1 \in 2..Len(calls)
    BY <1>1, <2>1
  <2>3. QED
    BY <1>1, <1>3, <2>1, <2>2
<1>6. Behind'
  <2> SUFFICES ASSUME NEW n \in 2..Len(calls')
               PROVE  calls'[n].call \in {"written", "handle_error", "read_packet"}
    BY DEF Behind
  <2>1. n \in DOMAIN calls'
    BY <1>1, <1>2
  <2>2. CASE n \in DOMAIN s
    BY <1>1, <1>4, <2>2
  <2>3. CASE n \notin DOMAIN s
    BY <1>5, <2>1, <2>3 DEF Behind
  <2>4. QED
    BY <2>2, <2>3
<1>7. QED
  BY <1>1, <1>2, <1>4, <1>5, <1>6

(* What a registration adds to what is watched. *)
LEMMA WatchedNotify ==
  ASSUME poll_list \in Seq(Entry), Unique(poll_list), UNCHANGED <<copy, todo>>,
         NEW fd \in Fd \union {NoFd}, NEW dir \in Dir, NEW cb \in Purpose, NEW c \in Conn,
         poll_list' = Notify(poll_list, fd, dir, cb, c)
  PROVE  /\ poll_list' \in Seq(Entry) /\ Unique(poll_list')
         /\ \A e \in Watched' :
              e \in Watched \/ (e.fd = fd /\ e.dir = dir /\ e.cb = cb /\ e.conn = c)
<1>1. copy' = copy /\ todo' = todo
  OBVIOUS
<1>2. /\ poll_list' \in Seq(Entry) /\ Unique(poll_list')
      /\ \A e \in Range(poll_list') :
           e \in Range(poll_list) \/ (e.fd = fd /\ e.dir = dir /\ e.cb = cb /\ e.conn = c)
  BY NotifyIs
<1>3. ASSUME NEW e \in Watched'
      PROVE  e \in Watched \/ (e.fd = fd /\ e.dir = dir /\ e.cb = cb /\ e.conn = c)
  <2>1. e \in Range(poll_list') \/ e \in {copy[n] : n \in todo}
    BY <1>1, <1>3 DEF Watched
  <2>2. QED
    BY <1>2, <2>1 DEF Watched
<1>4. QED
  BY <1>2, <1>3

(* The calls that write are as they were. *)
LEMMA CallingKeepsWrites ==
  ASSUME calls \in Seq(Call), calls # <<>>, Behind, OneWriteCall, NEW s \in Seq(Call), Calling(s),
         \A n \in 2..Len(s) : s[n].call \in {"written", "handle_error", "read_packet"},
         \A n \in DOMAIN s : s[n].call \notin WriteCall
  PROVE  OneWriteCall' /\ \A c \in Conn : WriteCalled(c)' => WriteCalled(c)
<1>1. ASSUME NEW n \in DOMAIN calls', calls'[n].call \in WriteCall
      PROVE  /\ n \in Nat /\ Len(s) \in Nat
             /\ n - Len(s) + 1 \in DOMAIN calls
             /\ calls'[n] = calls[n - Len(s) + 1]
  <2>1. n \notin DOMAIN s
    BY <1>1, CallingIs
  <2>2. /\ n - Len(s) + 1 \in 2..Len(calls) /\ calls'[n] = calls[n - Len(s) + 1]
    BY <2>1, CallingIs
  <2>3. DOMAIN calls = 1..Len(calls) /\ DOMAIN calls' = 1..Len(calls') /\ Len(s) \in Nat
    BY CallingIs
  <2>4. QED
    BY <2>2, <2>3
<1>2. ASSUME NEW m \in DOMAIN calls', NEW n \in DOMAIN calls',
             calls'[m].call \in WriteCall, calls'[n].call \in WriteCall
      PROVE  m = n
  <2>1. m - Len(s) + 1 = n - Len(s) + 1
    BY <1>1, <1>2 DEF OneWriteCall
  <2>2. QED
    BY <1>1, <1>2, <2>1
<1>3. OneWriteCall'
  BY <1>2 DEF OneWriteCall
<1>4. ASSUME NEW c \in Conn, WriteCalled(c)'
      PROVE  WriteCalled(c)
  BY <1>1, <1>4 DEF WriteCalled
<1>5. QED
  BY <1>3, <1>4

(* No more is written or waits to be written than before. *)
LEMMA WritesKept ==
  ASSUME OneWrite, OneWriteCall',
         \A c \in Conn : WriteCalled(c)' => WriteCalled(c),
         \A e \in Watched' : e.cb = "write" =>
           \E old \in Watched : old.cb = "write" /\ SameKey(e, old) /\ e.conn = old.conn,
         \A c \in Conn : write_op_queue[c] # <<>> => write_op_queue'[c] # <<>>
  PROVE  OneWrite'
<1>1. \A c \in Conn : WriteAwaited(c)' => WriteAwaited(c)
  BY DEF WriteAwaited
<1>2. ASSUME NEW a \in Watched', NEW b \in Watched', a.cb = "write", b.cb = "write", a.conn = b.conn
      PROVE  SameKey(a, b)
  <2>1. PICK x \in Watched : x.cb = "write" /\ SameKey(a, x) /\ a.conn = x.conn
    BY <1>2
  <2>2. PICK y \in Watched : y.cb = "write" /\ SameKey(b, y) /\ b.conn = y.conn
    BY <1>2
  <2>3. SameKey(x, y)
    BY <1>2, <2>1, <2>2 DEF OneWrite
  <2>4. QED
    BY <2>1, <2>2, <2>3 DEF SameKey
<1>3. ASSUME NEW c \in Conn
      PROVE  /\ WriteCalled(c)' => ~WriteAwaited(c)'
             /\ WriteCalled(c)' \/ WriteAwaited(c)' => write_op_queue'[c] # <<>>
  BY <1>1 DEF OneWrite
<1>4. QED
  BY <1>2, <1>3 DEF OneWrite, SameKey

(* A call that writes nothing and may register or cancel. *)
LEMMA CallStep ==
  ASSUME TInv, calls # <<>>, NEW s \in Seq(Call), Calling(s),
         \A n \in 2..Len(s) : s[n].call \in {"written", "handle_error", "read_packet"},
         \A n \in DOMAIN s : s[n].call \notin WriteCall,
         UNCHANGED <<passVars, write_op_queue>>,
         funcs' = funcs \/ \E f \in Func : funcs' = Append(funcs, f),
         poll_list' \in Seq(Entry), Unique(poll_list'),
         \A e \in Range(poll_list') : e.cb = "write" =>
           \E old \in Range(poll_list) : old.cb = "write" /\ SameKey(e, old) /\ e.conn = old.conn
  PROVE  LInv'
<1>1. /\ calls \in Seq(Call) /\ Behind /\ OneWrite /\ OneWriteCall
      /\ Unique(copy) /\ LoopTypes
  BY DEF TInv, LInv, LoopTypes, OneWrite
<1>2. phase' = phase /\ copy' = copy /\ todo' = todo /\ ec' = ec /\ batch' = batch
  BY DEF passVars
<1>3. calls' \in Seq(Call) /\ Behind'
  BY <1>1, CallingIs
<1>4. funcs' \in Seq(Func) /\ batch' \in 0..Len(funcs')
  <2>1. CASE funcs' = funcs
    BY <1>1, <1>2, <2>1 DEF LoopTypes
  <2>2. CASE \E f \in Func : funcs' = Append(funcs, f)
    <3>1. funcs' \in Seq(Func) /\ Len(funcs') = Len(funcs) + 1 /\ Len(funcs) \in Nat
      BY <1>1, <2>2, AppendProperties, LenProperties DEF LoopTypes
    <3>2. QED
      BY <1>1, <1>2, <3>1 DEF LoopTypes
  <2>3. QED
    BY <2>1, <2>2
<1>5. LoopTypes' /\ Unique(poll_list)' /\ Unique(copy)'
  BY <1>1, <1>2, <1>3, <1>4 DEF LoopTypes, Unique
<1>6. OneWriteCall' /\ \A c \in Conn : WriteCalled(c)' => WriteCalled(c)
  BY <1>1, CallingKeepsWrites
<1>7. \A e \in Watched' : e.cb = "write" =>
        \E old \in Watched : old.cb = "write" /\ SameKey(e, old) /\ e.conn = old.conn
  BY <1>2 DEF Watched, SameKey
<1>8. OneWrite'
  BY <1>1, <1>6, <1>7, WritesKept
<1>9. QED
  BY <1>3, <1>5, <1>8 DEF LInv

(* What a call may call first when it writes nothing. *)
Quiet(s) ==
  /\ s \in Seq(Call)
  /\ \A n \in DOMAIN s : s[n].call \notin WriteCall
  /\ \A n \in 2..Len(s) : s[n].call \in {"written", "handle_error", "read_packet"}

LEMMA QuietCalls ==
  /\ Quiet(<<>>)
  /\ \A x \in Call : x.call \notin WriteCall => Quiet(<<x>>)
  /\ \A x, y \in Call : x.call \notin WriteCall /\ y.call \in {"handle_error", "read_packet"}
                          => Quiet(<<x, y>>)
<1>1. Quiet(<<>>)
  BY DEF Quiet
<1>2. ASSUME NEW x \in Call, x.call \notin WriteCall
      PROVE  Quiet(<<x>>)
  BY <1>2 DEF Quiet
<1>3. ASSUME NEW x \in Call, NEW y \in Call, x.call \notin WriteCall,
             y.call \in {"handle_error", "read_packet"}
      PROVE  Quiet(<<x, y>>)
  BY <1>3 DEF Quiet, WriteCall
<1>4. QED
  BY <1>1, <1>2, <1>3

LEMMA QuietStep ==
  ASSUME TInv, calls # <<>>, NEW s, Quiet(s), Calling(s),
         UNCHANGED <<passVars, poll_list, write_op_queue>>,
         funcs' = funcs \/ \E f \in Func : funcs' = Append(funcs, f)
  PROVE  LInv'
<1>1. poll_list' = poll_list /\ poll_list \in Seq(Entry) /\ Unique(poll_list)
  BY DEF TInv, LInv, LoopTypes
<1>2. QED
  BY <1>1, CallStep DEF Quiet, SameKey

LEMMA WatchStep ==
  ASSUME TInv, calls # <<>>, NEW s, Quiet(s), Calling(s),
         UNCHANGED <<passVars, funcs, write_op_queue>>,
         NEW fd \in Fd \union {NoFd}, NEW dir \in {"read", "write"},
         NEW cb \in {"connect", "handshake", "read"}, NEW c \in Conn,
         poll_list' = Notify(poll_list, fd, dir, cb, c)
  PROVE  LInv'
<1>1. poll_list \in Seq(Entry) /\ Unique(poll_list)
  BY DEF TInv, LInv, LoopTypes
<1>2. /\ poll_list' \in Seq(Entry) /\ Unique(poll_list')
      /\ \A e \in Range(poll_list') : e.cb = "write" => e \in Range(poll_list)
  <2>1. dir \in Dir /\ cb \in Purpose /\ cb # "write"
    BY DEF Dir, Purpose
  <2>2. QED
    BY <1>1, <2>1, NotifyIs
<1>3. QED
  BY <1>1, <1>2, CallStep DEF Quiet, SameKey

-----------------------------------------------------------------------------
(* The streams' own calls. *)

LEMMA RunningIs ==
  ASSUME TInv, calls # <<>>
  PROVE  calls[1] \in Call /\ 1 \in DOMAIN calls
BY DEF TInv, LInv, LoopTypes

LEMMA ClientCalls ==
  /\ Quiet(<<>>)
  /\ \A e \in Code : Quiet(<<Fail(e)>>) /\ Quiet(<<Fail(e), [call |-> "read_packet"]>>)
                     /\ Quiet(<<ReadCb(e)>>)
  /\ \A d, e \in Code : Quiet(<<Fail(d), Fail(e)>>)
  /\ Quiet(<<[call |-> "read_packet"]>>)
  /\ \A op \in Op : /\ Quiet(<<[call |-> "send", op |-> op]>>)
                    /\ Quiet(<<[call |-> "send", op |-> op], [call |-> "read_packet"]>>)
                    /\ \A e \in Code : Quiet(<<WriteCb(op, e)>>)
  /\ \A c \in Conn : /\ Quiet(<<[call |-> "do_read", conn |-> c]>>)
                     /\ \A e \in Code : Quiet(<<ConnectCb(c, e)>>)
<1> DEFINE next == [call |-> "read_packet"]
           send(op) == [call |-> "send", op |-> op]
           read(c) == [call |-> "do_read", conn |-> c]
<1>1. /\ \A e \in Code : Fail(e) \in Call /\ Fail(e).call = "handle_error"
      /\ \A e \in Code : ReadCb(e) \in Call /\ ReadCb(e).call = "read_cb"
      /\ next \in Call /\ next.call = "read_packet"
      /\ \A op \in Op : send(op) \in Call /\ send(op).call = "send"
      /\ \A op \in Op, e \in Code : WriteCb(op, e) \in Call /\ WriteCb(op, e).call = "write_cb"
      /\ \A c \in Conn : read(c) \in Call /\ read(c).call = "do_read"
      /\ \A c \in Conn, e \in Code : ConnectCb(c, e) \in Call /\ ConnectCb(c, e).call = "connect_cb"
  BY DEF Call, Fail, ReadCb, WriteCb, ConnectCb
<1> HIDE DEF next, send, read
<1>2. \A x \in Call : x.call \in {"handle_error", "read_cb", "read_packet", "send", "write_cb",
                                  "do_read", "connect_cb"} => x.call \notin WriteCall
  BY DEF WriteCall
<1>3. /\ Quiet(<<>>) /\ Quiet(<<next>>)
      /\ \A e \in Code : Quiet(<<Fail(e)>>) /\ Quiet(<<Fail(e), next>>) /\ Quiet(<<ReadCb(e)>>)
      /\ \A d, e \in Code : Quiet(<<Fail(d), Fail(e)>>)
  BY <1>1, <1>2, QuietCalls
<1>4. \A op \in Op : /\ Quiet(<<send(op)>>) /\ Quiet(<<send(op), next>>)
                     /\ \A e \in Code : Quiet(<<WriteCb(op, e)>>)
  BY <1>1, <1>2, QuietCalls
<1>5. \A c \in Conn : Quiet(<<read(c)>>) /\ \A e \in Code : Quiet(<<ConnectCb(c, e)>>)
  BY <1>1, <1>2, QuietCalls
<1>6. QED
  BY <1>3, <1>4, <1>5 DEF next, send, read

LEMMA OnResolvedTypes ==
  ASSUME TInv, NEW c \in Conn, OnResolved(c)
  PROVE  LInv' /\ StreamTypes'
<1>1. /\ calls # <<>> /\ StreamTypes
      /\ UNCHANGED <<passVars, funcs, write_op_queue, resolving, server_fd, up>>
  BY DEF OnResolved, RunningFor, Running, TInv
<1>2. ASSUME NEW e \in Code, Calling(<<ConnectCb(c, e)>>), UNCHANGED <<poll_list, sock, owner>>
      PROVE  LInv' /\ StreamTypes'
  <2>1. Quiet(<<ConnectCb(c, e)>>)
    <3>1. ConnectCb(c, e) \in Call
      BY CallMembers DEF Op
    <3>2. QED
      BY <3>1, QuietCalls DEF ConnectCb, WriteCall
  <2>2. LInv'
    BY <1>1, <1>2, <2>1, QuietStep
  <2>3. QED
    BY <1>1, <1>2, <2>2 DEF StreamTypes
<1>3. ASSUME NEW fd \in Fd, Calling(<<>>),
             sock' = [sock EXCEPT ![c] = fd], owner' = [owner EXCEPT ![fd] = c],
             poll_list' = Notify(poll_list, fd, "write", "connect", c)
      PROVE  LInv' /\ StreamTypes'
  <2>1. LInv'
    BY <1>1, <1>3, QuietCalls, WatchStep
  <2>2. QED
    BY <1>1, <1>3, <2>1 DEF StreamTypes
<1>4. ASSUME NEW fd \in Fd, UNCHANGED poll_list, Calling(<<ConnectCb(c, "InternalError")>>),
             sock' = [sock EXCEPT ![c] = fd], owner' = [owner EXCEPT ![fd] = c]
      PROVE  LInv' /\ StreamTypes'
  <2>1. Quiet(<<ConnectCb(c, "InternalError")>>)
    BY ClientCalls DEF Code
  <2>2. LInv'
    BY <1>1, <1>4, <2>1, QuietStep
  <2>3. QED
    BY <1>1, <1>4, <2>2 DEF StreamTypes
<1>5. QED
  BY <1>2, <1>3, <1>4 DEF OnResolved, Code

LEMMA SocketOnConnectedTypes ==
  ASSUME TInv, NEW c \in Conn, SocketOnConnected(c)
  PROVE  LInv' /\ StreamTypes'
<1>1. /\ calls # <<>> /\ StreamTypes
      /\ UNCHANGED <<passVars, poll_list, funcs, write_op_queue, resolving, sock, owner>>
  BY DEF SocketOnConnected, RunningFor, Running, TInv
<1>2. LInv'
  <2>1. Quiet(<<[call |-> "on_handshake", conn |-> c]>>) /\ Quiet(<<ConnectCb(c, "ok")>>)
    <3>1. [call |-> "on_handshake", conn |-> c] \in Call /\ ConnectCb(c, "ok") \in Call
      BY CallMembers DEF Op, Code
    <3>2. QED
      BY <3>1, QuietCalls DEF ConnectCb, WriteCall
  <2>2. \/ Calling(<<[call |-> "on_handshake", conn |-> c]>>)
        \/ Calling(<<ConnectCb(c, "ok")>>)
    BY DEF SocketOnConnected
  <2>3. QED
    BY <1>1, <2>1, <2>2, QuietStep
<1>3. QED
  BY <1>1, <1>2 DEF SocketOnConnected, StreamTypes

LEMMA OnHandshakeTypes ==
  ASSUME TInv, NEW c \in Conn, OnHandshake(c)
  PROVE  LInv' /\ StreamTypes'
<1>1. /\ calls # <<>> /\ StreamTypes
      /\ UNCHANGED <<passVars, funcs, write_op_queue, resolving, sock, server_fd, owner>>
      /\ server_fd[c] \in Fd \union {NoFd}
  BY DEF OnHandshake, RunningFor, Running, TInv, StreamTypes
<1>2. ASSUME NEW dir \in {"read", "write"}, Calling(<<>>), UNCHANGED up,
             poll_list' = Notify(poll_list, server_fd[c], dir, "handshake", c)
      PROVE  LInv' /\ StreamTypes'
  <2>1. LInv'
    BY <1>1, <1>2, QuietCalls, WatchStep
  <2>2. QED
    BY <1>1, <1>2, <2>1 DEF StreamTypes
<1>3. ASSUME NEW e \in Code, Calling(<<ConnectCb(c, e)>>), UNCHANGED poll_list,
             up' = [up EXCEPT ![c] = TRUE] \/ up' = up
      PROVE  LInv' /\ StreamTypes'
  <2>1. Quiet(<<ConnectCb(c, e)>>)
    <3>1. ConnectCb(c, e) \in Call
      BY CallMembers DEF Op
    <3>2. QED
      BY <3>1, QuietCalls DEF ConnectCb, WriteCall
  <2>2. LInv'
    BY <1>1, <1>3, <2>1, QuietStep
  <2>3. QED
    BY <1>1, <1>3, <2>2 DEF StreamTypes
<1>4. QED
  BY <1>2, <1>3 DEF OnHandshake, Code

LEMMA SocketCloseTypes ==
  ASSUME TInv, NEW c \in Conn, SocketClose(c)
  PROVE  LInv' /\ StreamTypes'
<1>1. /\ calls # <<>> /\ StreamTypes /\ Calling(<<>>)
      /\ UNCHANGED <<passVars, funcs, write_op_queue, resolving, server_fd, up>>
      /\ poll_list' = Cancel(poll_list, sock[c])
      /\ poll_list \in Seq(Entry) /\ Unique(poll_list)
  BY DEF SocketClose, RunningFor, Running, TInv, LInv, LoopTypes
<1>2. /\ poll_list' \in Seq(Entry) /\ Unique(poll_list')
      /\ \A e \in Range(poll_list') : \E old \in Range(poll_list) :
           SameKey(e, old) /\ e.cb = old.cb /\ e.conn = old.conn
  BY <1>1, CancelIs DEF SameKey
<1>3. LInv'
  <2>1. PICK s : Quiet(s) /\ Calling(s)
    BY <1>1, QuietCalls
  <2>2. \A e \in Range(poll_list') : e.cb = "write" =>
          \E old \in Range(poll_list) : old.cb = "write" /\ SameKey(e, old) /\ e.conn = old.conn
    BY <1>2
  <2>3. UNCHANGED <<passVars, write_op_queue>> /\ funcs' = funcs
    BY <1>1
  <2>4. QED
    BY <1>1, <1>2, <2>1, <2>2, <2>3, CallStep DEF Quiet
<1>4. StreamTypes'
  BY <1>1 DEF SocketClose, StreamTypes, CloseFd, NoFd, Free
<1>5. QED
  BY <1>3, <1>4

(* The sequences of calls that the client makes. *)
LEMMA DropStreamIs ==
  ASSUME TInv, DropStream
  PROVE  /\ funcs' = funcs \/ \E f \in Func : funcs' = Append(funcs, f)
         /\ up' \in [Conn -> BOOLEAN] /\ ping_timer' = FALSE
<1>1. current \in Conn \union {NoConn} /\ up \in [Conn -> BOOLEAN]
  BY DEF TInv, ClientTypes, StreamTypes
<1>2. current # NoConn => [f |-> "close", conn |-> current] \in Func
  BY <1>1, FuncMembers
<1>3. funcs' = funcs \/ \E f \in Func : funcs' = Append(funcs, f)
  BY <1>2 DEF DropStream, Closing
<1>4. QED
  BY <1>1, <1>3 DEF DropStream

LEMMA NewStreamIs ==
  ASSUME TInv, NewStream
  PROVE  /\ made' \in 0..MaxConn /\ current' \in Conn
         /\ resolving' \in Seq(Conn)
<1>1. made \in 0..MaxConn /\ MaxConn \in Nat /\ resolving \in Seq(Conn)
  BY StreamAssumption DEF TInv, ClientTypes, StreamTypes
<1>2. made + 1 \in Conn /\ made + 1 \in 0..MaxConn
  BY <1>1, SMT DEF NewStream, Conn
<1>3. QED
  BY <1>1, <1>2 DEF NewStream

LEMMA HandleErrorTypes ==
  ASSUME TInv, HandleError
  PROVE  TInv'
<1>1. /\ calls # <<>> /\ StreamTypes /\ ClientTypes /\ Calling(<<>>)
      /\ UNCHANGED <<passVars, poll_list, sock, server_fd, write_op_queue, owner,
                     pending_ping_count, worldVars>>
      /\ connected' = FALSE /\ DropStream
      /\ \/ current' = NoConn /\ UNCHANGED <<made, resolving>>
         \/ NewStream
  BY DEF HandleError, Running, TInv
<1>2. /\ funcs' = funcs \/ \E f \in Func : funcs' = Append(funcs, f)
      /\ up' \in [Conn -> BOOLEAN] /\ ping_timer' = FALSE
  BY <1>1, DropStreamIs
<1>3. LInv'
  BY <1>1, <1>2, QuietCalls, QuietStep
<1>4. resolving' \in Seq(Conn) /\ made' \in 0..MaxConn /\ current' \in Conn \union {NoConn}
  BY <1>1, NewStreamIs DEF StreamTypes, ClientTypes
<1>5. StreamTypes'
  BY <1>1, <1>2, <1>4 DEF StreamTypes
<1>6. ClientTypes'
  BY <1>1, <1>2, <1>4 DEF ClientTypes, worldVars
<1>7. QED
  BY <1>3, <1>5, <1>6 DEF TInv

LEMMA UpgradeTypes ==
  ASSUME TInv, Upgrade
  PROVE  TInv'
<1>1. /\ calls # <<>> /\ StreamTypes /\ ClientTypes /\ Calling(<<>>)
      /\ UNCHANGED <<passVars, poll_list, resolving, sock, server_fd, write_op_queue, owner,
                     connected, pending_ping_count, made, sends, crashed, server, session>>
      /\ \/ DropStream /\ current' = NoConn /\ upgrading' = TRUE
         \/ UNCHANGED <<funcs, up, ping_timer, current, upgrading>>
  BY DEF Upgrade, Running, TInv
<1>2. /\ funcs' = funcs \/ \E f \in Func : funcs' = Append(funcs, f)
      /\ up' \in [Conn -> BOOLEAN] /\ ping_timer' \in BOOLEAN
  BY <1>1, DropStreamIs DEF StreamTypes, ClientTypes
<1>3. LInv'
  BY <1>1, <1>2, QuietCalls, QuietStep
<1>4. StreamTypes'
  BY <1>1, <1>2 DEF StreamTypes
<1>5. ClientTypes'
  BY <1>1, <1>2 DEF ClientTypes
<1>6. QED
  BY <1>3, <1>4, <1>5 DEF TInv

LEMMA ConnectDoneTypes ==
  ASSUME TInv, ConnectDone
  PROVE  TInv'
<1>1. /\ calls # <<>> /\ StreamTypes /\ ClientTypes
      /\ UNCHANGED <<passVars, poll_list, funcs, streamVars, clientVars, made, worldVars>>
      /\ \/ Calling(<<[call |-> "send", op |-> "connect"]>>)
         \/ Calling(<<Fail(calls[1].ec)>>)
  BY DEF ConnectDone, Running, TInv
<1>2. calls[1].ec \in Code
  BY <1>1, RunningIs, CallFields DEF ConnectDone, Running
<1>3. LInv'
  <2>1. Quiet(<<[call |-> "send", op |-> "connect"]>>) /\ Quiet(<<Fail(calls[1].ec)>>)
    BY <1>2, ClientCalls DEF Op
  <2>2. UNCHANGED <<passVars, poll_list, write_op_queue, funcs>>
    BY <1>1 DEF streamVars
  <2>3. QED
    BY <1>1, <2>1, <2>2, QuietStep
<1>4. StreamTypes' /\ ClientTypes'
  BY <1>1 DEF StreamTypes, ClientTypes, streamVars, clientVars, worldVars
<1>5. QED
  BY <1>3, <1>4 DEF TInv

LEMMA SendTypes ==
  ASSUME TInv, Send
  PROVE  TInv'
<1>1. /\ calls # <<>> /\ StreamTypes /\ ClientTypes
      /\ UNCHANGED <<passVars, poll_list, streamVars, clientVars, made, sends, upgrading, server, session>>
      /\ crashed' \in BOOLEAN
  BY DEF Send, Running, TInv, ClientTypes
<1>2. calls[1].op \in Op /\ current \in Conn \union {NoConn}
  BY <1>1, RunningIs, CallFields DEF Send, Running, ClientTypes
<1>3. /\ \/ Calling(<<>>) 
         \/ Calling(<<WriteCb(calls[1].op, "ConnectionClosed")>>)
      /\ funcs' = funcs \/ \E f \in Func : funcs' = Append(funcs, f)
  BY <1>2, FuncMembers DEF Send
<1>4. LInv'
  <2>1. Quiet(<<>>) /\ Quiet(<<WriteCb(calls[1].op, "ConnectionClosed")>>)
    <3>1. "ConnectionClosed" \in Code
      BY DEF Code
    <3>2. QED
      BY <1>2, <3>1, ClientCalls
  <2>2. UNCHANGED write_op_queue
    BY <1>1 DEF streamVars
  <2>3. QED
    BY <1>1, <1>3, <2>1, <2>2, QuietStep
<1>5. StreamTypes' /\ ClientTypes'
  BY <1>1 DEF StreamTypes, ClientTypes, streamVars, clientVars
<1>6. QED
  BY <1>4, <1>5 DEF TInv

(* One call after another. *)
LEMMA JoinOnes ==
  ASSUME NEW S, NEW s \in Seq(S), NEW t \in Seq(S), Len(s) = 1, Len(t) = 1
  PROVE  s \o t \in Seq(S) /\ Len(s \o t) = 2 /\ (s \o t)[1] = s[1] /\ (s \o t)[2] = t[1]
<1>1. /\ s \o t \in Seq(S) /\ Len(s \o t) = Len(s) + Len(t)
      /\ \A i \in 1..(Len(s) + Len(t)) :
           (s \o t)[i] = IF i <= Len(s) THEN s[i] ELSE t[i - Len(s)]
  BY ConcatProperties
<1>2. Len(s) + Len(t) = 2 /\ 1 \in 1..2 /\ 2 \in 1..2 /\ 2 - 1 = 1 /\ 1 <= 1 /\ ~(2 <= 1)
  OBVIOUS
<1>3. QED
  BY <1>1, <1>2

LEMMA Joined ==
  ASSUME NEW x, NEW y
  PROVE  <<x>> \o <<y>> = <<x, y>>
<1> DEFINE S == {x, y}
           s == <<x>>
           t == <<y>>
           u == <<x, y>>
<1>1. /\ s \in Seq(S) /\ Len(s) = 1 /\ s[1] = x /\ t \in Seq(S) /\ Len(t) = 1 /\ t[1] = y
      /\ u \in Seq(S) /\ Len(u) = 2 /\ u[1] = x /\ u[2] = y
  OBVIOUS
<1> HIDE DEF s, t, u
<1>2. s \o t \in Seq(S) /\ Len(s \o t) = 2 /\ (s \o t)[1] = s[1] /\ (s \o t)[2] = t[1]
  BY <1>1, JoinOnes
<1>3. s \o t = u
  BY <1>1, <1>2, SeqEqual
<1>4. QED
  BY <1>3 DEF s, t, u

(* A call that leaves the streams and the loop's lists alone. *)
LEMMA ClientCallKeepsTypes ==
  ASSUME TInv, calls # <<>>, NEW s, Quiet(s), Calling(s),
         UNCHANGED <<passVars, poll_list, funcs, streamVars>>, ClientTypes'
  PROVE  TInv'
<1>1. LInv'
  BY QuietStep DEF streamVars
<1>2. StreamTypes'
  BY DEF TInv, StreamTypes, streamVars
<1>3. QED
  BY <1>1, <1>2 DEF TInv

(* What WriteDone calls. *)
LEMMA WriteDoneCalls ==
  ASSUME WriteDone
  PROVE  \/ Calling(<<>>) \/ Calling(<<Fail(calls[1].ec)>>) \/ Calling(<<Fail("Timeout")>>)
         \/ Calling(<<Fail(calls[1].ec), Fail("Timeout")>>)
         \/ Calling(<<[call |-> "read_packet"]>>)
<1> DEFINE op == calls[1].op
           failed == IF calls[1].ec = "ok" THEN <<>> ELSE <<Fail(calls[1].ec)>>
<1>1. CASE op = "ping"
  <2>1. Calling(failed \o (IF pending_ping_count' > PingLimit THEN <<Fail("Timeout")>> ELSE <<>>))
    BY <1>1 DEF WriteDone
  <2>2. /\ <<>> \o <<>> = <<>> /\ <<Fail(calls[1].ec)>> \o <<>> = <<Fail(calls[1].ec)>>
        /\ <<>> \o <<Fail("Timeout")>> = <<Fail("Timeout")>>
    OBVIOUS
  <2>3. <<Fail(calls[1].ec)>> \o <<Fail("Timeout")>> = <<Fail(calls[1].ec), Fail("Timeout")>>
    BY Joined
  <2>4. QED
    BY <2>1, <2>2, <2>3
<1>2. CASE op # "ping"
  BY <1>2 DEF WriteDone
<1>3. QED
  BY <1>1, <1>2

LEMMA WriteDoneTypes ==
  ASSUME TInv, WriteDone
  PROVE  TInv'
<1>1. /\ calls # <<>> /\ ClientTypes
      /\ UNCHANGED <<passVars, poll_list, funcs, streamVars, current, connected, ping_timer, made, worldVars>>
      /\ calls[1].ec \in Code /\ "Timeout" \in Code
  BY RunningIs, CallFields DEF WriteDone, Running, TInv, Code
<1>2. pending_ping_count' \in Int
  BY <1>1 DEF WriteDone, ClientTypes
<1>3. ClientTypes'
  BY <1>1, <1>2 DEF ClientTypes, worldVars
<1>4. \E s : Quiet(s) /\ Calling(s)
  <2>1. /\ Quiet(<<>>) /\ Quiet(<<[call |-> "read_packet"]>>) /\ Quiet(<<Fail(calls[1].ec)>>)
        /\ Quiet(<<Fail("Timeout")>>) /\ Quiet(<<Fail(calls[1].ec), Fail("Timeout")>>)
    BY <1>1, ClientCalls
  <2>2. QED
    BY <2>1, WriteDoneCalls
<1>5. QED
  BY <1>1, <1>3, <1>4, ClientCallKeepsTypes

LEMMA ReadPacketTypes ==
  ASSUME TInv, ReadPacket
  PROVE  TInv'
<1>1. /\ calls # <<>> /\ ClientTypes
      /\ UNCHANGED <<passVars, poll_list, funcs, streamVars>>
      /\ UNCHANGED <<clientVars, made, sends, upgrading, server, session>>
      /\ crashed' \in BOOLEAN /\ current \in Conn \union {NoConn}
  BY DEF ReadPacket, Running, TInv, ClientTypes
<1>2. ClientTypes'
  BY <1>1 DEF ClientTypes, clientVars
<1>3. \/ Calling(<<>>)
      \/ current \in Conn /\ Calling(<<[call |-> "do_read", conn |-> current]>>)
  BY <1>1 DEF ReadPacket
<1>4. \E s : Quiet(s) /\ Calling(s)
  BY <1>3, ClientCalls
<1>5. QED
  BY <1>1, <1>2, <1>4, ClientCallKeepsTypes

LEMMA ReadFailedTypes ==
  ASSUME TInv, ReadFailed
  PROVE  TInv'
<1>1. /\ calls # <<>> /\ ClientTypes
      /\ UNCHANGED <<passVars, poll_list, funcs, streamVars, clientVars, made, worldVars>>
      /\ calls[1].ec \in Code /\ Calling(<<Fail(calls[1].ec)>>)
  BY RunningIs, CallFields DEF ReadFailed, Running, TInv
<1>2. ClientTypes'
  BY <1>1 DEF ClientTypes, clientVars, worldVars
<1>3. QED
  BY <1>1, <1>2, ClientCalls, ClientCallKeepsTypes

LEMMA ReadingTypes ==
  ASSUME TInv, NEW c \in Conn, Reading(c)
  PROVE  TInv'
<1>1. ClientTypes' /\ StreamTypes /\ calls # <<>> /\ UNCHANGED <<passVars, funcs, write_op_queue>>
  BY DEF Reading, TInv, ClientTypes, clientVars, worldVars, ReadClosed, ReadError, ReadAgain,
         RunningFor, Running, streamVars
<1>2. CASE ReadClosed(c, Leaves(c)) \/ ReadError(c)
  <2>1. /\ UNCHANGED <<poll_list, resolving, sock, server_fd, owner>>
        /\ up' = [up EXCEPT ![c] = FALSE] \/ up' = up
        /\ Calling(<<ReadCb("ConnectionClosed")>>) \/ Calling(<<ReadCb("ReadError")>>)
    BY <1>2 DEF ReadClosed, ReadError, streamVars
  <2>2. Quiet(<<ReadCb("ConnectionClosed")>>) /\ Quiet(<<ReadCb("ReadError")>>)
    BY ClientCalls DEF Code
  <2>3. LInv'
    BY <1>1, <2>1, <2>2, QuietStep
  <2>4. StreamTypes'
    BY <1>1, <2>1 DEF StreamTypes
  <2>5. QED
    BY <1>1, <2>3, <2>4 DEF TInv
<1>3. CASE ReadAgain(c)
  <2>1. /\ UNCHANGED streamVars /\ Calling(<<>>)
        /\ poll_list' = Notify(poll_list, sock[c], "read", "read", c)
        /\ sock[c] \in Fd \union {NoFd}
    BY <1>1, <1>3 DEF ReadAgain, StreamTypes
  <2>2. LInv'
    BY <1>1, <2>1, QuietCalls, WatchStep
  <2>3. StreamTypes'
    BY <1>1, <2>1 DEF StreamTypes, streamVars
  <2>4. QED
    BY <1>1, <2>2, <2>3 DEF TInv
<1>4. QED
  BY <1>2, <1>3 DEF Reading

(* What the server has to answer, and one answer less. *)
LEMMA ServerTypes ==
  ASSUME ClientTypes, NEW c \in Conn, NEW op, Receive(c, op)
  PROVE  server' \in [Conn -> Seq(Op)]
<1>1. server[c] \in Seq(Op) /\ server[c] # <<>>
  BY DEF Receive, ClientTypes
<1>2. Tail(server[c]) \in Seq(Op)
  BY <1>1, HeadTailProperties
<1>3. QED
  BY <1>2 DEF Receive, ClientTypes

LEMMA ReceivingTypes ==
  ASSUME TInv, NEW c \in Conn, Receiving(c)
  PROVE  TInv'
<1>1. /\ calls # <<>> /\ ClientTypes /\ StreamTypes
      /\ UNCHANGED <<passVars, poll_list, streamVars>>
  BY DEF Receiving, ConnAck, Refused, SubAck, PingResp, Command, Malformed, Receive, RunningFor,
         Running, TInv
<1>2. /\ Quiet(ReadNext) /\ Quiet(<<Fail("ProtocolError")>>)
      /\ Quiet(<<Fail("ProtocolError")>> \o ReadNext)
      /\ Quiet(<<[call |-> "send", op |-> "subscribe"]>> \o ReadNext)
  <2>1. "ProtocolError" \in Code /\ "subscribe" \in Op
    BY DEF Code, Op
  <2>2. /\ Quiet(<<[call |-> "read_packet"]>>) /\ Quiet(<<Fail("ProtocolError")>>)
        /\ Quiet(<<Fail("ProtocolError"), [call |-> "read_packet"]>>)
        /\ Quiet(<<[call |-> "send", op |-> "subscribe"], [call |-> "read_packet"]>>)
    BY <2>1, ClientCalls
  <2>3. /\ <<Fail("ProtocolError")>> \o ReadNext = <<Fail("ProtocolError"), [call |-> "read_packet"]>>
        /\ <<[call |-> "send", op |-> "subscribe"]>> \o ReadNext
             = <<[call |-> "send", op |-> "subscribe"], [call |-> "read_packet"]>>
    BY Joined DEF ReadNext
  <2>4. QED
    BY <2>2, <2>3 DEF ReadNext
<1>3. CASE ConnAck(c)
  <2>1. server' \in [Conn -> Seq(Op)]
    BY <1>1, <1>3, ServerTypes DEF ConnAck
  <2>2. ClientTypes'
    BY <1>1, <1>3, <2>1 DEF ConnAck, ClientTypes
  <2>3. \E s : Quiet(s) /\ Calling(s)
    BY <1>2, <1>3 DEF ConnAck
  <2>4. UNCHANGED funcs
    BY <1>3 DEF ConnAck
  <2>5. QED
    BY <1>1, <2>2, <2>3, <2>4, ClientCallKeepsTypes
<1>4. CASE Refused(c)
  <2>1. ClientTypes'
    BY <1>1, <1>4 DEF Refused, Receive, ClientTypes, clientVars
  <2>2. Calling(<<Fail("ProtocolError")>> \o ReadNext) /\ UNCHANGED funcs
    BY <1>4 DEF Refused
  <2>3. QED
    BY <1>1, <1>2, <2>1, <2>2, ClientCallKeepsTypes
<1>5. CASE SubAck(c)
  <2>1. server' \in [Conn -> Seq(Op)]
    BY <1>1, <1>5, ServerTypes DEF SubAck
  <2>2. ClientTypes'
    BY <1>1, <1>5, <2>1 DEF SubAck, ClientTypes
  <2>3. Calling(ReadNext) /\ UNCHANGED funcs
    BY <1>5 DEF SubAck
  <2>4. QED
    BY <1>1, <1>2, <2>2, <2>3, ClientCallKeepsTypes
<1>6. CASE PingResp(c)
  <2>1. server' \in [Conn -> Seq(Op)]
    BY <1>1, <1>6, ServerTypes DEF PingResp
  <2>2. ClientTypes'
    BY <1>1, <1>6, <2>1 DEF PingResp, ClientTypes
  <2>3. Calling(ReadNext) /\ UNCHANGED funcs
    BY <1>6 DEF PingResp
  <2>4. QED
    BY <1>1, <1>2, <2>2, <2>3, ClientCallKeepsTypes
<1>7. CASE Command(c)
  <2>1. /\ \E f \in Func : funcs' = Append(funcs, f)
        /\ Calling(ReadNext)
    BY <1>7, CallMembers, FuncMembers DEF Command, Code, Op
  <2>2. LInv'
    BY <1>1, <1>2, <2>1, QuietStep DEF streamVars
  <2>3. StreamTypes' /\ ClientTypes'
    BY <1>1, <1>7 DEF Command, StreamTypes, ClientTypes, streamVars, clientVars, worldVars
  <2>4. QED
    BY <2>2, <2>3 DEF TInv
<1>8. CASE Malformed(c)
  <2>1. ClientTypes'
    BY <1>1, <1>8 DEF Malformed, ClientTypes, clientVars, worldVars
  <2>2. \E s : Quiet(s) /\ Calling(s)
    BY <1>2, <1>8 DEF Malformed
  <2>3. UNCHANGED funcs
    BY <1>8 DEF Malformed
  <2>4. QED
    BY <1>1, <2>1, <2>2, <2>3, ClientCallKeepsTypes
<1>9. QED
  BY <1>3, <1>4, <1>5, <1>6, <1>7, <1>8 DEF Receiving

(* Only what a write calls first may write again. *)
LEMMA LastWrite ==
  ASSUME calls \in Seq(Call), calls # <<>>, Behind, OneWriteCall, calls[1].call \in WriteCall,
         NEW s \in Seq(Call), Calling(s),
         \A n \in 2..Len(s) : s[n].call \in {"written", "handle_error", "read_packet"}
  PROVE  \A n \in DOMAIN calls' : calls'[n].call \in WriteCall => n \in DOMAIN s /\ calls'[n] = s[n]
<1>1. SUFFICES ASSUME NEW n \in DOMAIN calls', calls'[n].call \in WriteCall, n \notin DOMAIN s
               PROVE  FALSE
  BY CallingIs
<1>2. /\ n - Len(s) + 1 \in 2..Len(calls) /\ calls'[n] = calls[n - Len(s) + 1]
      /\ DOMAIN calls = 1..Len(calls) /\ Len(calls) \in Nat \ {0}
  BY <1>1, CallingIs
<1>3. /\ n - Len(s) + 1 \in DOMAIN calls /\ 1 \in DOMAIN calls /\ n - Len(s) + 1 # 1
  BY <1>2, SMT
<1>4. QED
  BY <1>1, <1>2, <1>3 DEF OneWriteCall

LEMMA NoMoreWrites ==
  ASSUME calls \in Seq(Call), calls # <<>>, Behind, OneWriteCall, calls[1].call \in WriteCall,
         Calling(<<>>)
  PROVE  /\ \A n \in DOMAIN calls' : calls'[n].call \notin WriteCall
         /\ calls' \in Seq(Call) /\ Behind'
<1> DEFINE s == <<>>
<1>1. s \in Seq(Call) /\ Len(s) = 0 /\ DOMAIN s = {} /\ \A n \in 2..Len(s) : FALSE
  OBVIOUS
<1>2. Calling(s)
  OBVIOUS
<1> HIDE DEF s
<1>3. \A n \in DOMAIN calls' : calls'[n].call \in WriteCall => n \in DOMAIN s /\ calls'[n] = s[n]
  BY <1>1, <1>2, LastWrite
<1>4. calls' \in Seq(Call) /\ Behind'
  BY <1>1, <1>2, CallingIs
<1>5. QED
  BY <1>1, <1>3, <1>4

(* A stream that has more to write waits for its socket. *)
LEMMA WaitsToWrite ==
  ASSUME TInv, NEW c \in Conn, ~WriteAwaited(c),
         poll_list' = Notify(poll_list, sock[c], "write", "write", c),
         UNCHANGED <<copy, todo>>,
         \A n \in DOMAIN calls' : calls'[n].call \notin WriteCall,
         write_op_queue'[c] # <<>>,
         \A d \in Conn \ {c} : write_op_queue'[d] = write_op_queue[d]
  PROVE  poll_list' \in Seq(Entry) /\ Unique(poll_list') /\ OneWrite'
<1>1. /\ poll_list \in Seq(Entry) /\ Unique(poll_list) /\ sock[c] \in Fd \union {NoFd}
      /\ "write" \in Dir /\ "write" \in Purpose
  BY DEF TInv, LInv, LoopTypes, StreamTypes, Dir, Purpose
<1>2. /\ poll_list' \in Seq(Entry) /\ Unique(poll_list')
      /\ \A e \in Watched' :
           e \in Watched \/ (e.fd = sock[c] /\ e.dir = "write" /\ e.cb = "write" /\ e.conn = c)
  BY <1>1, WatchedNotify
<1>3. \A e \in Watched' : e \in Watched \/ (e.fd = sock[c] /\ e.dir = "write" /\ e.conn = c)
  BY <1>2
<1>4. \A a, b \in Watched' : a.cb = "write" /\ b.cb = "write" /\ a.conn = b.conn => SameKey(a, b)
  <2>1. SUFFICES ASSUME NEW a \in Watched', NEW b \in Watched', a.cb = "write", b.cb = "write",
                        a.conn = b.conn
                 PROVE  SameKey(a, b)
    OBVIOUS
  <2>2. CASE a.conn = c
    BY <1>3, <2>1, <2>2 DEF WriteAwaited, SameKey
  <2>3. CASE a.conn # c
    BY <1>3, <2>1, <2>3 DEF TInv, LInv, OneWrite
  <2>4. QED
    BY <2>2, <2>3
<1>5. ASSUME NEW d \in Conn
      PROVE  /\ ~WriteCalled(d)'
             /\ WriteAwaited(d)' => write_op_queue'[d] # <<>>
  <2>1. ~WriteCalled(d)'
    BY DEF WriteCalled
  <2>2. WriteAwaited(d)' => d = c \/ WriteAwaited(d)
    BY <1>3 DEF WriteAwaited
  <2>3. QED
    BY <2>1, <2>2 DEF TInv, LInv, OneWrite
<1>6. QED
  BY <1>2, <1>4, <1>5 DEF OneWrite, OneWriteCall, SameKey

(* What is known of a stream that writes. *)
LEMMA WriterHasWork ==
  ASSUME TInv, calls # <<>>, calls[1].call \in WriteCall, NEW c \in Conn, calls[1].conn = c
  PROVE  /\ write_op_queue[c] \in Seq(Op) /\ write_op_queue[c] # <<>>
         /\ Head(write_op_queue[c]) \in Op /\ Tail(write_op_queue[c]) \in Seq(Op)
         /\ ~WriteAwaited(c)
         /\ calls \in Seq(Call) /\ Behind /\ OneWriteCall
<1>1. WriteCalled(c)
  BY RunningIs DEF WriteCalled
<1>2. write_op_queue[c] \in Seq(Op) /\ write_op_queue[c] # <<>> /\ ~WriteAwaited(c)
  BY <1>1 DEF TInv, LInv, OneWrite, StreamTypes
<1>3. QED
  BY <1>2, HeadTailProperties DEF TInv, LInv, LoopTypes, OneWrite

(* Lists of the loop that keep their types when it makes calls. *)
LEMMA LoopTypesKept ==
  ASSUME LoopTypes, UNCHANGED <<passVars, funcs>>, poll_list' \in Seq(Entry), calls' \in Seq(Call)
  PROVE  LoopTypes'
BY DEF LoopTypes, passVars

LEMMA WritingTypes ==
  ASSUME TInv, NEW c \in Conn, Writing(c)
  PROVE  TInv'
<1>1. PICK result \in {"done", "again", "write_error"} :
        /\ DoWrite(c, result)
        /\ server' = IF result = "done" /\ sock[c] # NoFd /\ Head(write_op_queue[c]) # "publish"
                     THEN [server EXCEPT ![c] = Append(@, Head(write_op_queue[c]))] ELSE server
  BY DEF Writing
<1>2. /\ calls # <<>> /\ calls[1].call \in WriteCall /\ calls[1].conn = c
      /\ UNCHANGED <<passVars, funcs, streamVars>> /\ UNCHANGED <<copy, todo, write_op_queue>>
      /\ LoopTypes /\ StreamTypes /\ ClientTypes /\ Unique(copy) /\ Unique(poll_list) /\ OneWrite
  BY <1>1 DEF DoWrite, RunningFor, Running, WriteCall, TInv, LInv, streamVars, passVars
<1>3. /\ write_op_queue[c] \in Seq(Op) /\ write_op_queue[c] # <<>>
      /\ Head(write_op_queue[c]) \in Op /\ ~WriteAwaited(c)
      /\ calls \in Seq(Call) /\ Behind /\ OneWriteCall
  BY <1>2, WriterHasWork
<1>4. StreamTypes' /\ ClientTypes'
  <2>1. server' \in [Conn -> Seq(Op)]
    BY <1>1, <1>2, <1>3 DEF ClientTypes
  <2>2. QED
    BY <1>2, <2>1 DEF Writing, StreamTypes, ClientTypes, streamVars, clientVars
<1>5. CASE result = "again"
  <2>1. /\ poll_list' = Notify(poll_list, sock[c], "write", "write", c)
        /\ Calling(<<>>)
    BY <1>1, <1>5 DEF DoWrite
  <2>2. /\ \A n \in DOMAIN calls' : calls'[n].call \notin WriteCall
        /\ calls' \in Seq(Call) /\ Behind'
    BY <1>2, <1>3, <2>1, NoMoreWrites
  <2>3. poll_list' \in Seq(Entry) /\ Unique(poll_list') /\ OneWrite'
    BY <1>2, <1>3, <2>1, <2>2, WaitsToWrite
  <2>4. LoopTypes'
    BY <1>2, <2>2, <2>3, LoopTypesKept
  <2>5. QED
    BY <1>2, <1>4, <2>2, <2>3, <2>4 DEF TInv, LInv, Unique
<1>6. CASE result # "again"
  <2> DEFINE told == WriteCb(Head(write_op_queue[c]), IF result = "done" THEN "ok" ELSE "WriteError")
             then == [call |-> "written", conn |-> c]
             s == <<told, then>>
  <2>1. Calling(s) /\ poll_list' = poll_list
    BY <1>1, <1>6 DEF DoWrite
  <2>2. told \in Call /\ told.call = "write_cb" /\ then \in Call /\ then.call = "written" /\ then.conn = c
    BY <1>3 DEF Call, WriteCb, Code
  <2> HIDE DEF told, then
  <2>3. s \in Seq(Call) /\ Len(s) = 2 /\ DOMAIN s = 1..2 /\ s[1] = told /\ s[2] = then
    BY <2>2
  <2> HIDE DEF s
  <2>4. /\ \A n \in 2..Len(s) : s[n].call \in {"written", "handle_error", "read_packet"}
        /\ \A n \in DOMAIN s : s[n].call \in WriteCall => n = 2 /\ s[n].conn = c
    BY <2>2, <2>3 DEF WriteCall
  <2>5. /\ \A n \in DOMAIN calls' : calls'[n].call \in WriteCall => n = 2 /\ calls'[n].conn = c
        /\ calls' \in Seq(Call) /\ Behind'
    BY <1>2, <1>3, <2>1, <2>3, <2>4, LastWrite, CallingIs
  <2>6. LoopTypes' /\ Unique(poll_list)' /\ Unique(copy)'
    BY <1>2, <2>1, <2>5, LoopTypesKept DEF LoopTypes, Unique
  <2>7. OneWrite'
    <3>1. Watched' = Watched
      BY <1>2, <2>1 DEF Watched
    <3>2. OneWriteCall' /\ \A d \in Conn : WriteCalled(d)' => d = c
      BY <2>5 DEF OneWriteCall, WriteCalled
    <3>3. \A d \in Conn : WriteAwaited(d)' => WriteAwaited(d)
      BY <3>1 DEF WriteAwaited
    <3>4. QED
      BY <1>2, <1>3, <3>1, <3>2, <3>3 DEF OneWrite, SameKey
  <2>8. QED
    BY <1>4, <2>5, <2>6, <2>7 DEF TInv, LInv
<1>7. QED
  BY <1>5, <1>6

LEMMA WrittenTypes ==
  ASSUME TInv, NEW c \in Conn, Written(c)
  PROVE  LInv' /\ StreamTypes'
<1>1. /\ calls # <<>> /\ calls[1].call \in WriteCall /\ calls[1].conn = c
      /\ UNCHANGED <<passVars, funcs>> /\ UNCHANGED <<copy, todo>>
      /\ UNCHANGED <<resolving, sock, server_fd, up, owner>>
      /\ write_op_queue' = [write_op_queue EXCEPT ![c] = Tail(@)]
      /\ Calling(<<>>)
      /\ LoopTypes /\ StreamTypes /\ Unique(copy) /\ Unique(poll_list) /\ OneWrite
  BY DEF Written, RunningFor, Running, WriteCall, TInv, LInv, passVars
<1>2. /\ Tail(write_op_queue[c]) \in Seq(Op) /\ ~WriteAwaited(c)
      /\ calls \in Seq(Call) /\ Behind /\ OneWriteCall
  BY <1>1, WriterHasWork
<1>3. /\ \A n \in DOMAIN calls' : calls'[n].call \notin WriteCall
      /\ calls' \in Seq(Call) /\ Behind'
  BY <1>1, <1>2, NoMoreWrites
<1>4. write_op_queue' \in [Conn -> Seq(Op)] /\ \A d \in Conn \ {c} : write_op_queue'[d] = write_op_queue[d]
  BY <1>1, <1>2 DEF StreamTypes
<1>5. StreamTypes'
  BY <1>1, <1>4 DEF StreamTypes
<1>6. CASE write_op_queue'[c] = <<>>
  <2>1. poll_list' = poll_list
    BY <1>6 DEF Written
  <2>2. LoopTypes'
    BY <1>1, <1>3, <2>1, LoopTypesKept DEF LoopTypes
  <2>3. OneWrite'
    <3>1. Watched' = Watched
      BY <1>1, <2>1 DEF Watched
    <3>2. OneWriteCall' /\ \A d \in Conn : ~WriteCalled(d)'
      BY <1>3 DEF OneWriteCall, WriteCalled
    <3>3. \A d \in Conn : WriteAwaited(d)' => WriteAwaited(d) /\ d # c
      BY <1>2, <3>1 DEF WriteAwaited
    <3>4. QED
      BY <1>1, <1>4, <3>1, <3>2, <3>3 DEF OneWrite, SameKey
  <2>4. QED
    BY <1>1, <1>3, <1>5, <2>1, <2>2, <2>3 DEF LInv, Unique
<1>7. CASE write_op_queue'[c] # <<>>
  <2>1. poll_list' = Notify(poll_list, sock[c], "write", "write", c)
    BY <1>7 DEF Written
  <2>2. poll_list' \in Seq(Entry) /\ Unique(poll_list') /\ OneWrite'
    BY <1>1, <1>2, <1>3, <1>4, <1>7, <2>1, WaitsToWrite
  <2>3. LoopTypes'
    BY <1>1, <1>3, <2>2, LoopTypesKept
  <2>4. QED
    BY <1>1, <1>3, <1>5, <2>2, <2>3 DEF LInv, Unique
<1>8. QED
  BY <1>6, <1>7

(* Steps that make no call and watch no more than before. *)
LEMMA WatchLess ==
  ASSUME TInv, LoopTypes', Unique(poll_list'), Unique(copy'), UNCHANGED <<calls, write_op_queue>>,
         Watched' \subseteq Watched
  PROVE  LInv'
<1>1. OneWriteCall' /\ \A c \in Conn : WriteCalled(c)' => WriteCalled(c)
  BY DEF TInv, LInv, OneWrite, OneWriteCall, WriteCalled
<1>2. Behind'
  BY DEF TInv, LInv, Behind
<1>3. OneWrite'
  BY <1>1, WritesKept DEF TInv, LInv, SameKey
<1>4. QED
  BY <1>2, <1>3 DEF LInv, Unique

LEMMA FuncAppended ==
  ASSUME LoopTypes, NEW f \in Func, funcs' = Append(funcs, f), UNCHANGED batch
  PROVE  funcs' \in Seq(Func) /\ batch' \in 0..Len(funcs')
<1>1. funcs \in Seq(Func) /\ Len(funcs) \in Nat /\ batch \in 0..Len(funcs)
  BY LenProperties DEF LoopTypes
<1>2. funcs' \in Seq(Func) /\ Len(funcs') = Len(funcs) + 1
  BY <1>1, AppendProperties
<1>3. QED
  BY <1>1, <1>2

(* Steps outside the loop's calls: only a function may be invoked. *)
LEMMA OutsideTypes ==
  ASSUME TInv, UNCHANGED <<passVars, poll_list, calls, write_op_queue>>,
         funcs' = funcs \/ \E f \in Func : funcs' = Append(funcs, f)
  PROVE  LInv'
<1>1. UNCHANGED <<phase, copy, todo, ec, batch>> /\ LoopTypes /\ Unique(poll_list) /\ Unique(copy)
  BY DEF passVars, TInv, LInv
<1>2. funcs' \in Seq(Func) /\ batch' \in 0..Len(funcs')
  BY <1>1, FuncAppended DEF LoopTypes
<1>3. LoopTypes' /\ Unique(poll_list') /\ Unique(copy')
  BY <1>1, <1>2 DEF LoopTypes
<1>4. Watched' = Watched
  BY <1>1 DEF Watched
<1>5. QED
  BY <1>3, <1>4, WatchLess

LEMMA PublishTypes ==
  ASSUME TInv, Publish
  PROVE  TInv'
<1>1. UNCHANGED <<passVars, poll_list, calls, write_op_queue>> /\ ClientTypes /\ StreamTypes
  BY DEF Publish, streamVars, TInv
<1>2. \E f \in Func : funcs' = Append(funcs, f)
  <2>1. /\ [call |-> "send", op |-> "publish"] \in Call
        /\ [call |-> "send", op |-> "publish"].call \in {"send", "upgrade", "connect"}
    BY DEF Call, Op
  <2>2. QED
    BY <2>1, FuncMembers DEF Publish
<1>3. LInv'
  BY <1>1, <1>2, OutsideTypes
<1>4. sends' \in 0..MaxSend
  BY <1>1, ClientAssumption DEF Publish, ClientTypes
<1>5. StreamTypes' /\ ClientTypes'
  BY <1>1, <1>4 DEF Publish, StreamTypes, ClientTypes, streamVars, clientVars
<1>6. QED
  BY <1>3, <1>5 DEF TInv

LEMMA ResolverTypes ==
  ASSUME TInv, Resolver
  PROVE  TInv'
<1>1. /\ UNCHANGED <<passVars, poll_list, calls, write_op_queue>> /\ ClientTypes /\ StreamTypes
      /\ UNCHANGED <<sock, server_fd, up, owner>> /\ UNCHANGED <<clientVars, made, worldVars>>
      /\ resolving # <<>> /\ resolving' = Tail(resolving) /\ resolving \in Seq(Conn)
      /\ \E found \in BOOLEAN :
           funcs' = Append(funcs, [f |-> "resolved", conn |-> Head(resolving), found |-> found])
  BY DEF Resolver, Resolved, TInv, StreamTypes
<1>2. Head(resolving) \in Conn /\ resolving' \in Seq(Conn)
  BY <1>1, HeadTailProperties
<1>3. \E f \in Func : funcs' = Append(funcs, f)
  BY <1>1, <1>2, FuncMembers
<1>4. LInv'
  BY <1>1, <1>3, OutsideTypes
<1>5. StreamTypes' /\ ClientTypes'
  BY <1>1, <1>2 DEF StreamTypes, ClientTypes, clientVars, worldVars
<1>6. QED
  BY <1>4, <1>5 DEF TInv

LEMMA JoinTypesKept ==
  ASSUME TInv, Join
  PROVE  TInv'
<1>1. UNCHANGED <<passVars, poll_list, calls, streamVars, clientVars, made, worldVars>>
  BY DEF Join
<1>2. \E f \in Func : funcs' = Append(funcs, f)
  <2>1. [call |-> "connect"] \in Call
    BY DEF Call
  <2>2. QED
    BY <2>1, FuncMembers DEF Join
<1>3. LInv'
  BY <1>1, <1>2, OutsideTypes DEF streamVars
<1>4. QED
  BY <1>1, <1>3 DEF TInv, StreamTypes, ClientTypes, streamVars, clientVars, worldVars

LEMMA ConnectTypes ==
  ASSUME TInv, Connect
  PROVE  TInv'
<1>1. /\ calls # <<>> /\ Calling(<<>>) /\ ClientTypes /\ StreamTypes
      /\ UNCHANGED <<passVars, poll_list, funcs, sock, server_fd, up, write_op_queue, owner, connected,
                     ping_timer, pending_ping_count, worldVars>>
      /\ NewStream \/ UNCHANGED <<made, current, resolving>>
  BY DEF Connect, Running, TInv
<1>2. LInv'
  BY <1>1, QuietCalls, QuietStep
<1>3. made' \in 0..MaxConn /\ current' \in Conn \union {NoConn} /\ resolving' \in Seq(Conn)
  BY <1>1, NewStreamIs DEF StreamTypes, ClientTypes
<1>4. StreamTypes' /\ ClientTypes'
  BY <1>1, <1>3 DEF StreamTypes, ClientTypes, worldVars
<1>5. QED
  BY <1>2, <1>4 DEF TInv

LEMMA StutterTypes ==
  ASSUME TInv, UNCHANGED vars
  PROVE  TInv'
<1>1. /\ UNCHANGED <<passVars, poll_list, calls, funcs>> /\ UNCHANGED streamVars
      /\ UNCHANGED clientVars /\ UNCHANGED made /\ UNCHANGED worldVars
      /\ ClientTypes /\ StreamTypes
  BY DEF vars, loopVars, TInv
<1>2. LInv'
  BY <1>1, OutsideTypes DEF streamVars
<1>3. StreamTypes' /\ ClientTypes'
  BY <1>1 DEF StreamTypes, ClientTypes, streamVars, clientVars, worldVars
<1>4. QED
  BY <1>2, <1>3 DEF TInv

LEMMA CloseFdTypes ==
  ASSUME NEW own \in [Fd -> Conn \union {Free}], NEW fd \in Fd \union {NoFd}
  PROVE  CloseFd(own, fd) \in [Fd -> Conn \union {Free}]
BY DEF CloseFd, Free

LEMMA DestroyStreamTypes ==
  ASSUME TInv, NEW c \in Conn, DestroyStream(c)
  PROVE  TInv' /\ Watched' \subseteq Watched
<1>1. /\ UNCHANGED <<passVars, funcs, calls, write_op_queue>> /\ UNCHANGED <<resolving, up>>
      /\ UNCHANGED <<clientVars, made, worldVars>>
      /\ owner' = CloseFd(CloseFd(owner, server_fd[c]), sock[c])
      /\ poll_list' = UnnotifyFd(UnnotifyFd(poll_list, server_fd[c]), sock[c])
      /\ sock' = [sock EXCEPT ![c] = NoFd] /\ server_fd' = [server_fd EXCEPT ![c] = NoFd]
      /\ ClientTypes /\ StreamTypes /\ LoopTypes /\ Unique(poll_list) /\ Unique(copy)
  BY DEF DestroyStream, Destroy, TInv, LInv
<1>2. /\ poll_list' \in Seq(Entry) /\ Unique(poll_list')
      /\ Range(poll_list') \subseteq Range(poll_list)
  <2> DEFINE half == UnnotifyFd(poll_list, server_fd[c])
  <2>1. /\ half \in Seq(Entry) /\ Unique(half)
        /\ \A e \in Range(half) : e \in Range(poll_list)
    BY <1>1, UnnotifyFdIs DEF LoopTypes
  <2>2. poll_list' = UnnotifyFd(half, sock[c])
    BY <1>1
  <2> HIDE DEF half
  <2>3. /\ poll_list' \in Seq(Entry) /\ Unique(poll_list')
        /\ \A e \in Range(poll_list') : e \in Range(half)
    BY <2>1, <2>2, UnnotifyFdIs
  <2>4. QED
    BY <2>1, <2>3
<1>3. UNCHANGED <<phase, copy, todo, ec, batch>>
  BY <1>1 DEF passVars
<1>4. LInv' /\ Watched' \subseteq Watched
  <2>1. LoopTypes'
    BY <1>1, <1>2, <1>3 DEF LoopTypes
  <2>2. Watched' \subseteq Watched
    BY <1>2, <1>3 DEF Watched
  <2>3. QED
    BY <1>1, <1>2, <1>3, <2>1, <2>2, WatchLess
<1>5. StreamTypes'
  <2>1. owner' \in [Fd -> Conn \union {Free}]
    BY <1>1, CloseFdTypes DEF StreamTypes
  <2>2. QED
    BY <1>1, <2>1 DEF StreamTypes
<1>6. ClientTypes'
  BY <1>1 DEF ClientTypes, clientVars, worldVars
<1>7. QED
  BY <1>4, <1>5, <1>6 DEF TInv

LEMMA SelectTypes ==
  ASSUME TInv, Select \/ SelectTimeout
  PROVE  LInv' /\ UNCHANGED streamVars /\ Watched' \subseteq Watched
<1>1. /\ todo' \subseteq DOMAIN poll_list /\ copy' = poll_list
      /\ ec' \in {"ok", "Timeout"} /\ phase' = "pass" /\ batch' \in 0..Len(funcs)
      /\ UNCHANGED <<poll_list, funcs, calls>> /\ UNCHANGED streamVars
      /\ LoopTypes /\ Unique(poll_list) /\ Len(funcs) \in Nat
  BY LenProperties DEF Select, SelectTimeout, Ready, TInv, LInv, LoopTypes
<1>2. LoopTypes' /\ Unique(poll_list') /\ Unique(copy')
  BY <1>1 DEF LoopTypes
<1>3. Watched' \subseteq Watched
  BY <1>1 DEF Watched, Range
<1>4. QED
  BY <1>1, <1>2, <1>3, WatchLess DEF streamVars

LEMMA PassDoneTypes ==
  ASSUME TInv, PassDone
  PROVE  LInv' /\ UNCHANGED streamVars /\ Watched' \subseteq Watched
<1>1. /\ todo = {} /\ copy' = <<>> /\ phase' = "select"
      /\ UNCHANGED <<todo, ec, batch>> /\ UNCHANGED <<poll_list, funcs, calls>> /\ UNCHANGED streamVars
      /\ LoopTypes /\ Unique(poll_list)
  BY DEF PassDone, TInv, LInv
<1>2. LoopTypes' /\ Unique(poll_list') /\ Unique(copy')
  BY <1>1 DEF LoopTypes, Unique
<1>3. Watched' \subseteq Watched
  BY <1>1 DEF Watched
<1>4. QED
  BY <1>1, <1>2, <1>3, WatchLess DEF streamVars

(* The loop makes the calls of a function or of a callback. *)
LEMMA FirstCalls ==
  ASSUME NEW s, Quiet(s), calls' = s
  PROVE  /\ calls' \in Seq(Call) /\ Behind' /\ OneWriteCall'
         /\ \A c \in Conn : ~WriteCalled(c)'
BY DEF Quiet, Behind, OneWriteCall, WriteCalled

LEMMA PingDueTypes ==
  ASSUME TInv, PingDue
  PROVE  TInv'
<1>1. /\ UNCHANGED <<passVars, poll_list, funcs>> /\ UNCHANGED streamVars
      /\ calls' = <<[call |-> "send", op |-> "ping"]>>
      /\ UNCHANGED <<clientVars, made, crashed, upgrading, server, session>>
      /\ sends < MaxSend /\ sends' = sends + 1
      /\ ClientTypes /\ StreamTypes /\ LoopTypes /\ Unique(poll_list) /\ Unique(copy) /\ OneWrite
  BY DEF PingDue, TInv, LInv
<1>2. Quiet(<<[call |-> "send", op |-> "ping"]>>)
  BY ClientCalls DEF Op
<1>3. /\ calls' \in Seq(Call) /\ Behind' /\ OneWriteCall'
      /\ \A c \in Conn : ~WriteCalled(c)'
  BY <1>1, <1>2, FirstCalls
<1>4. UNCHANGED <<phase, copy, todo, ec, batch, write_op_queue>>
  BY <1>1 DEF passVars, streamVars
<1>5. LoopTypes' /\ Unique(poll_list') /\ Unique(copy')
  BY <1>1, <1>3, <1>4 DEF LoopTypes
<1>6. OneWrite'
  <2>1. Watched' = Watched
    BY <1>1, <1>4 DEF Watched
  <2>2. QED
    BY <1>1, <1>3, <1>4, <2>1, WritesKept DEF SameKey
<1>7. sends' \in 0..MaxSend
  BY <1>1, ClientAssumption DEF ClientTypes
<1>8. StreamTypes' /\ ClientTypes'
  BY <1>1, <1>7 DEF StreamTypes, ClientTypes, streamVars, clientVars
<1>9. QED
  BY <1>3, <1>5, <1>6, <1>8 DEF TInv, LInv, Unique

LEMMA RunFuncTypes ==
  ASSUME TInv, RunFunc
  PROVE  LInv' /\ StreamTypes'
<1> DEFINE f == Head(funcs)
<1>1. /\ UNCHANGED <<phase, copy, todo, ec, poll_list>> /\ UNCHANGED <<resolving, sock, server_fd, up, owner>>
      /\ batch > 0 /\ batch' = batch - 1 /\ funcs' = Tail(funcs) /\ calls = <<>>
      /\ StreamTypes /\ LoopTypes /\ Unique(poll_list) /\ Unique(copy) /\ OneWrite
  BY DEF RunFunc, TInv, LInv
<1>2. f \in Func /\ funcs' \in Seq(Func) /\ batch' \in 0..Len(funcs')
  <2>1. funcs \in Seq(Func) /\ batch \in 0..Len(funcs) /\ Len(funcs) \in Nat
    BY <1>1, LenProperties DEF LoopTypes
  <2>2. funcs # <<>>
    BY <1>1, <2>1, EmptySeq
  <2>3. f \in Func /\ funcs' \in Seq(Func) /\ Len(funcs') = Len(funcs) - 1
    BY <1>1, <2>1, <2>2, HeadTailProperties
  <2>4. QED
    BY <1>1, <2>1, <2>3
<1>3. UNCHANGED <<copy, todo, poll_list>> /\ Watched' = Watched
  BY <1>1 DEF Watched
<1>4. ASSUME NEW s, Quiet(s), calls' = s, UNCHANGED write_op_queue
      PROVE  LInv' /\ StreamTypes'
  <2>1. /\ calls' \in Seq(Call) /\ Behind' /\ OneWriteCall'
        /\ \A c \in Conn : ~WriteCalled(c)'
    BY <1>4, FirstCalls
  <2>2. LoopTypes' /\ Unique(poll_list') /\ Unique(copy')
    BY <1>1, <1>2, <2>1 DEF LoopTypes
  <2>3. OneWrite'
    BY <1>1, <1>3, <1>4, <2>1, WritesKept DEF SameKey
  <2>4. StreamTypes'
    BY <1>1, <1>4 DEF StreamTypes
  <2>5. QED
    BY <2>1, <2>2, <2>3, <2>4 DEF LInv, Unique
<1>5. CASE f.f = "resolved"
  <2>1. /\ calls' = <<[call |-> "on_resolved", conn |-> f.conn, found |-> f.found]>>
        /\ UNCHANGED write_op_queue
    BY <1>5 DEF RunFunc
  <2>2. Quiet(<<[call |-> "on_resolved", conn |-> f.conn, found |-> f.found]>>)
    <3>1. /\ [call |-> "on_resolved", conn |-> f.conn, found |-> f.found] \in Call
          /\ [call |-> "on_resolved", conn |-> f.conn, found |-> f.found].call \notin WriteCall
      BY <1>2, <1>5, FuncFields DEF Call, WriteCall
    <3>2. QED
      BY <3>1, QuietCalls
  <2>3. QED
    BY <1>4, <2>1, <2>2
<1>6. CASE f.f = "close"
  <2>1. /\ calls' = <<[call |-> "socket_close", conn |-> f.conn]>>
        /\ UNCHANGED write_op_queue
    BY <1>6 DEF RunFunc
  <2>2. Quiet(<<[call |-> "socket_close", conn |-> f.conn]>>)
    <3>1. /\ [call |-> "socket_close", conn |-> f.conn] \in Call
          /\ [call |-> "socket_close", conn |-> f.conn].call \notin WriteCall
      BY <1>2, <1>6, FuncFields DEF Call, WriteCall
    <3>2. QED
      BY <3>1, QuietCalls
  <2>3. QED
    BY <1>4, <2>1, <2>2
<1>7. CASE f.f = "call"
  <2>1. calls' = <<f.then>> /\ UNCHANGED write_op_queue
    BY <1>7 DEF RunFunc
  <2>2. Quiet(<<f.then>>)
    <3>1. f.then \in Call /\ f.then.call \notin WriteCall
      BY <1>2, <1>7, FuncFields DEF WriteCall
    <3>2. QED
      BY <3>1, QuietCalls
  <2>3. QED
    BY <1>4, <2>1, <2>2
<1>8. CASE f.f = "write"
  <2> DEFINE c == f.conn
             call == [call |-> "do_write", conn |-> c]
  <2>1. /\ c \in Conn /\ f.op \in Op /\ write_op_queue[c] \in Seq(Op)
    BY <1>1, <1>2, <1>8, FuncFields DEF StreamTypes
  <2>2. /\ write_op_queue' = [write_op_queue EXCEPT ![c] = Append(@, f.op)]
        /\ calls' = IF write_op_queue[c] = <<>> THEN <<call>> ELSE <<>>
    BY <1>8 DEF RunFunc
  <2>3. call \in Call /\ call.call = "do_write" /\ call.conn = c
    BY <2>1 DEF Call
  <2> HIDE DEF f, call
  <2>4. Append(write_op_queue[c], f.op) \in Seq(Op) /\ Append(write_op_queue[c], f.op) # <<>>
    BY <2>1, AppendProperties
  <2>5. /\ write_op_queue' \in [Conn -> Seq(Op)] /\ write_op_queue'[c] # <<>>
        /\ \A d \in Conn \ {c} : write_op_queue'[d] = write_op_queue[d]
    BY <1>1, <2>1, <2>2, <2>4 DEF StreamTypes
  <2>6. /\ calls' \in Seq(Call) /\ Behind' /\ OneWriteCall'
        /\ \A d \in Conn : WriteCalled(d)' => d = c /\ write_op_queue[c] = <<>>
    BY <2>2, <2>3 DEF Behind, OneWriteCall, WriteCalled
  <2>7. LoopTypes' /\ Unique(poll_list') /\ Unique(copy')
    BY <1>1, <1>2, <2>6 DEF LoopTypes
  <2>8. OneWrite'
    <3>1. \A d \in Conn : WriteAwaited(d)' => WriteAwaited(d)
      BY <1>3 DEF WriteAwaited
    <3>2. \A d \in Conn : write_op_queue[d] # <<>> => write_op_queue'[d] # <<>>
      BY <2>5
    <3>3. \A d \in Conn : /\ WriteCalled(d)' => ~WriteAwaited(d)'
                          /\ WriteCalled(d)' \/ WriteAwaited(d)' => write_op_queue'[d] # <<>>
      BY <1>1, <2>5, <2>6, <3>1, <3>2 DEF OneWrite
    <3>4. QED
      BY <1>1, <1>3, <2>6, <3>3 DEF OneWrite, SameKey
  <2>9. StreamTypes'
    BY <1>1, <2>5 DEF StreamTypes
  <2>10. QED
    BY <2>6, <2>7, <2>8, <2>9 DEF LInv, Unique
<1>9. QED
  BY <1>2, <1>5, <1>6, <1>7, <1>8, FuncFields

(* What a callback calls. *)
LEMMA CallbackIs ==
  ASSUME NEW e \in Entry, NEW code \in Code,
         write_op_queue[e.conn] \in Seq(Op), e.cb = "write" => write_op_queue[e.conn] # <<>>
  PROVE  \/ Quiet(Callback(e, code))
         \/ /\ e.cb = "write" /\ Callback(e, code) \in Seq(Call)
            /\ \A n \in 2..Len(Callback(e, code)) : Callback(e, code)[n].call = "written"
            /\ \A n \in DOMAIN Callback(e, code) : Callback(e, code)[n].call \in WriteCall =>
                 n = Len(Callback(e, code)) /\ Callback(e, code)[n].conn = e.conn
<1> DEFINE c == e.conn
<1>1. c \in Conn /\ e.cb \in Purpose
  BY EntryFields DEF Purpose
<1>2. CASE e.cb = "connect" /\ code = "ok"
  <2>1. /\ [call |-> "socket_on_connected", conn |-> c] \in Call
        /\ [call |-> "socket_on_connected", conn |-> c].call \notin WriteCall
    BY <1>1 DEF Call, WriteCall
  <2>2. Callback(e, code) = <<[call |-> "socket_on_connected", conn |-> c]>>
    BY <1>2 DEF Callback
  <2>3. QED
    BY <2>1, <2>2, QuietCalls
<1>3. CASE e.cb = "handshake" /\ code = "ok"
  <2>1. /\ [call |-> "on_handshake", conn |-> c] \in Call
        /\ [call |-> "on_handshake", conn |-> c].call \notin WriteCall
    BY <1>1 DEF Call, WriteCall
  <2>2. Callback(e, code) = <<[call |-> "on_handshake", conn |-> c]>>
    BY <1>3 DEF Callback
  <2>3. QED
    BY <2>1, <2>2, QuietCalls
<1>4. CASE e.cb \in {"connect", "handshake"} /\ code # "ok"
  <2>1. Callback(e, code) = <<ConnectCb(c, code)>>
    BY <1>4 DEF Callback
  <2>2. QED
    BY <1>1, <2>1, ClientCalls
<1>5. CASE e.cb = "read" /\ code = "ok"
  <2>1. Callback(e, code) = <<[call |-> "do_read", conn |-> c]>>
    BY <1>5 DEF Callback
  <2>2. QED
    BY <1>1, <2>1, ClientCalls
<1>6. CASE e.cb = "read" /\ code # "ok"
  <2>1. Callback(e, code) = <<ReadCb(code)>>
    BY <1>6 DEF Callback
  <2>2. QED
    BY <2>1, ClientCalls
<1>7. CASE e.cb = "write" /\ code = "ok"
  <2> DEFINE call == [call |-> "do_write", conn |-> c]
  <2>1. Callback(e, code) = <<call>>
    BY <1>7 DEF Callback
  <2>2. call \in Call /\ call.call = "do_write" /\ call.conn = c
    BY <1>1 DEF Call
  <2> HIDE DEF call
  <2>3. /\ Callback(e, code) \in Seq(Call) /\ Len(Callback(e, code)) = 1
        /\ DOMAIN Callback(e, code) = {1} /\ Callback(e, code)[1] = call
    BY <2>1, <2>2
  <2>4. \A n \in 2..Len(Callback(e, code)) : FALSE
    BY <2>3
  <2>5. QED
    BY <1>7, <2>2, <2>3, <2>4
<1>8. CASE e.cb = "write" /\ code # "ok"
  <2> DEFINE told == WriteCb(Head(write_op_queue[c]), code)
             then == [call |-> "written", conn |-> c]
  <2>1. Callback(e, code) = <<told, then>>
    BY <1>8 DEF Callback
  <2>2. Head(write_op_queue[c]) \in Op
    BY <1>8, HeadTailProperties
  <2>3. /\ told \in Call /\ told.call \notin WriteCall
        /\ then \in Call /\ then.call = "written" /\ then.conn = c
    BY <1>1, <2>2 DEF Call, WriteCb, WriteCall
  <2> HIDE DEF told, then
  <2>4. QED
    BY <1>8, <2>1, <2>3
<1>9. QED
  BY <1>1, <1>2, <1>3, <1>4, <1>5, <1>6, <1>7, <1>8 DEF Purpose

(* The entry that is answered is watched no more, nor another of its key. *)
LEMMA AnswerIs ==
  ASSUME TInv, Answer
  PROVE  \E e \in Watched :
           /\ e \in Entry /\ e.conn \in Conn
           /\ ec' = (IF e.cancelled /\ ec # "Timeout" THEN "Cancelled" ELSE ec)
           /\ ec' \in {"ok", "Cancelled", "Timeout"} /\ ec' \in Code
           /\ calls' = Callback(e, ec') /\ calls = <<>>
           /\ poll_list' \in Seq(Entry) /\ Unique(poll_list')
           /\ Range(poll_list') \subseteq Range(poll_list)
           /\ todo' \subseteq todo
           /\ \A x \in Watched' : x \in Watched /\ ~SameKey(x, e)
<1>1. PICK n \in todo :
        /\ ec' = (IF copy[n].cancelled /\ ec # "Timeout" THEN "Cancelled" ELSE ec)
        /\ poll_list' = Unnotify(poll_list, copy[n].fd, copy[n].dir)
        /\ calls' = Callback(copy[n], ec')
        /\ todo' = todo \ {n}
  BY DEF Answer
<1> DEFINE e == copy[n]
<1>2. /\ UNCHANGED copy /\ calls = <<>> /\ LoopTypes /\ Unique(poll_list) /\ Unique(copy)
  BY DEF Answer, TInv, LInv
<1>3. e \in Entry /\ e.conn \in Conn /\ e \in Watched /\ n \in DOMAIN copy
  <2>1. n \in DOMAIN copy /\ e \in Entry
    BY <1>2 DEF LoopTypes
  <2>2. QED
    BY <2>1, EntryFields DEF Watched
<1>4. ec' \in {"ok", "Cancelled", "Timeout"} /\ ec' \in Code
  BY <1>1, <1>2 DEF LoopTypes, Code
<1>5. /\ poll_list' \in Seq(Entry) /\ Unique(poll_list')
      /\ \A x \in Range(poll_list') : x \in Range(poll_list) /\ ~SameKey(x, e)
  <2>1. poll_list \in Seq(Entry)
    BY <1>2 DEF LoopTypes
  <2>2. QED
    BY <1>1, <1>2, <2>1, UnnotifyIs DEF SameKey
<1>6. ASSUME NEW x \in Watched'
      PROVE  x \in Watched /\ ~SameKey(x, e)
  <2>1. CASE x \in Range(poll_list')
    BY <1>5, <2>1 DEF Watched
  <2>2. CASE x \in {copy[m] : m \in todo \ {n}}
    <3>1. PICK m \in todo \ {n} : x = copy[m]
      BY <2>2
    <3>2. m \in DOMAIN copy /\ m # n
      BY <1>2 DEF LoopTypes
    <3>3. ~SameKey(x, e)
      BY <1>2, <1>3, <3>1, <3>2 DEF Unique, SameKey
    <3>4. QED
      BY <3>1, <3>3 DEF Watched
  <2>3. QED
    BY <1>1, <1>2, <1>6, <2>1, <2>2 DEF Watched
<1>7. todo' \subseteq todo /\ Range(poll_list') \subseteq Range(poll_list)
  BY <1>1, <1>5
<1>8. QED
  BY <1>1, <1>2, <1>3, <1>4, <1>5, <1>6, <1>7

LEMMA AnswerTypes ==
  ASSUME TInv, Answer
  PROVE  LInv' /\ UNCHANGED streamVars
<1>1. PICK e \in Watched :
        /\ e \in Entry /\ e.conn \in Conn
        /\ ec' \in {"ok", "Cancelled", "Timeout"} /\ ec' \in Code
        /\ calls' = Callback(e, ec')
        /\ poll_list' \in Seq(Entry) /\ Unique(poll_list')
        /\ todo' \subseteq todo
        /\ \A x \in Watched' : x \in Watched /\ ~SameKey(x, e)
  BY AnswerIs
<1>2. /\ UNCHANGED <<phase, copy, batch, funcs>> /\ UNCHANGED streamVars
      /\ StreamTypes /\ LoopTypes /\ Unique(copy) /\ OneWrite
      /\ UNCHANGED write_op_queue /\ UNCHANGED copy
  BY DEF Answer, streamVars, TInv, LInv
<1>3. /\ calls' \in Seq(Call) /\ Behind' /\ OneWriteCall'
      /\ \A c \in Conn : WriteCalled(c)' => c = e.conn /\ e.cb = "write"
  <2>1. write_op_queue[e.conn] \in Seq(Op) /\ (e.cb = "write" => write_op_queue[e.conn] # <<>>)
    BY <1>1, <1>2 DEF StreamTypes, OneWrite, WriteAwaited
  <2>2. CASE Quiet(calls')
    BY <2>2, FirstCalls
  <2>3. CASE /\ e.cb = "write" /\ calls' \in Seq(Call)
             /\ \A i \in 2..Len(calls') : calls'[i].call = "written"
             /\ \A i \in DOMAIN calls' : calls'[i].call \in WriteCall =>
                  i = Len(calls') /\ calls'[i].conn = e.conn
    BY <2>3 DEF Behind, OneWriteCall, WriteCalled
  <2>4. QED
    BY <1>1, <2>1, <2>2, <2>3, CallbackIs
<1>4. LoopTypes' /\ Unique(copy')
  BY <1>1, <1>2, <1>3 DEF LoopTypes, TInv, LInv
<1>5. OneWrite'
  <2>1. \A c \in Conn : WriteAwaited(c)' => WriteAwaited(c)
    BY <1>1 DEF WriteAwaited
  <2>2. ASSUME NEW c \in Conn, WriteCalled(c)'
        PROVE  ~WriteAwaited(c)' /\ write_op_queue'[c] # <<>>
    <3>1. c = e.conn /\ e.cb = "write" /\ WriteAwaited(c)
      BY <1>3, <2>2 DEF WriteAwaited
    <3>2. ASSUME NEW x \in Watched', x.cb = "write", x.conn = c
          PROVE  FALSE
      BY <1>1, <1>2, <3>1, <3>2 DEF OneWrite
    <3>3. QED
      BY <1>2, <3>1, <3>2 DEF WriteAwaited, OneWrite
  <2>3. QED
    BY <1>1, <1>2, <1>3, <2>1, <2>2 DEF OneWrite, SameKey
<1>6. QED
  BY <1>1, <1>2, <1>3, <1>4, <1>5 DEF LInv, Unique

-----------------------------------------------------------------------------

LEMMA StreamStepTypes ==
  ASSUME TInv, StreamStep
  PROVE  TInv'
<1>1. PICK c \in Conn :
        OnResolved(c) \/ SocketOnConnected(c) \/ OnHandshake(c) \/ Written(c) \/ SocketClose(c)
  BY DEF StreamStep
<1>2. LInv' /\ StreamTypes'
  BY <1>1, OnResolvedTypes, SocketOnConnectedTypes, OnHandshakeTypes, WrittenTypes, SocketCloseTypes
<1>3. ClientTypes'
  BY DEF StreamStep, TInv, ClientTypes, clientVars, worldVars
<1>4. QED
  BY <1>2, <1>3 DEF TInv

LEMMA ClientStepTypes ==
  ASSUME TInv, ClientStep
  PROVE  TInv'
<1>1. \/ HandleError \/ ConnectDone \/ Send \/ WriteDone \/ ReadPacket \/ ReadFailed \/ Upgrade
      \/ \E c \in Conn : Writing(c) \/ Reading(c) \/ Receiving(c)
  BY DEF ClientStep
<1>2. QED
  BY <1>1, HandleErrorTypes, ConnectDoneTypes, SendTypes, WriteDoneTypes, ReadPacketTypes,
     ReadFailedTypes, UpgradeTypes, WritingTypes, ReadingTypes, ReceivingTypes

LEMMA LoopStepTypes ==
  ASSUME TInv, LoopStep
  PROVE  TInv'
<1>1. CASE PingDue
  BY <1>1, PingDueTypes
<1>2. CASE /\ Select \/ SelectTimeout \/ RunFunc \/ Answer \/ PassDone
           /\ UNCHANGED <<clientVars, made, worldVars>>
  <2>1. ClientTypes'
    BY <1>2 DEF TInv, ClientTypes, clientVars, worldVars
  <2>2. LInv' /\ (UNCHANGED streamVars \/ StreamTypes')
    BY <1>2, SelectTypes, RunFuncTypes, AnswerTypes, PassDoneTypes
  <2>3. StreamTypes'
    BY <2>2 DEF TInv, StreamTypes, streamVars
  <2>4. QED
    BY <2>1, <2>2, <2>3 DEF TInv
<1>3. QED
  BY <1>1, <1>2 DEF LoopStep

LEMMA TypesNext ==
  ASSUME TInv, [Next]_vars
  PROVE  TInv'
<1>1. CASE Next
  <2>1. \/ Join \/ Connect \/ Publish \/ Resolver \/ StreamStep \/ ClientStep \/ LoopStep
        \/ \E c \in Conn : DestroyStream(c)
    BY <1>1 DEF Next
  <2>2. QED
    BY <2>1, JoinTypesKept, ConnectTypes, PublishTypes, ResolverTypes, StreamStepTypes, ClientStepTypes,
       LoopStepTypes, DestroyStreamTypes
<1>2. CASE UNCHANGED vars
  BY <1>2, StutterTypes
<1>3. QED
  BY <1>1, <1>2

(* The Wi-Fi comes up, or nothing is said of it; nothing takes replaced    *)
(* back.                                                                   *)
LEMMA JoinsNext ==
  ASSUME JoinTypes, [Next]_vars
  PROVE  JoinTypes' /\ (replaced => replaced')
<1>1. CASE Join
  BY <1>1, ClientAssumption DEF Join, JoinTypes
<1>2. CASE Connect
  BY <1>2 DEF Connect, JoinTypes
<1>3. CASE UNCHANGED joinVars
  BY <1>3 DEF JoinTypes, joinVars
<1>4. CASE Publish
  BY <1>3, <1>4 DEF Publish
<1>5. Join \/ Connect \/ Publish \/ UNCHANGED joinVars
  BY DEF Next, vars, Resolver, StreamStep, ClientStep, DestroyStream, LoopStep
<1>6. QED
  BY <1>1, <1>2, <1>3, <1>4, <1>5

LEMMA TypesInit ==
  ASSUME Init
  PROVE  TInv
<1>1. LoopTypes
  BY DEF Init, StreamInit, LoopTypes
<1>2. StreamTypes
  BY StreamAssumption DEF Init, StreamInit, NoSocket, StreamTypes, NoFd, Free
<1>3. ClientTypes
  <2>1. server \in [Conn -> Seq(Op)] /\ session \in [Conn -> {"new", "open", "gone"}]
    BY DEF Init
  <2>2. 0 \in 0..MaxConn /\ 0 \in 0..MaxSend
    BY StreamAssumption, ClientAssumption, SMT
  <2>3. /\ connected \in BOOLEAN /\ ping_timer \in BOOLEAN
        /\ crashed \in BOOLEAN /\ upgrading \in BOOLEAN
    BY DEF Init
  <2>4. /\ current \in Conn \union {NoConn} /\ pending_ping_count \in Int
        /\ made \in 0..MaxConn /\ sends \in 0..MaxSend
    BY <2>2 DEF Init
  <2>5. QED
    BY <2>1, <2>3, <2>4, Zenon DEF ClientTypes
<1>4. Watched = {} /\ calls = <<>> /\ poll_list = <<>> /\ copy = <<>>
  BY DEF Init, StreamInit, Watched, Range
<1>5. Unique(poll_list) /\ Unique(copy) /\ Behind
  BY <1>4 DEF Unique, Behind
<1>6. OneWrite
  BY <1>4 DEF OneWrite, OneWriteCall, WriteCalled, WriteAwaited
<1>7. QED
  BY <1>1, <1>2, <1>3, <1>5, <1>6 DEF TInv, LInv

(* The variables have their types, for any number of streams, descriptors  *)
(* and publications, over TCP or TLS, whatever goes wrong.  So a callback  *)
(* of write_async always has the operation that it is called for at the    *)
(* front of the queue (Stream.cpp, do_write_async).                        *)
THEOREM ClientTypeCorrect == Spec => []TypeOK
<1>1. Init => TInv /\ JoinTypes
  <2>1. 0 \in 0..MaxJoin
    BY ClientAssumption
  <2>2. QED
    BY <2>1, TypesInit DEF Init, JoinTypes
<1>2. TInv /\ JoinTypes /\ [Next]_vars => TInv' /\ JoinTypes'
  BY TypesNext, JoinsNext
<1>3. TInv /\ JoinTypes => TypeOK
  BY DEF TInv, LInv, TypeOK
<1> QED
  BY <1>1, <1>2, <1>3, PTL DEF Spec

-----------------------------------------------------------------------------
(* Registrations over TCP.                                                 *)

RegInv == TInv /\ OwnInv /\ RegistersOwnDescriptor

LEMMA RegFewer ==
  ASSUME RegistersOwnDescriptor, Range(poll_list') \subseteq Range(poll_list), UNCHANGED owner
  PROVE  RegistersOwnDescriptor'
BY DEF RegistersOwnDescriptor

(* A stream registers the socket that it has, or none. *)
LEMMA RegNotify ==
  ASSUME RegInv, NEW c \in Conn, NEW fd \in {NoFd, sock[c]}, NEW dir \in Dir, NEW cb \in Purpose,
         poll_list' = Notify(poll_list, fd, dir, cb, c), UNCHANGED owner
  PROVE  RegistersOwnDescriptor'
<1>1. poll_list \in Seq(Entry) /\ Unique(poll_list) /\ fd \in Fd \union {NoFd}
  BY DEF RegInv, TInv, LInv, LoopTypes, StreamTypes
<1>2. fd # NoFd => owner[fd] = c
  BY DEF RegInv, OwnInv, OwnsItsDescriptor
<1>3. ASSUME NEW e \in Range(poll_list')
      PROVE  e \in Range(poll_list) \/ (e.fd = fd /\ e.conn = c)
  BY <1>1, NotifyIs
<1>4. QED
  BY <1>2, <1>3 DEF RegInv, RegistersOwnDescriptor

LEMMA RegOpen ==
  ASSUME RegInv, NEW c \in Conn, OnResolved(c)
  PROVE  RegistersOwnDescriptor'
<1>1. CASE UNCHANGED <<poll_list, owner>>
  BY <1>1, RegFewer DEF RegInv
<1>2. CASE \E fd \in Fd : /\ Lowest(fd)
                          /\ owner' = [owner EXCEPT ![fd] = c]
                          /\ poll_list' = Notify(poll_list, fd, "write", "connect", c)
  <2>1. PICK fd \in Fd : /\ owner[fd] = Free
                         /\ owner' = [owner EXCEPT ![fd] = c]
                         /\ poll_list' = Notify(poll_list, fd, "write", "connect", c)
    BY <1>2 DEF Lowest, FreeFds
  <2>2. /\ poll_list \in Seq(Entry) /\ Unique(poll_list) /\ fd \in Fd \union {NoFd}
        /\ "write" \in Dir /\ "connect" \in Purpose
    BY DEF RegInv, TInv, LInv, LoopTypes, Dir, Purpose
  <2>3. ASSUME NEW e \in Range(poll_list')
        PROVE  e \in Range(poll_list) \/ (e.fd = fd /\ e.conn = c)
    BY <2>1, <2>2, NotifyIs
  <2>4. \A e \in Range(poll_list) : e.fd # NoFd /\ ~e.cancelled => e.fd \in Fd /\ e.fd # fd
    <3>1. \A e \in Range(poll_list) : e.conn \in Conn /\ e.fd \in Fd \union {NoFd}
      BY <2>2, InRange, EntryFields
    <3>2. \A e \in Range(poll_list) : e.conn # Free
      BY <3>1, StreamAssumption DEF Conn, Free
    <3>3. QED
      BY <2>1, <3>1, <3>2 DEF RegInv, RegistersOwnDescriptor
  <2>5. /\ owner'[fd] = c
        /\ \A other \in Fd \ {fd} : owner'[other] = owner[other]
    BY <2>1 DEF RegInv, OwnInv, FdTypes
  <2>6. QED
    BY <2>3, <2>4, <2>5 DEF RegInv, RegistersOwnDescriptor
<1>3. CASE \E fd \in Fd : /\ Lowest(fd)
                          /\ owner' = [owner EXCEPT ![fd] = c]
                          /\ poll_list' = poll_list
  <2>1. PICK fd \in Fd : owner[fd] = Free /\ owner' = [owner EXCEPT ![fd] = c] /\ poll_list' = poll_list
    BY <1>3 DEF Lowest, FreeFds
  <2>2. \A e \in Range(poll_list) : e.fd # NoFd /\ ~e.cancelled => e.fd \in Fd /\ e.fd # fd
    <3>1. poll_list \in Seq(Entry)
      BY DEF RegInv, TInv, LInv, LoopTypes
    <3>2. \A e \in Range(poll_list) : e.conn \in Conn /\ e.fd \in Fd \union {NoFd}
      BY <3>1, InRange, EntryFields
    <3>3. \A e \in Range(poll_list) : e.conn # Free
      BY <3>2, StreamAssumption DEF Conn, Free
    <3>4. QED
      BY <2>1, <3>2, <3>3 DEF RegInv, RegistersOwnDescriptor
  <2>3. \A other \in Fd \ {fd} : owner'[other] = owner[other]
    BY <2>1 DEF RegInv, OwnInv, FdTypes
  <2>4. QED
    BY <2>1, <2>2, <2>3 DEF RegInv, RegistersOwnDescriptor
<1>4. QED
  BY <1>1, <1>2, <1>3 DEF OnResolved

LEMMA RegClose ==
  ASSUME RegInv, NEW fd \in Fd \union {NoFd}, owner' = CloseFd(owner, fd),
         \A e \in Range(poll_list') : \E old \in Range(poll_list) :
           /\ e.fd = old.fd /\ e.conn = old.conn
           /\ e.fd # fd => e.cancelled = old.cancelled
           /\ e.fd = fd /\ fd # NoFd => e.cancelled
  PROVE  RegistersOwnDescriptor'
<1>1. SUFFICES ASSUME NEW e \in Range(poll_list'), e.fd # NoFd, ~e.cancelled
               PROVE  owner'[e.fd] = e.conn
  BY DEF RegistersOwnDescriptor
<1>2. PICK old \in Range(poll_list) :
        /\ e.fd = old.fd /\ e.conn = old.conn
        /\ e.fd # fd => e.cancelled = old.cancelled
        /\ e.fd = fd /\ fd # NoFd => e.cancelled
  BY <1>1
<1>3. e.fd # fd /\ ~old.cancelled
  BY <1>1, <1>2
<1>4. old.fd \in Fd
  <2>1. poll_list \in Seq(Entry)
    BY DEF RegInv, TInv, LInv, LoopTypes
  <2>2. old \in Entry
    BY <2>1, InRange
  <2>3. QED
    BY <1>1, <1>2, <2>2, EntryFields
<1>5. owner'[e.fd] = owner[e.fd]
  BY <1>2, <1>3, <1>4 DEF CloseFd, RegInv, OwnInv, FdTypes
<1>6. QED
  BY <1>1, <1>2, <1>3, <1>5 DEF RegInv, RegistersOwnDescriptor

LEMMA RegStreamStep ==
  ASSUME RegInv, StreamStep
  PROVE  RegistersOwnDescriptor'
<1>1. PICK c \in Conn :
        OnResolved(c) \/ SocketOnConnected(c) \/ OnHandshake(c) \/ Written(c) \/ SocketClose(c)
  BY DEF StreamStep
<1>2. CASE OnResolved(c)
  BY <1>2, RegOpen
<1>3. CASE SocketOnConnected(c)
  BY <1>3, RegFewer DEF SocketOnConnected, RegInv
<1>4. CASE OnHandshake(c)
  <2>1. UNCHANGED owner /\ server_fd[c] = NoFd
    BY <1>4 DEF OnHandshake, RegInv, OwnInv, FdTypes
  <2>2. \/ UNCHANGED poll_list
        \/ \E dir \in {"read", "write"} :
             poll_list' = Notify(poll_list, server_fd[c], dir, "handshake", c)
    BY <1>4 DEF OnHandshake
  <2>3. CASE UNCHANGED poll_list
    BY <2>1, <2>3, RegFewer DEF RegInv
  <2>4. CASE \E dir \in {"read", "write"} :
               poll_list' = Notify(poll_list, server_fd[c], dir, "handshake", c)
    <3>1. PICK dir \in Dir : poll_list' = Notify(poll_list, NoFd, dir, "handshake", c)
      BY <2>1, <2>4 DEF Dir
    <3>2. NoFd \in {NoFd, sock[c]} /\ "handshake" \in Purpose
      BY DEF Purpose
    <3>3. QED
      BY <2>1, <3>1, <3>2, RegNotify
  <2>5. QED
    BY <2>2, <2>3, <2>4
<1>5. CASE Written(c)
  <2>1. UNCHANGED owner
    BY <1>5 DEF Written
  <2>2. CASE UNCHANGED poll_list
    BY <2>1, <2>2, RegFewer DEF RegInv
  <2>3. CASE poll_list' = Notify(poll_list, sock[c], "write", "write", c)
    BY <2>1, <2>3, RegNotify DEF Dir, Purpose
  <2>4. QED
    BY <1>5, <2>2, <2>3 DEF Written
<1>6. CASE SocketClose(c)
  <2>1. /\ owner' = CloseFd(owner, sock[c]) /\ poll_list' = Cancel(poll_list, sock[c])
        /\ poll_list \in Seq(Entry) /\ Unique(poll_list) /\ sock[c] \in Fd \union {NoFd}
    BY <1>6 DEF SocketClose, RegInv, TInv, LInv, LoopTypes, StreamTypes
  <2>2. \A e \in Range(poll_list') : \E old \in Range(poll_list) :
              /\ e.fd = old.fd /\ e.dir = old.dir /\ e.cb = old.cb /\ e.conn = old.conn
              /\ e.fd # sock[c] => e.cancelled = old.cancelled
              /\ e.fd = sock[c] => e.cancelled
    BY <2>1, CancelIs
  <2>3. QED
    BY <2>1, <2>2, RegClose
<1>7. QED
  BY <1>1, <1>2, <1>3, <1>4, <1>5, <1>6

LEMMA RegClientStep ==
  ASSUME RegInv, ClientStep
  PROVE  RegistersOwnDescriptor'
<1>1. UNCHANGED owner
  BY ClientKeepsFds DEF fdVars
<1>2. ASSUME UNCHANGED poll_list
      PROVE  RegistersOwnDescriptor'
  BY <1>1, <1>2, RegFewer DEF RegInv
<1>3. CASE HandleError \/ ConnectDone \/ Send \/ WriteDone \/ ReadPacket \/ ReadFailed \/ Upgrade
  BY <1>2, <1>3 DEF HandleError, ConnectDone, Send, WriteDone, ReadPacket, ReadFailed, Upgrade
<1>4. ASSUME NEW c \in Conn, Writing(c)
      PROVE  RegistersOwnDescriptor'
  <2>1. \/ UNCHANGED poll_list
        \/ poll_list' = Notify(poll_list, sock[c], "write", "write", c)
    BY <1>4 DEF Writing, DoWrite
  <2>2. CASE poll_list' = Notify(poll_list, sock[c], "write", "write", c)
    BY <1>1, <2>2, RegNotify DEF Dir, Purpose
  <2>3. QED
    BY <1>2, <2>1, <2>2
<1>5. ASSUME NEW c \in Conn, Reading(c)
      PROVE  RegistersOwnDescriptor'
  <2>1. \/ UNCHANGED poll_list
        \/ poll_list' = Notify(poll_list, sock[c], "read", "read", c)
    BY <1>5 DEF Reading, ReadClosed, ReadError, ReadAgain
  <2>2. CASE poll_list' = Notify(poll_list, sock[c], "read", "read", c)
    BY <1>1, <2>2, RegNotify DEF Dir, Purpose
  <2>3. QED
    BY <1>2, <2>1, <2>2
<1>6. ASSUME NEW c \in Conn, Receiving(c)
      PROVE  RegistersOwnDescriptor'
  BY <1>2, <1>6 DEF Receiving, ConnAck, Refused, SubAck, PingResp, Command, Malformed
<1>7. QED
  BY <1>3, <1>4, <1>5, <1>6 DEF ClientStep

LEMMA RegDestroy ==
  ASSUME RegInv, NEW c \in Conn, DestroyStream(c)
  PROVE  RegistersOwnDescriptor'
<1>1. /\ server_fd[c] = NoFd /\ sock[c] \in Fd \union {NoFd}
      /\ poll_list \in Seq(Entry) /\ Unique(poll_list)
  BY DEF RegInv, TInv, LInv, LoopTypes, StreamTypes, OwnInv, FdTypes
<1>2. /\ owner' = CloseFd(owner, sock[c])
      /\ poll_list' = UnnotifyFd(poll_list, sock[c])
  BY <1>1 DEF DestroyStream, Destroy, CloseFd, UnnotifyFd
<1>3. \A e \in Range(poll_list') : e \in Range(poll_list) /\ (sock[c] # NoFd => e.fd # sock[c])
  BY <1>1, <1>2, UnnotifyFdIs
<1>4. \A e \in Range(poll_list') : \E old \in Range(poll_list) :
        /\ e.fd = old.fd /\ e.conn = old.conn
        /\ e.fd # sock[c] => e.cancelled = old.cancelled
        /\ e.fd = sock[c] /\ sock[c] # NoFd => e.cancelled
  BY <1>3
<1>5. QED
  BY <1>1, <1>2, <1>4, RegClose

LEMMA RegLoopStep ==
  ASSUME RegInv, LoopStep
  PROVE  RegistersOwnDescriptor'
<1>1. UNCHANGED owner
  BY LoopKeepsFds DEF fdVars
<1>2. CASE UNCHANGED poll_list
  BY <1>1, <1>2, RegFewer DEF RegInv
<1>3. CASE Answer
  <2>1. PICK n \in todo : poll_list' = Unnotify(poll_list, copy[n].fd, copy[n].dir)
    BY <1>3 DEF Answer
  <2>2. poll_list \in Seq(Entry) /\ Unique(poll_list)
    BY DEF RegInv, TInv, LInv, LoopTypes
  <2>3. \A e \in Range(poll_list') : e \in Range(poll_list)
    BY <2>1, <2>2, UnnotifyIs
  <2>4. QED
    BY <1>1, <2>3, RegFewer DEF RegInv
<1>4. QED
  BY <1>2, <1>3 DEF LoopStep, PingDue, Select, SelectTimeout, RunFunc, PassDone

LEMMA RegNext ==
  ASSUME ~Secure, RegInv, [Next]_vars
  PROVE  RegInv'
<1>1. TInv' /\ OwnInv'
  BY TypesNext, OwnNext DEF RegInv
<1>2. RegistersOwnDescriptor'
  <2>1. CASE \/ Join \/ Connect \/ Publish \/ Resolver \/ UNCHANGED vars
    <3>1. UNCHANGED <<poll_list, owner>>
      BY <2>1 DEF Join, Connect, Publish, Resolver, Resolved, vars, loopVars, streamVars
    <3>2. QED
      BY <3>1, RegFewer DEF RegInv
  <2>2. CASE StreamStep
    BY <2>2, RegStreamStep
  <2>3. CASE ClientStep
    BY <2>3, RegClientStep
  <2>4. CASE LoopStep
    BY <2>4, RegLoopStep
  <2>5. ASSUME NEW c \in Conn, DestroyStream(c)
        PROVE  RegistersOwnDescriptor'
    BY <2>5, RegDestroy
  <2>6. QED
    BY <2>1, <2>2, <2>3, <2>4, <2>5 DEF Next
<1>3. QED
  BY <1>1, <1>2 DEF RegInv

LEMMA RegInit == Init => RegInv
<1>1. ASSUME Init PROVE poll_list = <<>>
  BY <1>1 DEF Init, StreamInit
<1>2. ASSUME Init PROVE RegistersOwnDescriptor
  BY <1>1, <1>2 DEF RegistersOwnDescriptor, Range
<1>3. ASSUME Init PROVE OwnInv
  BY <1>3, StreamAssumption DEF Init, StreamInit, NoSocket, OwnInv, FdTypes, OwnsItsDescriptor,
     Conn, Fd, Free, NoFd
<1>4. QED
  BY <1>2, <1>3, TypesInit DEF RegInv

(* Over TCP nothing is registered for a descriptor of another stream, or   *)
(* for one that is closed, unless it is cancelled (on_resolved,            *)
(* do_write_async, do_read_async, close, ~Stream).                         *)
THEOREM TcpStreamsWatchTheirOwn ==
  ASSUME ~Secure
  PROVE  Spec => []RegistersOwnDescriptor
<1>1. Init => RegInv
  BY RegInit
<1>2. RegInv /\ [Next]_vars => RegInv'
  BY RegNext
<1>3. RegInv => RegistersOwnDescriptor
  BY DEF RegInv
<1> QED
  BY <1>1, <1>2, <1>3, PTL DEF Spec

-----------------------------------------------------------------------------
(* Sessions.  Answers for old streams are handled by the client's          *)
(* functions, which use the stream that the client has now; what keeps the *)
(* two apart is that a stream connects once, so that connect_cb and the    *)
(* first read come once for each, and that close leaves no stream up but   *)
(* the client's.                                                           *)

(* A stream that connects is at the resolver, or its answer is at the      *)
(* loop, or a step of its connecting runs, or it waits for its socket: it  *)
(* is in one of these places, and once.                                    *)
ConnectCall == {"on_resolved", "socket_on_connected", "on_handshake"}
Asked(c) == c \in Range(resolving)
Found(c) == \E n \in DOMAIN funcs : funcs[n].f = "resolved" /\ funcs[n].conn = c
Begun(c) == calls # <<>> /\ calls[1].call \in ConnectCall /\ calls[1].conn = c
Connects(e) == e.cb \in {"connect", "handshake"}
Awaited(c) == \E e \in Watched : Connects(e) /\ e.conn = c
Pending(c) == Asked(c) \/ Found(c) \/ Begun(c) \/ Awaited(c)

OneAsked == \A m, n \in DOMAIN resolving : resolving[m] = resolving[n] => m = n
OneFound ==
  \A m, n \in DOMAIN funcs :
    funcs[m].f = "resolved" /\ funcs[n].f = "resolved" /\ funcs[m].conn = funcs[n].conn => m = n
OneAwaited == \A a, b \in Watched : Connects(a) /\ Connects(b) /\ a.conn = b.conn => SameKey(a, b)
OnePlace(c) ==
  /\ Asked(c) => ~Found(c) /\ ~Begun(c) /\ ~Awaited(c)
  /\ Found(c) => ~Begun(c) /\ ~Awaited(c)
  /\ Begun(c) => ~Awaited(c)
OneConnect == OneAsked /\ OneFound /\ OneAwaited /\ \A c \in Conn : OnePlace(c)

(* A stream that connects is not up yet and nothing is read from it; nor   *)
(* is there anything about a stream that has not been made.                *)
Unread(c) == ~up[c] /\ \A e \in Watched : e.conn = c => e.cb # "read"
Untouched ==
  /\ current <= made
  /\ \A c \in Conn : /\ Pending(c) => c <= made /\ Unread(c)
                     /\ c > made => Unread(c) /\ session[c] = "new"

(* Only the client's stream is up and read from. *)
ReadsCurrent ==
  ~replaced =>
    /\ \A e \in Watched : e.cb = "read" /\ up[e.conn] => e.conn = current
    /\ Running("do_read") /\ up[calls[1].conn] => calls[1].conn = current

(* What the application is told is true while calls are still to be made,  *)
(* too, except that a stream found closed by a read has yet to be reported *)
(* to handle_error, by the calls that are next.                            *)
Knows ==
  ~replaced =>
    /\ ping_timer => HasSession
    /\ connected /\ ~upgrading =>
         HasSession /\ (up[current] \/ Running("read_cb") \/ Running("handle_error"))

SessionInv == TInv /\ OneConnect /\ Untouched /\ ReadsCurrent /\ Knows

(* The types that these lemmas need. *)
LEMMA SessionTypes ==
  ASSUME TInv
  PROVE  /\ made \in Nat /\ current \in Nat /\ current \in Conn \union {NoConn} /\ Conn \subseteq Nat \ {0}
         /\ NoConn = 0 /\ poll_list \in Seq(Entry) /\ copy \in Seq(Entry) /\ calls \in Seq(Call)
         /\ funcs \in Seq(Func) /\ resolving \in Seq(Conn) /\ up \in [Conn -> BOOLEAN]
         /\ session \in [Conn -> {"new", "open", "gone"}]
         /\ \A e \in Watched : e \in Entry /\ e.conn \in Conn
         /\ Behind /\ Unique(poll_list) /\ Unique(copy)
<1>1. Watched \subseteq Entry
  BY InRange DEF TInv, LInv, LoopTypes, Watched
<1>2. Conn \subseteq Nat \ {0}
  BY DEF Conn
<1>3. QED
  BY <1>1, <1>2, EntryFields DEF TInv, LInv, LoopTypes, StreamTypes, ClientTypes, NoConn

LEMMA NextWatched ==
  ASSUME TInv'
  PROVE  \A e \in Watched' : e \in Entry /\ e.conn \in Conn
<1>1. poll_list' \in Seq(Entry) /\ copy' \in Seq(Entry) /\ todo' \subseteq DOMAIN copy'
  BY DEF TInv, LInv, LoopTypes
<1>2. Watched' \subseteq Entry
  BY <1>1, InRange DEF Watched
<1>3. QED
  BY <1>2, EntryFields

LEMMA UntouchedKept ==
  ASSUME TInv, TInv', Untouched, made' \in {made, made + 1}, current' <= made',
         \A c \in Conn : Pending(c)' => Pending(c) \/ (c = made + 1 /\ made' = made + 1),
         \A c \in Conn : up'[c] => up[c] \/ (c <= made /\ ~Pending(c)'),
         \A c \in Conn : session'[c] # session[c] => c <= made,
         \A e \in Watched' : e.cb = "read" =>
           up[e.conn] \/ \E old \in Watched : old.cb = "read" /\ old.conn = e.conn
  PROVE  Untouched'
<1>1. /\ made \in Nat /\ Conn \subseteq Nat \ {0} /\ made <= made'
      /\ \A e \in Watched' : e.conn \in Conn
  BY SessionTypes, NextWatched
<1>2. ASSUME NEW c \in Conn, Unread(c), up'[c] => up[c]
      PROVE  Unread(c)'
  BY <1>2 DEF Unread
<1>3. ASSUME NEW c \in Conn, Pending(c)'
      PROVE  c <= made' /\ Unread(c)'
  <2>1. CASE Pending(c)
    <3>1. c <= made /\ Unread(c)
      BY <2>1 DEF Untouched
    <3>2. up'[c] => up[c]
      BY <1>3
    <3>3. QED
      BY <1>1, <1>2, <3>1, <3>2
  <2>2. CASE c = made + 1 /\ made' = made + 1
    <3>1. c > made /\ ~(c <= made) /\ c <= made'
      BY <1>1, <2>2
    <3>2. Unread(c)
      BY <3>1 DEF Untouched
    <3>3. QED
      BY <1>2, <3>1, <3>2
  <2>3. QED
    BY <1>3, <2>1, <2>2
<1>4. ASSUME NEW c \in Conn, c > made'
      PROVE  Unread(c)' /\ session'[c] = "new"
  <2>1. c > made /\ ~(c <= made)
    BY <1>1, <1>4
  <2>2. QED
    BY <1>2, <2>1 DEF Untouched
<1>5. QED
  BY <1>3, <1>4 DEF Untouched

LEMMA AppendedIs ==
  ASSUME NEW S, NEW seq \in Seq(S), NEW x \in S
  PROVE  /\ DOMAIN Append(seq, x) = 1..(Len(seq) + 1) /\ Append(seq, x)[Len(seq) + 1] = x
         /\ \A n \in 1..Len(seq) : Append(seq, x)[n] = seq[n]
         /\ Len(seq) \in Nat /\ DOMAIN seq = 1..Len(seq)
OBVIOUS

(* The stages that a step leaves as they are. *)
LEMMA OneFoundKept ==
  ASSUME TInv, OneFound,
         funcs' = funcs \/ \E f \in Func : f.f # "resolved" /\ funcs' = Append(funcs, f)
  PROVE  OneFound' /\ \A c \in Conn : Found(c)' => Found(c)
<1>1. CASE funcs' = funcs
  BY <1>1 DEF OneFound, Found
<1>2. ASSUME NEW f \in Func, f.f # "resolved", funcs' = Append(funcs, f)
      PROVE  OneFound' /\ \A c \in Conn : Found(c)' => Found(c)
  <2>1. \A n \in DOMAIN funcs' : funcs'[n].f = "resolved" => n \in DOMAIN funcs /\ funcs'[n] = funcs[n]
    <3>1. funcs \in Seq(Func) /\ Len(funcs) \in Nat /\ DOMAIN funcs = 1..Len(funcs)
      BY LenProperties DEF TInv, LInv, LoopTypes
    <3>2. /\ DOMAIN funcs' = 1..(Len(funcs) + 1) /\ funcs'[Len(funcs) + 1] = f
          /\ \A n \in 1..Len(funcs) : funcs'[n] = funcs[n]
      <4>1. funcs \in Seq(Func) /\ f \in Func
        BY <3>1, <1>2
      <4>2. /\ DOMAIN Append(funcs, f) = 1..(Len(funcs) + 1) /\ Append(funcs, f)[Len(funcs) + 1] = f
            /\ \A n \in 1..Len(funcs) : Append(funcs, f)[n] = funcs[n]
        BY <4>1, AppendedIs
      <4>3. QED
        BY <1>2, <4>2, Zenon
    <3>3. \A n \in 1..(Len(funcs) + 1) : n \in 1..Len(funcs) \/ n = Len(funcs) + 1
      BY <3>1
    <3>4. QED
      BY <1>2, <3>1, <3>2, <3>3
  <2>2. QED
    BY <2>1 DEF OneFound, Found
<1>3. QED
  BY <1>1, <1>2

LEMMA OneAwaitedKept ==
  ASSUME OneAwaited,
         \A e \in Watched' : Connects(e) =>
           \E old \in Watched : Connects(old) /\ SameKey(e, old) /\ e.conn = old.conn
  PROVE  OneAwaited' /\ \A c \in Conn : Awaited(c)' => Awaited(c)
<1>1. ASSUME NEW a \in Watched', NEW b \in Watched', Connects(a), Connects(b), a.conn = b.conn
      PROVE  SameKey(a, b)
  <2>1. PICK x \in Watched : Connects(x) /\ SameKey(a, x) /\ a.conn = x.conn
    BY <1>1
  <2>2. PICK y \in Watched : Connects(y) /\ SameKey(b, y) /\ b.conn = y.conn
    BY <1>1
  <2>3. SameKey(x, y)
    BY <1>1, <2>1, <2>2 DEF OneAwaited
  <2>4. QED
    BY <2>1, <2>2, <2>3 DEF SameKey
<1>2. QED
  BY <1>1 DEF OneAwaited, Awaited, SameKey, Connects

(* Steps that have no part in the connecting and reading of a stream. *)
Special == ConnectCall \union {"do_read"}
LEMMA PlainStep ==
  ASSUME SessionInv, TInv', UNCHANGED replaced, UNCHANGED <<resolving, made, current>>,
         funcs' = funcs \/ \E f \in Func : f.f # "resolved" /\ funcs' = Append(funcs, f),
         calls' # <<>> => calls'[1].call \notin Special,
         \A e \in Watched' : e.cb # "write" =>
           \E old \in Watched : SameKey(e, old) /\ e.cb = old.cb /\ e.conn = old.conn,
         \A c \in Conn : up'[c] => up[c],
         \A c \in Conn : session'[c] # session[c] => c <= made
  PROVE  OneConnect' /\ Untouched' /\ ReadsCurrent'
<1>1. TInv /\ OneConnect /\ Untouched /\ ReadsCurrent
  BY DEF SessionInv
<1>2. OneFound' /\ \A c \in Conn : Found(c)' => Found(c)
  BY <1>1, OneFoundKept DEF OneConnect
<1>3. OneAwaited' /\ \A c \in Conn : Awaited(c)' => Awaited(c)
  BY <1>1, OneAwaitedKept DEF OneConnect, Connects
<1>4. \A c \in Conn : ~Begun(c)'
  BY DEF Begun, Special
<1>5. OneAsked' /\ \A c \in Conn : Asked(c)' => Asked(c)
  BY <1>1 DEF OneConnect, OneAsked, Asked
<1>6. OneConnect' /\ \A c \in Conn : Pending(c)' => Pending(c)
  BY <1>1, <1>2, <1>3, <1>4, <1>5 DEF OneConnect, OnePlace, Pending
<1>7. Untouched'
  <2>1. current' <= made' /\ made' \in {made, made + 1}
    BY <1>1 DEF Untouched
  <2>2. \A e \in Watched' : e.cb = "read" => \E old \in Watched : old.cb = "read" /\ old.conn = e.conn
    OBVIOUS
  <2>3. QED
    BY <1>1, <1>6, <2>1, <2>2, UntouchedKept
<1>8. ReadsCurrent'
  <2>1. \A e \in Watched' : e.conn \in Conn
    BY NextWatched
  <2>2. ASSUME ~replaced, NEW e \in Watched', e.cb = "read", up'[e.conn]
        PROVE  e.conn = current'
    <3>1. PICK old \in Watched : old.cb = "read" /\ old.conn = e.conn
      BY <2>2
    <3>2. QED
      BY <1>1, <2>1, <2>2, <3>1 DEF ReadsCurrent
  <2>3. ~Running("do_read")'
    BY DEF Running, Special
  <2>4. QED
    BY <2>2, <2>3 DEF ReadsCurrent
<1>9. QED
  BY <1>6, <1>7, <1>8

LEMMA KnowsKept ==
  ASSUME TInv, Knows, UNCHANGED <<replaced, current, connected, upgrading, ping_timer>>,
         ~Running("read_cb"), ~Running("handle_error"),
         \A c \in Conn : (up[c] => up'[c]) /\ (session[c] = "open" => session'[c] = "open")
  PROVE  Knows'
<1>1. current # NoConn => current \in Conn
  BY SessionTypes
<1>2. HasSession => HasSession' /\ (up[current] => up'[current])
  BY <1>1 DEF HasSession
<1>3. QED
  BY <1>2 DEF Knows

(* Which call runs next. *)
LEMMA HeadOfConcat ==
  ASSUME NEW S, NEW s \in Seq(S), NEW t \in Seq(S), Len(s) > 0
  PROVE  s \o t # <<>> /\ (s \o t)[1] = s[1]
<1>1. /\ s \o t \in Seq(S) /\ Len(s \o t) = Len(s) + Len(t)
      /\ Len(s) \in Nat \ {0} /\ Len(t) \in Nat
  BY ConcatProperties, LenProperties
<1>2. 1 \in 1..(Len(s) + Len(t)) /\ 1 <= Len(s) /\ Len(s) + Len(t) # 0
  BY <1>1
<1>3. QED
  BY <1>1, <1>2, ConcatProperties, EmptySeq

LEMMA RunsFirst ==
  ASSUME TInv, calls # <<>>, NEW x, Calling(<<x>>) \/ \E y : Calling(<<x, y>>)
  PROVE  calls' # <<>> /\ calls'[1] = x
<1>1. Tail(calls) \in Seq(Call)
  BY HeadTailProperties DEF TInv, LInv, LoopTypes
<1>2. CASE Calling(<<x>>)
  <2> DEFINE S == Call \union {x}
             s == <<x>>
  <2>1. /\ s \in Seq(S) /\ Len(s) > 0 /\ s[1] = x /\ Tail(calls) \in Seq(S)
        /\ calls' = s \o Tail(calls)
    BY <1>1, <1>2 DEF Calling
  <2> HIDE DEF S, s
  <2>2. QED
    BY <2>1, HeadOfConcat
<1>3. ASSUME NEW y, Calling(<<x, y>>)
      PROVE  calls' # <<>> /\ calls'[1] = x
  <2> DEFINE S == Call \union {x, y}
             s == <<x, y>>
  <2>1. /\ s \in Seq(S) /\ Len(s) > 0 /\ s[1] = x /\ Tail(calls) \in Seq(S)
        /\ calls' = s \o Tail(calls)
    BY <1>1, <1>3 DEF Calling
  <2> HIDE DEF S, s
  <2>2. QED
    BY <2>1, HeadOfConcat
<1>4. QED
  BY <1>2, <1>3

LEMMA RunsBehind ==
  ASSUME TInv, calls # <<>>, Calling(<<>>), calls' # <<>>
  PROVE  calls'[1].call \in {"written", "handle_error", "read_packet"}
<1>1. /\ calls' = <<>> \o Tail(calls) /\ calls \in Seq(Call) /\ Len(calls) \in Nat
      /\ Tail(calls) \in Seq(Call) /\ Behind /\ Len(Tail(calls)) = Len(calls) - 1
      /\ \A n \in 1..(Len(calls) - 1) : Tail(calls)[n] = calls[n + 1]
  BY HeadTailProperties, LenProperties DEF Calling, TInv, LInv, LoopTypes
<1>2. calls' = Tail(calls)
  BY <1>1
<1>3. Len(Tail(calls)) > 0
  BY <1>1, <1>2, EmptySeq, LenProperties
<1>4. 1 \in 1..(Len(calls) - 1) /\ 2 \in 2..Len(calls) /\ 1 + 1 = 2
  BY <1>1, <1>3
<1>5. calls'[1] = calls[2]
  BY <1>1, <1>2, <1>4
<1>6. QED
  BY <1>1, <1>4, <1>5 DEF Behind

LEMMA RunsPlain ==
  ASSUME TInv, calls # <<>>,
         \/ Calling(<<>>)
         \/ \E x : x.call \notin Special /\ (Calling(<<x>>) \/ \E y : Calling(<<x, y>>))
  PROVE  calls' # <<>> => calls'[1].call \notin Special
<1>1. CASE Calling(<<>>)
  BY <1>1, RunsBehind DEF Special, ConnectCall
<1>2. CASE \E x : x.call \notin Special /\ (Calling(<<x>>) \/ \E y : Calling(<<x, y>>))
  BY <1>2, RunsFirst
<1>3. QED
  BY <1>1, <1>2

LEMMA WatchedSame ==
  ASSUME UNCHANGED <<passVars, poll_list>>
  PROVE  Watched' = Watched
BY DEF passVars, Watched

LEMMA PlainCall ==
  ASSUME SessionInv, TInv', UNCHANGED replaced, UNCHANGED <<passVars, poll_list, resolving, made, current>>,
         funcs' = funcs \/ \E f \in Func : f.f # "resolved" /\ funcs' = Append(funcs, f),
         calls' # <<>> => calls'[1].call \notin Special,
         \A c \in Conn : up'[c] => up[c],
         \A c \in Conn : session'[c] # session[c] => c <= made
  PROVE  OneConnect' /\ Untouched' /\ ReadsCurrent'
<1>1. Watched' = Watched
  BY WatchedSame
<1>2. QED
  BY <1>1, PlainStep DEF SameKey

(* The session and the client's stream are left alone, too. *)
LEMMA QuietCall ==
  ASSUME SessionInv, TInv', UNCHANGED replaced, calls # <<>>,
         UNCHANGED <<passVars, poll_list, resolving, made, up>>,
         UNCHANGED <<current, connected, upgrading, ping_timer, session>>,
         ~Running("read_cb"), ~Running("handle_error"),
         funcs' = funcs \/ \E f \in Func : f.f # "resolved" /\ funcs' = Append(funcs, f),
         \/ Calling(<<>>)
         \/ \E x : x.call \notin Special /\ (Calling(<<x>>) \/ \E y : Calling(<<x, y>>))
  PROVE  SessionInv'
<1>1. TInv /\ Knows
  BY DEF SessionInv
<1>2. calls' # <<>> => calls'[1].call \notin Special
  BY <1>1, RunsPlain
<1>3. OneConnect' /\ Untouched' /\ ReadsCurrent'
  BY <1>2, PlainCall
<1>4. Knows'
  BY <1>1, KnowsKept
<1>5. QED
  BY <1>3, <1>4 DEF SessionInv

LEMMA ConnectDoneSession ==
  ASSUME SessionInv, TInv', UNCHANGED replaced, ConnectDone
  PROVE  SessionInv'
<1>1. /\ calls # <<>> /\ calls[1].call = "connect_cb"
      /\ UNCHANGED <<passVars, poll_list, funcs, streamVars, clientVars, made, worldVars>>
      /\ \/ Calling(<<[call |-> "send", op |-> "connect"]>>)
         \/ Calling(<<Fail(calls[1].ec)>>)
  BY DEF ConnectDone, Running
<1>2. \E x : x.call \notin Special /\ Calling(<<x>>)
  <2>1. /\ [call |-> "send", op |-> "connect"].call \notin Special
        /\ Fail(calls[1].ec).call \notin Special
    BY DEF Fail, Special, ConnectCall
  <2>2. QED
    BY <1>1, <2>1
<1>3. ~Running("read_cb") /\ ~Running("handle_error")
  BY <1>1 DEF Running
<1>4. /\ UNCHANGED <<passVars, poll_list, resolving, made, up>>
      /\ UNCHANGED <<current, connected, upgrading, ping_timer, session>>
      /\ funcs' = funcs
  BY <1>1 DEF streamVars, clientVars, worldVars
<1>5. QED
  BY <1>1, <1>2, <1>3, <1>4, QuietCall

LEMMA SendSession ==
  ASSUME SessionInv, TInv', UNCHANGED replaced, Send
  PROVE  SessionInv'
<1>1. /\ calls # <<>> /\ calls[1].call = "send"
      /\ UNCHANGED <<passVars, poll_list, streamVars, clientVars, made, sends, upgrading, server, session>>
  BY DEF Send, Running
<1>2. calls[1].op \in Op /\ current \in Conn \union {NoConn}
  BY <1>1, RunningIs, CallFields, SessionTypes DEF SessionInv
<1>3. /\ \/ Calling(<<>>) 
         \/ Calling(<<WriteCb(calls[1].op, "ConnectionClosed")>>)
      /\ \/ funcs' = funcs
         \/ funcs' = Append(funcs, Write(current, calls[1].op)) /\ current # NoConn
  BY DEF Send
<1>4. funcs' = funcs \/ \E f \in Func : f.f # "resolved" /\ funcs' = Append(funcs, f)
  <2>1. current # NoConn => /\ Write(current, calls[1].op) \in Func
                            /\ Write(current, calls[1].op).f # "resolved"
    BY <1>2, FuncMembers DEF Write
  <2>2. QED
    BY <1>3, <2>1
<1>5. WriteCb(calls[1].op, "ConnectionClosed").call \notin Special
  BY DEF WriteCb, Special, ConnectCall
<1>6. \/ Calling(<<>>)
      \/ \E x : x.call \notin Special /\ (Calling(<<x>>) \/ \E y : Calling(<<x, y>>))
  BY <1>3, <1>5
<1>7. ~Running("read_cb") /\ ~Running("handle_error")
  BY <1>1 DEF Running
<1>8. /\ UNCHANGED <<passVars, poll_list, resolving, made, up>>
      /\ UNCHANGED <<current, connected, upgrading, ping_timer, session>>
  BY <1>1 DEF streamVars, clientVars
<1>9. QED
  BY <1>1, <1>4, <1>6, <1>7, <1>8, QuietCall

LEMMA WriteDoneSession ==
  ASSUME SessionInv, TInv', UNCHANGED replaced, WriteDone
  PROVE  SessionInv'
<1>1. /\ calls # <<>> /\ calls[1].call = "write_cb"
      /\ UNCHANGED <<passVars, poll_list, funcs, streamVars, current, connected, ping_timer, made, worldVars>>
  BY DEF WriteDone, Running
<1>2. /\ \A e : Fail(e).call \notin Special
      /\ [call |-> "read_packet"].call \notin Special
  BY DEF Fail, Special, ConnectCall
<1>3. \/ Calling(<<>>)
      \/ \E x : x.call \notin Special /\ (Calling(<<x>>) \/ \E y : Calling(<<x, y>>))
  BY <1>2, WriteDoneCalls
<1>4. ~Running("read_cb") /\ ~Running("handle_error")
  BY <1>1 DEF Running
<1>5. /\ UNCHANGED <<passVars, poll_list, resolving, made, up>>
      /\ UNCHANGED <<current, connected, upgrading, ping_timer, session>>
      /\ funcs' = funcs
  BY <1>1 DEF streamVars, worldVars
<1>6. QED
  BY <1>1, <1>3, <1>4, <1>5, QuietCall

(* The client reads from the stream that it has. *)
LEMMA ReadPacketSession ==
  ASSUME SessionInv, TInv', UNCHANGED replaced, ReadPacket
  PROVE  SessionInv'
<1>1. /\ calls # <<>> /\ calls[1].call = "read_packet"
      /\ UNCHANGED <<passVars, poll_list, resolving, made, up>>
      /\ UNCHANGED <<current, connected, upgrading, ping_timer, session>>
      /\ UNCHANGED funcs /\ TInv
      /\ ~Running("read_cb") /\ ~Running("handle_error")
  BY DEF ReadPacket, Running, SessionInv, streamVars, clientVars
<1>2. CASE Calling(<<>>)
  BY <1>1, <1>2, QuietCall
<1>3. CASE Calling(<<[call |-> "do_read", conn |-> current]>>)
  <2>1. calls' # <<>> /\ calls'[1] = [call |-> "do_read", conn |-> current]
    BY <1>1, <1>3, RunsFirst
  <2>2. OneFound' /\ OneAwaited' /\ OneAsked' /\ Watched' = Watched
        /\ \A c \in Conn : /\ Found(c)' => Found(c)
                           /\ Awaited(c)' => Awaited(c)
                           /\ Asked(c)' => Asked(c)
                           /\ ~Begun(c)'
    <3>1. Watched' = Watched
      BY <1>1, WatchedSame
    <3>2. \A c \in Conn : ~Begun(c)'
      BY <2>1 DEF Begun, ConnectCall
    <3>3. QED
      BY <1>1, <3>1, <3>2 DEF SessionInv, OneConnect, OneFound, OneAwaited, OneAsked, Found, Awaited, Asked,
                              SameKey, Connects
  <2>3. OneConnect' /\ \A c \in Conn : Pending(c)' => Pending(c)
    BY <2>2 DEF SessionInv, OneConnect, OnePlace, Pending
  <2>4. Untouched'
    BY <1>1, <2>2, <2>3, UntouchedKept DEF SessionInv, Untouched
  <2>5. ReadsCurrent'
    BY <1>1, <2>1, <2>2 DEF SessionInv, ReadsCurrent, Running
  <2>6. Knows'
    BY <1>1, KnowsKept DEF SessionInv
  <2>7. QED
    BY <2>3, <2>4, <2>5, <2>6 DEF SessionInv
<1>4. QED
  BY <1>2, <1>3 DEF ReadPacket

(* An error of a read reaches handle_error before anything else. *)
LEMMA ReadFailedSession ==
  ASSUME SessionInv, TInv', UNCHANGED replaced, ReadFailed
  PROVE  SessionInv'
<1>1. /\ calls # <<>> /\ TInv
      /\ UNCHANGED <<passVars, poll_list, resolving, made, current>>
      /\ UNCHANGED <<connected, upgrading, ping_timer, session, up, funcs>>
      /\ Calling(<<Fail(calls[1].ec)>>)
  BY DEF ReadFailed, Running, streamVars, clientVars, worldVars, SessionInv
<1>2. calls' # <<>> /\ calls'[1] = Fail(calls[1].ec)
  BY <1>1, RunsFirst
<1>3. calls'[1].call = "handle_error"
  BY <1>2 DEF Fail
<1>4. OneConnect' /\ Untouched' /\ ReadsCurrent'
  BY <1>1, <1>3, PlainCall DEF Special, ConnectCall
<1>5. Knows'
  BY <1>1, <1>2, <1>3 DEF SessionInv, Knows, HasSession, Running
<1>6. QED
  BY <1>4, <1>5 DEF SessionInv

LEMMA ReadingSession ==
  ASSUME SessionInv, TInv', UNCHANGED replaced, NEW c \in Conn, Reading(c)
  PROVE  SessionInv'
<1>1. /\ calls # <<>> /\ calls[1].call = "do_read" /\ calls[1].conn = c /\ TInv
      /\ UNCHANGED passVars /\ UNCHANGED <<copy, todo>>
      /\ UNCHANGED <<resolving, made, current, connected, upgrading, ping_timer, session, funcs>>
      /\ ~Running("read_cb") /\ ~Running("handle_error")
  BY DEF Reading, ReadClosed, ReadError, ReadAgain, RunningFor, Running, passVars, streamVars,
         clientVars, worldVars, SessionInv
<1>2. CASE ReadClosed(c, Leaves(c))
  <2>1. /\ up' = [up EXCEPT ![c] = FALSE] /\ Calling(<<ReadCb("ConnectionClosed")>>)
        /\ UNCHANGED poll_list
    BY <1>2 DEF ReadClosed
  <2>2. calls' # <<>> /\ calls'[1].call = "read_cb"
    BY <1>1, <2>1, RunsFirst DEF ReadCb
  <2>3. \A d \in Conn : up'[d] => up[d]
    BY <1>1, <2>1, SessionTypes
  <2>4. OneConnect' /\ Untouched' /\ ReadsCurrent'
    BY <1>1, <2>1, <2>2, <2>3, PlainCall DEF Special, ConnectCall
  <2>5. Knows'
    BY <1>1, <2>2 DEF SessionInv, Knows, HasSession, Running
  <2>6. QED
    BY <2>4, <2>5 DEF SessionInv
<1>3. CASE ReadError(c)
  <2>1. Calling(<<ReadCb("ReadError")>>) /\ UNCHANGED <<poll_list, up>>
    BY <1>3 DEF ReadError, streamVars
  <2>2. ReadCb("ReadError").call \notin Special
    BY DEF ReadCb, Special, ConnectCall
  <2>3. QED
    BY <1>1, <2>1, <2>2, QuietCall
<1>4. CASE ReadAgain(c)
  <2>1. /\ up[c] /\ UNCHANGED up /\ Calling(<<>>)
        /\ poll_list' = Notify(poll_list, sock[c], "read", "read", c)
        /\ sock[c] \in Fd \union {NoFd} /\ "read" \in Dir /\ "read" \in Purpose
    BY <1>1, <1>4 DEF ReadAgain, streamVars, TInv, StreamTypes, Dir, Purpose
  <2>2. ~replaced => c = current
    BY <1>1, <2>1 DEF SessionInv, ReadsCurrent, Running
  <2>3. \A e \in Watched' : e \in Watched \/ (e.cb = "read" /\ e.conn = c)
    <3> DEFINE fd == sock[c]
    <3>1. poll_list \in Seq(Entry) /\ Unique(poll_list) /\ fd \in Fd \union {NoFd}
      BY <1>1, <2>1, SessionTypes
    <3>2. /\ poll_list' = Notify(poll_list, fd, "read", "read", c)
          /\ UNCHANGED <<copy, todo>> /\ "read" \in Dir /\ "read" \in Purpose
      BY <1>1, <2>1
    <3> HIDE DEF fd
    <3>3. \A e \in Watched' :
            e \in Watched \/ (e.fd = fd /\ e.dir = "read" /\ e.cb = "read" /\ e.conn = c)
      BY <3>1, <3>2, WatchedNotify
    <3>4. QED
      BY <3>3
  <2>4. calls' # <<>> => calls'[1].call \notin Special
    BY <1>1, <2>1, RunsPlain
  <2>5. /\ OneFound' /\ OneAwaited' /\ OneAsked'
        /\ \A d \in Conn : /\ Found(d)' => Found(d)
                           /\ Awaited(d)' => Awaited(d)
                           /\ Asked(d)' => Asked(d)
                           /\ ~Begun(d)'
    <3>1. \A e \in Watched' : Connects(e) => e \in Watched
      BY <2>3 DEF Connects
    <3>2. \A d \in Conn : ~Begun(d)'
      BY <2>4 DEF Begun, Special
    <3>3. QED
      BY <1>1, <3>1, <3>2 DEF SessionInv, OneConnect, OneFound, OneAwaited, OneAsked, Found, Awaited, Asked,
                              SameKey, Connects
  <2>6. OneConnect' /\ \A d \in Conn : Pending(d)' => Pending(d)
    BY <2>5 DEF SessionInv, OneConnect, OnePlace, Pending
  <2>7. \A e \in Watched' : e.cb = "read" =>
          up[e.conn] \/ \E old \in Watched : old.cb = "read" /\ old.conn = e.conn
    BY <2>1, <2>3
  <2>8. Untouched'
    BY <1>1, <2>1, <2>6, <2>7, UntouchedKept DEF SessionInv, Untouched
  <2>9. ReadsCurrent'
    BY <1>1, <2>1, <2>2, <2>3, <2>4 DEF SessionInv, ReadsCurrent, Running, Special
  <2>10. Knows'
    BY <1>1, <2>1, KnowsKept DEF SessionInv
  <2>11. QED
    BY <2>6, <2>8, <2>9, <2>10 DEF SessionInv
<1>5. QED
  BY <1>2, <1>3, <1>4 DEF Reading

(* What arrives, arrives for the client's stream. *)
LEMMA ReceivesCurrent ==
  ASSUME SessionInv, NEW c \in Conn, RunningFor(c, "do_read"), up[c]
  PROVE  /\ ~replaced => c = current
         /\ c # NoConn /\ c <= made /\ calls # <<>>
         /\ ~Running("read_cb") /\ ~Running("handle_error")
<1>1. /\ ~replaced => c = current
      /\ calls # <<>> /\ ~Running("read_cb") /\ ~Running("handle_error")
  BY DEF SessionInv, ReadsCurrent, RunningFor, Running
<1>2. made \in Nat /\ Conn \subseteq Nat \ {0} /\ NoConn = 0
  BY SessionTypes DEF SessionInv
<1>3. c <= made
  <2>1. ~(c > made)
    BY DEF SessionInv, Untouched, Unread
  <2>2. QED
    BY <1>2, <2>1
<1>4. QED
  BY <1>1, <1>2, <1>3

LEMMA ReceivingSession ==
  ASSUME SessionInv, TInv', UNCHANGED replaced, NEW c \in Conn, Receiving(c)
  PROVE  SessionInv'
<1>1. RunningFor(c, "do_read") /\ up[c]
  BY DEF Receiving, ConnAck, Refused, SubAck, PingResp, Command, Malformed, Receive
<1>2. /\ ~replaced => c = current
      /\ c # NoConn /\ c <= made /\ calls # <<>> /\ TInv
      /\ ~Running("read_cb") /\ ~Running("handle_error")
  BY <1>1, ReceivesCurrent DEF SessionInv
<1>3. /\ UNCHANGED <<passVars, poll_list, resolving, made, up>>
      /\ UNCHANGED <<current, upgrading>>
  BY DEF Receiving, ConnAck, Refused, SubAck, PingResp, Command, Malformed, streamVars, clientVars,
         worldVars
<1>4. \/ Calling(<<>>)
      \/ \E x : x.call \notin Special /\ (Calling(<<x>>) \/ \E y : Calling(<<x, y>>))
  <2>1. /\ [call |-> "read_packet"].call \notin Special
        /\ [call |-> "send", op |-> "subscribe"].call \notin Special
        /\ Fail("ProtocolError").call \notin Special
    BY DEF Fail, Special, ConnectCall
  <2>2. /\ <<Fail("ProtocolError")>> \o ReadNext = <<Fail("ProtocolError"), [call |-> "read_packet"]>>
        /\ <<[call |-> "send", op |-> "subscribe"]>> \o ReadNext
             = <<[call |-> "send", op |-> "subscribe"], [call |-> "read_packet"]>>
    BY Joined DEF ReadNext
  <2>3. \/ Calling(ReadNext) \/ Calling(<<Fail("ProtocolError")>>)
        \/ Calling(<<Fail("ProtocolError")>> \o ReadNext)
        \/ Calling(<<[call |-> "send", op |-> "subscribe"]>> \o ReadNext)
    BY DEF Receiving, ConnAck, Refused, SubAck, PingResp, Command, Malformed
  <2>4. QED
    BY <2>1, <2>2, <2>3 DEF ReadNext
<1>5. calls' # <<>> => calls'[1].call \notin Special
  BY <1>2, <1>4, RunsPlain
<1>6. CASE ConnAck(c) \/ Refused(c) \/ SubAck(c)
  <2>1. /\ UNCHANGED funcs
        /\ \A d \in Conn : session'[d] # session[d] => d <= made
    BY <1>2, <1>6, SessionTypes DEF ConnAck, Refused, SubAck
  <2>2. OneConnect' /\ Untouched' /\ ReadsCurrent'
    BY <1>3, <1>5, <2>1, PlainCall
  <2>3. Knows'
    <3>1. CASE ConnAck(c)
      <4>1. session' = [session EXCEPT ![c] = "open"]
        BY <3>1 DEF ConnAck
      <4>2. ~replaced => HasSession' /\ up'[current']
        BY <1>1, <1>2, <1>3, <4>1, SessionTypes DEF HasSession
      <4>3. QED
        BY <4>2 DEF Knows
    <3>2. CASE Refused(c)
      <4>1. session[c] = "new" /\ UNCHANGED <<connected, ping_timer>>
        BY <3>2 DEF Refused, clientVars
      <4>2. ~replaced => ~HasSession
        BY <1>2, <4>1 DEF HasSession
      <4>3. QED
        BY <1>3, <4>1, <4>2 DEF Knows, SessionInv
    <3>3. CASE SubAck(c)
      <4>1. session[c] = "open" /\ UNCHANGED session
        BY <3>3 DEF SubAck
      <4>2. ~replaced => HasSession' /\ up'[current']
        BY <1>1, <1>2, <1>3, <4>1, SessionTypes DEF HasSession
      <4>3. QED
        BY <4>2 DEF Knows
    <3>4. QED
      BY <1>6, <3>1, <3>2, <3>3
  <2>4. QED
    BY <2>2, <2>3 DEF SessionInv
<1>7. CASE PingResp(c) \/ Command(c) \/ Malformed(c)
  <2>1. UNCHANGED <<connected, ping_timer, session>>
    BY <1>7 DEF PingResp, Command, Malformed, clientVars, worldVars
  <2>2. funcs' = funcs \/ \E f \in Func : f.f # "resolved" /\ funcs' = Append(funcs, f)
    <3>1. /\ Invoked([call |-> "upgrade"]) \in Func
          /\ Invoked([call |-> "upgrade"]).f # "resolved"
      <4>1. [call |-> "upgrade"] \in Call /\ [call |-> "upgrade"].call = "upgrade"
        BY DEF Call
      <4>2. QED
        BY <4>1, FuncMembers DEF Invoked
    <3>2. QED
      BY <1>7, <3>1 DEF PingResp, Command, Malformed
  <2>3. QED
    BY <1>2, <1>3, <1>4, <2>1, <2>2, QuietCall
<1>8. QED
  BY <1>6, <1>7 DEF Receiving

LEMMA WritingSession ==
  ASSUME SessionInv, TInv', UNCHANGED replaced, NEW c \in Conn, Writing(c)
  PROVE  SessionInv'
<1>1. PICK result \in {"done", "again", "write_error"} : DoWrite(c, result)
  BY DEF Writing
<1>2. /\ UNCHANGED <<resolving, made, current, connected, upgrading, ping_timer, session, up, funcs>>
      /\ UNCHANGED <<copy, todo>> /\ calls # <<>> /\ calls[1].call = "do_write" /\ TInv
      /\ sock[c] \in Fd \union {NoFd}
  BY <1>1 DEF Writing, DoWrite, RunningFor, Running, passVars, streamVars, clientVars, SessionInv,
              TInv, StreamTypes
<1>3. \/ /\ Calling(<<>>)
         /\ poll_list' = Notify(poll_list, sock[c], "write", "write", c)
      \/ /\ \E e : Calling(<<WriteCb(Head(write_op_queue[c]), e), [call |-> "written", conn |-> c]>>)
         /\ UNCHANGED poll_list
  BY <1>1 DEF DoWrite
<1>4. calls' # <<>> => calls'[1].call \notin Special
  <2>1. \A op, e : WriteCb(op, e).call \notin Special
    BY DEF WriteCb, Special, ConnectCall
  <2>2. QED
    BY <1>2, <1>3, <2>1, RunsPlain
<1>5. \A e \in Watched' : e.cb # "write" => e \in Watched
  <2>1. CASE UNCHANGED poll_list
    BY <1>2, <2>1 DEF Watched
  <2>2. CASE poll_list' = Notify(poll_list, sock[c], "write", "write", c)
    <3> DEFINE fd == sock[c]
    <3>1. poll_list \in Seq(Entry) /\ Unique(poll_list) /\ fd \in Fd \union {NoFd}
      BY <1>2, SessionTypes
    <3>2. /\ poll_list' = Notify(poll_list, fd, "write", "write", c)
          /\ UNCHANGED <<copy, todo>> /\ "write" \in Dir /\ "write" \in Purpose
      BY <1>2, <2>2 DEF Dir, Purpose
    <3> HIDE DEF fd
    <3>3. \A e \in Watched' :
            e \in Watched \/ (e.fd = fd /\ e.dir = "write" /\ e.cb = "write" /\ e.conn = c)
      BY <3>1, <3>2, WatchedNotify
    <3>4. QED
      BY <3>3
  <2>3. QED
    BY <1>3, <2>1, <2>2
<1>6. OneConnect' /\ Untouched' /\ ReadsCurrent'
  BY <1>2, <1>4, <1>5, PlainStep DEF SameKey
<1>7. Knows'
  BY <1>2, KnowsKept DEF SessionInv, Running
<1>8. QED
  BY <1>6, <1>7 DEF SessionInv

-----------------------------------------------------------------------------
(* Another stream, or none. *)

LEMMA NewStreamAsks ==
  ASSUME SessionInv, NewStream
  PROVE  /\ made' = made + 1 /\ current' = made'
         /\ OneAsked' /\ \A c \in Conn : Asked(c)' => Asked(c) \/ c = made + 1
<1>1. /\ made' = made + 1 /\ current' = made + 1 /\ made \in Nat
      /\ resolving \in Seq(Conn) /\ resolving' = Append(resolving, made + 1)
      /\ Conn \subseteq Nat /\ made + 1 \in Conn
  <2>1. MaxConn \in Nat /\ made < MaxConn /\ made \in Nat
    BY StreamAssumption, SessionTypes DEF NewStream, SessionInv
  <2>2. made + 1 \in Conn
    BY <2>1, SMT DEF Conn
  <2>3. QED
    BY <2>1, <2>2, SessionTypes DEF NewStream, SessionInv
<1>2. /\ DOMAIN resolving' = 1..(Len(resolving) + 1) /\ resolving'[Len(resolving) + 1] = made + 1
      /\ \A n \in 1..Len(resolving) : resolving'[n] = resolving[n]
      /\ Len(resolving) \in Nat /\ DOMAIN resolving = 1..Len(resolving)
  <2>1. /\ DOMAIN Append(resolving, made + 1) = 1..(Len(resolving) + 1)
        /\ Append(resolving, made + 1)[Len(resolving) + 1] = made + 1
        /\ \A n \in 1..Len(resolving) : Append(resolving, made + 1)[n] = resolving[n]
        /\ Len(resolving) \in Nat /\ DOMAIN resolving = 1..Len(resolving)
    BY <1>1, AppendedIs
  <2>2. QED
    BY <1>1, <2>1, Zenon
<1>3. \A n \in DOMAIN resolving : resolving[n] # made + 1
  <2>1. ASSUME NEW n \in DOMAIN resolving, resolving[n] = made + 1
        PROVE  FALSE
    <3>1. Asked(made + 1)
      BY <2>1 DEF Asked, Range
    <3>2. made + 1 <= made
      BY <1>1, <3>1 DEF SessionInv, Untouched, Pending
    <3>3. QED
      BY <1>1, <3>2
  <2>2. QED
    BY <2>1
<1>4. OneAsked'
  <2>1. OneAsked
    BY DEF SessionInv, OneConnect
  <2>2. \A n \in DOMAIN resolving' : n \in DOMAIN resolving \/ n = Len(resolving) + 1
    BY <1>2
  <2>3. ASSUME NEW m \in DOMAIN resolving', NEW n \in DOMAIN resolving', resolving'[m] = resolving'[n]
        PROVE  m = n
    BY <1>2, <1>3, <2>1, <2>2, <2>3 DEF OneAsked
  <2>4. QED
    BY <2>3 DEF OneAsked
<1>5. \A c \in Conn : Asked(c)' => Asked(c) \/ c = made + 1
  <2>1. \A n \in DOMAIN resolving' : n \in DOMAIN resolving \/ n = Len(resolving) + 1
    BY <1>2
  <2>2. QED
    BY <1>2, <2>1 DEF Asked, Range
<1>6. QED
  BY <1>1, <1>4, <1>5

(* A new stream is pending, and no other than before. *)
LEMMA NewStreamPending ==
  ASSUME SessionInv, TInv', NewStream,
         OneFound' /\ \A c \in Conn : Found(c)' => Found(c),
         calls' # <<>> => calls'[1].call \notin Special,
         Watched' = Watched, \A c \in Conn : up'[c] => up[c], UNCHANGED session
  PROVE  OneConnect' /\ Untouched'
<1>1. /\ made' = made + 1 /\ current' = made' /\ made \in Nat
      /\ OneAsked' /\ \A c \in Conn : Asked(c)' => Asked(c) \/ c = made + 1
  BY NewStreamAsks, SessionTypes DEF SessionInv
<1>2. OneAwaited' /\ \A c \in Conn : (Awaited(c)' => Awaited(c)) /\ ~Begun(c)'
  BY DEF SessionInv, OneConnect, OneAwaited, Awaited, Begun, Special, SameKey, Connects
<1>3. \A c \in Conn : Pending(c) => c # made + 1
  <2>1. ASSUME NEW c \in Conn, Pending(c)
        PROVE  c # made + 1
    <3>1. c <= made
      BY <2>1 DEF SessionInv, Untouched
    <3>2. QED
      BY <1>1, <3>1
  <2>2. QED
    BY <2>1
<1>4. \A c \in Conn : OnePlace(c)' /\ (Pending(c)' => Pending(c) \/ (c = made + 1 /\ made' = made + 1))
  BY <1>1, <1>2, <1>3 DEF SessionInv, OneConnect, OnePlace, Pending
<1>5. current' <= made'
  BY <1>1
<1>6. Untouched'
  BY <1>1, <1>4, <1>5, UntouchedKept DEF SessionInv
<1>7. QED
  BY <1>1, <1>2, <1>4, <1>6 DEF OneConnect

LEMMA DropStreamKeeps ==
  ASSUME SessionInv, DropStream
  PROVE  /\ OneFound' /\ \A c \in Conn : Found(c)' => Found(c)
         /\ funcs' = funcs \/ \E f \in Func : f.f # "resolved" /\ funcs' = Append(funcs, f)
         /\ \A c \in Conn : up'[c] => up[c] /\ c # current
         /\ ping_timer' = FALSE
<1>1. up \in [Conn -> BOOLEAN] /\ current \in Conn \union {NoConn} /\ NoConn \notin Conn /\ TInv
  <2>1. TInv
    BY DEF SessionInv
  <2>2. QED
    BY <2>1, SessionTypes
<1>2. funcs' = funcs \/ \E f \in Func : f.f # "resolved" /\ funcs' = Append(funcs, f)
  <2>1. current # NoConn => /\ [f |-> "close", conn |-> current] \in Func
                            /\ [f |-> "close", conn |-> current].f # "resolved"
    BY <1>1, FuncMembers
  <2>2. QED
    BY <2>1 DEF DropStream, Closing
<1>3. OneFound' /\ \A c \in Conn : Found(c)' => Found(c)
  BY <1>1, <1>2, OneFoundKept DEF SessionInv, OneConnect
<1>4. \A c \in Conn : up'[c] => up[c] /\ c # current
  BY <1>1 DEF DropStream
<1>5. QED
  BY <1>2, <1>3, <1>4 DEF DropStream

(* Without its stream the client reads from none that is up. *)
LEMMA NoneIsRead ==
  ASSUME SessionInv, TInv', UNCHANGED replaced, Watched' = Watched, calls' # <<>> => calls'[1].call \notin Special,
         \A c \in Conn : up'[c] => up[c] /\ c # current
  PROVE  ReadsCurrent'
<1>1. ASSUME ~replaced, NEW e \in Watched', e.cb = "read", up'[e.conn]
      PROVE  FALSE
  <2>1. e.conn \in Conn /\ e \in Watched
    BY <1>1, NextWatched
  <2>2. QED
    BY <1>1, <2>1 DEF SessionInv, ReadsCurrent
<1>2. QED
  BY <1>1 DEF ReadsCurrent, Running, Special

LEMMA HandleErrorSession ==
  ASSUME SessionInv, TInv', UNCHANGED replaced, HandleError
  PROVE  SessionInv'
<1>1. /\ calls # <<>> /\ Calling(<<>>) /\ UNCHANGED <<passVars, poll_list>> /\ UNCHANGED session
      /\ connected' = FALSE /\ DropStream /\ TInv
      /\ \/ current' = NoConn /\ UNCHANGED <<made, resolving>>
         \/ NewStream
  BY DEF HandleError, Running, worldVars, SessionInv
<1>2. calls' # <<>> => calls'[1].call \notin Special
  BY <1>1, RunsPlain
<1>3. Watched' = Watched
  BY <1>1, WatchedSame
<1>4. /\ OneFound' /\ \A c \in Conn : Found(c)' => Found(c)
      /\ \A c \in Conn : up'[c] => up[c] /\ c # current
      /\ ping_timer' = FALSE
  BY <1>1, DropStreamKeeps
<1>5. ReadsCurrent'
  BY <1>2, <1>3, <1>4, NoneIsRead
<1>6. Knows'
  BY <1>1, <1>4 DEF Knows
<1>7. CASE NewStream
  <2>1. OneConnect' /\ Untouched'
    BY <1>1, <1>2, <1>3, <1>4, <1>7, NewStreamPending
  <2>2. QED
    BY <1>5, <1>6, <2>1 DEF SessionInv
<1>8. CASE current' = NoConn /\ UNCHANGED <<made, resolving>>
  <2>1. OneConnect' /\ \A c \in Conn : Pending(c)' => Pending(c)
    BY <1>2, <1>3, <1>4, <1>8 DEF SessionInv, OneConnect, OneAsked, OneAwaited, OnePlace, Pending,
                                  Asked, Awaited, Begun, Special, SameKey, Connects
  <2>2. current' <= made' /\ made \in Nat
    BY <1>1, <1>8, SessionTypes
  <2>3. Untouched'
    BY <1>1, <1>3, <1>4, <1>8, <2>1, <2>2, UntouchedKept DEF SessionInv
  <2>4. QED
    BY <1>5, <1>6, <2>1, <2>3 DEF SessionInv
<1>9. QED
  BY <1>1, <1>7, <1>8

LEMMA UpgradeSession ==
  ASSUME SessionInv, TInv', UNCHANGED replaced, Upgrade
  PROVE  SessionInv'
<1>1. /\ calls # <<>> /\ Calling(<<>>) /\ UNCHANGED <<passVars, poll_list>> /\ UNCHANGED session
      /\ UNCHANGED <<made, resolving, connected>> /\ TInv /\ calls[1].call = "upgrade"
  BY DEF Upgrade, Running, SessionInv
<1>2. calls' # <<>> => calls'[1].call \notin Special
  BY <1>1, RunsPlain
<1>3. Watched' = Watched
  BY <1>1, WatchedSame
<1>4. CASE DropStream /\ current' = NoConn /\ upgrading' = TRUE
  <2>1. /\ OneFound' /\ \A c \in Conn : Found(c)' => Found(c)
        /\ \A c \in Conn : up'[c] => up[c] /\ c # current
        /\ ping_timer' = FALSE
    BY <1>4, DropStreamKeeps
  <2>2. ReadsCurrent'
    BY <1>2, <1>3, <2>1, NoneIsRead
  <2>3. Knows'
    BY <1>4, <2>1 DEF Knows
  <2>4. OneConnect' /\ \A c \in Conn : Pending(c)' => Pending(c)
    BY <1>1, <1>2, <1>3, <2>1 DEF SessionInv, OneConnect, OneAsked, OneAwaited, OnePlace, Pending,
                                  Asked, Awaited, Begun, Special, SameKey, Connects
  <2>5. current' <= made' /\ made \in Nat
    BY <1>1, <1>4, SessionTypes
  <2>6. Untouched'
    BY <1>1, <1>3, <2>1, <2>4, <2>5, UntouchedKept DEF SessionInv
  <2>7. QED
    BY <2>2, <2>3, <2>4, <2>6 DEF SessionInv
<1>5. CASE UNCHANGED <<funcs, up, ping_timer, current, upgrading>>
  <2>1. ~Running("read_cb") /\ ~Running("handle_error")
    BY <1>1 DEF Running
  <2>2. QED
    BY <1>1, <1>5, <2>1, QuietCall
<1>6. QED
  BY <1>4, <1>5 DEF Upgrade

(* A stream goes from one stage of its connecting to the next. *)
LEMMA MoveStep ==
  ASSUME SessionInv, TInv', UNCHANGED replaced, UNCHANGED <<made, current, up, session, connected, upgrading, ping_timer>>,
         ~Running("read_cb"), ~Running("handle_error"),
         OneAsked' /\ OneFound' /\ OneAwaited',
         \A d \in Conn : OnePlace(d)' /\ (Pending(d)' => Pending(d)),
         \A e \in Watched' : e.cb = "read" => \E old \in Watched : old.cb = "read" /\ old.conn = e.conn,
         ~replaced /\ Running("do_read")' /\ up[calls'[1].conn] => calls'[1].conn = current
  PROVE  SessionInv'
<1>1. TInv /\ current <= made
  BY DEF SessionInv, Untouched
<1>2. Untouched'
  BY <1>1, UntouchedKept DEF SessionInv
<1>3. ReadsCurrent'
  <2>1. ASSUME ~replaced, NEW e \in Watched', e.cb = "read", up'[e.conn]
        PROVE  e.conn = current'
    <3>1. PICK old \in Watched : old.cb = "read" /\ old.conn = e.conn
      BY <2>1
    <3>2. QED
      BY <2>1, <3>1 DEF SessionInv, ReadsCurrent
  <2>2. QED
    BY <2>1 DEF ReadsCurrent
<1>4. Knows'
  BY <1>1, KnowsKept DEF SessionInv
<1>5. QED
  BY <1>2, <1>3, <1>4 DEF SessionInv, OneConnect

(* Its next step waits for a descriptor. *)
LEMMA BeginsToWait ==
  ASSUME SessionInv, TInv', UNCHANGED replaced, NEW c \in Conn, Begun(c), Calling(<<>>),
         UNCHANGED <<made, current, up, session, connected, upgrading, ping_timer>>,
         UNCHANGED <<copy, todo, resolving, funcs>>,
         NEW fd \in Fd \union {NoFd}, NEW dir \in Dir, NEW cb \in Purpose, cb \in {"connect", "handshake"},
         poll_list' = Notify(poll_list, fd, dir, cb, c)
  PROVE  SessionInv'
<1>1. TInv /\ OneConnect /\ calls # <<>>
  BY DEF SessionInv, Begun
<1>2. calls' # <<>> => calls'[1].call \notin Special
  BY <1>1, RunsPlain
<1>3. \A e \in Watched' : e \in Watched \/ (e.fd = fd /\ e.dir = dir /\ e.cb = cb /\ e.conn = c)
  <2>1. poll_list \in Seq(Entry) /\ Unique(poll_list)
    BY <1>1, SessionTypes
  <2>2. UNCHANGED <<copy, todo>>
    OBVIOUS
  <2>3. QED
    BY <2>1, <2>2, WatchedNotify
<1>4. ~Asked(c) /\ ~Found(c) /\ ~Awaited(c)
  BY <1>1 DEF OneConnect, OnePlace
<1>5. OneAwaited'
  <2>1. ASSUME NEW a \in Watched', NEW b \in Watched', Connects(a), Connects(b), a.conn = b.conn
        PROVE  SameKey(a, b)
    <3>1. CASE a.conn = c
      <4>1. a \notin Watched /\ b \notin Watched
        BY <1>4, <2>1, <3>1 DEF Awaited
      <4>2. QED
        BY <1>3, <2>1, <4>1 DEF SameKey
    <3>2. CASE a.conn # c
      BY <1>1, <1>3, <2>1, <3>2 DEF OneConnect, OneAwaited
    <3>3. QED
      BY <3>1, <3>2
  <2>2. QED
    BY <2>1 DEF OneAwaited, SameKey, Connects
<1>6. OneAsked' /\ OneFound'
  BY <1>1 DEF OneConnect, OneAsked, OneFound
<1>7. \A d \in Conn : OnePlace(d)' /\ (Pending(d)' => Pending(d))
  <2>1. \A d \in Conn : /\ Asked(d)' = Asked(d) /\ Found(d)' = Found(d) /\ ~Begun(d)'
                        /\ Awaited(d)' => Awaited(d) \/ d = c
    BY <1>2, <1>3 DEF Asked, Found, Begun, Special, Awaited, Connects
  <2>2. QED
    BY <1>1, <1>4, <2>1 DEF OneConnect, OnePlace, Pending
<1>8. \A e \in Watched' : e.cb = "read" => \E old \in Watched : old.cb = "read" /\ old.conn = e.conn
  BY <1>3
<1>9. ~Running("do_read")' /\ ~Running("read_cb") /\ ~Running("handle_error")
  BY <1>2 DEF Running, Special, Begun, ConnectCall
<1>10. QED
  BY <1>5, <1>6, <1>7, <1>8, <1>9, MoveStep

(* It is connected. *)
LEMMA IsConnected ==
  ASSUME SessionInv, TInv', UNCHANGED replaced, NEW c \in Conn, Begun(c), Calling(<<ConnectCb(c, "ok")>>),
         UNCHANGED <<made, current, session, connected, upgrading, ping_timer>>,
         UNCHANGED <<passVars, poll_list, resolving, funcs>>, up' = [up EXCEPT ![c] = TRUE]
  PROVE  SessionInv'
<1>1. /\ TInv /\ OneConnect /\ Untouched /\ ReadsCurrent /\ calls # <<>> /\ current <= made
      /\ up \in [Conn -> BOOLEAN]
      /\ ~Running("read_cb") /\ ~Running("handle_error")
  BY DEF SessionInv, Begun, Untouched, Running, ConnectCall, TInv, StreamTypes
<1>2. calls' # <<>> /\ calls'[1].call = "connect_cb"
  BY <1>1, RunsFirst DEF ConnectCb
<1>3. Watched' = Watched
  BY WatchedSame
<1>4. ~Asked(c) /\ ~Found(c) /\ ~Awaited(c) /\ c <= made /\ Unread(c)
  BY <1>1 DEF OneConnect, OnePlace, Untouched, Pending
<1>5. \A d \in Conn : Asked(d)' = Asked(d) /\ Found(d)' = Found(d) /\ ~Begun(d)' /\ Awaited(d)' = Awaited(d)
  BY <1>2, <1>3 DEF Asked, Found, Begun, ConnectCall, Awaited
<1>6. OneConnect' /\ ~Pending(c)' /\ \A d \in Conn : Pending(d)' => Pending(d)
  <2>1. OneAsked' /\ OneFound' /\ OneAwaited'
    BY <1>1, <1>3 DEF OneConnect, OneAsked, OneFound, OneAwaited
  <2>2. QED
    BY <1>1, <1>4, <1>5, <2>1 DEF OneConnect, OnePlace, Pending
<1>7. \A d \in Conn : (up'[d] => up[d] \/ d = c) /\ (up[d] => up'[d])
  BY <1>1
<1>8. Untouched'
  BY <1>1, <1>3, <1>4, <1>6, <1>7, UntouchedKept
<1>9. ReadsCurrent'
  <2>1. ASSUME ~replaced, NEW e \in Watched', e.cb = "read", up'[e.conn]
        PROVE  e.conn = current'
    <3>1. e \in Watched /\ e.conn \in Conn /\ e.conn # c
      BY <1>3, <1>4, <2>1, NextWatched DEF Unread
    <3>2. QED
      BY <1>1, <1>7, <2>1, <3>1 DEF ReadsCurrent
  <2>2. QED
    BY <1>2, <2>1 DEF ReadsCurrent, Running
<1>10. Knows'
  BY <1>1, <1>7, KnowsKept DEF SessionInv
<1>11. QED
  BY <1>6, <1>8, <1>9, <1>10 DEF SessionInv

(* A step of the streams that only fails, writes or closes. *)
LEMMA StreamPlain ==
  ASSUME SessionInv, TInv', UNCHANGED replaced, calls # <<>>, calls[1].call \notin {"read_cb", "handle_error"},
         UNCHANGED <<made, current, up, session, connected, upgrading, ping_timer, resolving, funcs>>,
         Calling(<<>>) \/ \E x : x.call \notin Special /\ Calling(<<x>>),
         \A e \in Watched' : e.cb # "write" =>
           \E old \in Watched : SameKey(e, old) /\ e.cb = old.cb /\ e.conn = old.conn
  PROVE  SessionInv'
<1>1. calls' # <<>> => calls'[1].call \notin Special
  BY RunsPlain DEF SessionInv
<1>2. OneConnect' /\ Untouched' /\ ReadsCurrent'
  BY <1>1, PlainStep
<1>3. Knows'
  BY KnowsKept DEF SessionInv, Running
<1>4. QED
  BY <1>2, <1>3 DEF SessionInv

LEMMA StreamStepSession ==
  ASSUME SessionInv, TInv', UNCHANGED replaced, StreamStep
  PROVE  SessionInv'
<1>1. PICK c \in Conn :
        OnResolved(c) \/ SocketOnConnected(c) \/ OnHandshake(c) \/ Written(c) \/ SocketClose(c)
  BY DEF StreamStep
<1>2. /\ UNCHANGED <<made, current, session, connected, upgrading, ping_timer>>
      /\ UNCHANGED <<copy, todo>> /\ UNCHANGED <<passVars, resolving, funcs>>
      /\ calls # <<>> /\ calls[1].conn = c /\ TInv
      /\ calls[1].call \in ConnectCall \union {"written", "socket_close"}
  BY <1>1 DEF StreamStep, OnResolved, SocketOnConnected, OnHandshake, Written, SocketClose, RunningFor,
              Running, clientVars, worldVars, passVars, SessionInv, ConnectCall
<1>3. /\ sock[c] \in Fd \union {NoFd} /\ server_fd[c] \in Fd \union {NoFd}
      /\ calls[1].call \notin {"read_cb", "handle_error"}
      /\ poll_list \in Seq(Entry) /\ Unique(poll_list)
  BY <1>2, SessionTypes DEF TInv, StreamTypes, ConnectCall
<1>4. \A e : ConnectCb(c, e).call \notin Special
  BY DEF ConnectCb, Special, ConnectCall
<1>5. ASSUME UNCHANGED <<poll_list, up>>, Calling(<<>>) \/ \E x : x.call \notin Special /\ Calling(<<x>>)
      PROVE  SessionInv'
  <2>1. Watched' = Watched
    BY <1>2, <1>5, WatchedSame
  <2>2. QED
    BY <1>2, <1>3, <1>5, <2>1, StreamPlain DEF SameKey
<1>6. CASE OnResolved(c)
  <2>1. Begun(c) /\ UNCHANGED up
    BY <1>2, <1>6 DEF Begun, OnResolved, RunningFor, Running, ConnectCall
  <2>2. ASSUME NEW fd \in Fd, Calling(<<>>), poll_list' = Notify(poll_list, fd, "write", "connect", c)
        PROVE  SessionInv'
    BY <1>2, <2>1, <2>2, BeginsToWait DEF Dir, Purpose
  <2>3. QED
    BY <1>4, <1>5, <1>6, <2>1, <2>2 DEF OnResolved
<1>7. CASE SocketOnConnected(c)
  <2>1. Begun(c) /\ UNCHANGED poll_list
    BY <1>2, <1>7 DEF Begun, SocketOnConnected, RunningFor, Running, ConnectCall
  <2>2. CASE UNCHANGED up /\ Calling(<<[call |-> "on_handshake", conn |-> c]>>)
    <3>1. calls' # <<>> /\ calls'[1] = [call |-> "on_handshake", conn |-> c]
      BY <1>2, <2>2, RunsFirst
    <3>2. Watched' = Watched
      BY <1>2, <2>1, WatchedSame
    <3>3. OneAsked' /\ OneFound' /\ OneAwaited'
      BY <1>2, <3>2 DEF SessionInv, OneConnect, OneAsked, OneFound, OneAwaited
    <3>4. \A d \in Conn : /\ Asked(d)' = Asked(d) /\ Found(d)' = Found(d) /\ Awaited(d)' = Awaited(d)
                          /\ Begun(d)' => Begun(d)
      BY <1>2, <2>1, <3>1, <3>2 DEF Asked, Found, Awaited, Begun
    <3>5. \A d \in Conn : OnePlace(d)' /\ (Pending(d)' => Pending(d))
      BY <3>4 DEF SessionInv, OneConnect, OnePlace, Pending
    <3>6. ~Running("do_read")' /\ ~Running("read_cb") /\ ~Running("handle_error")
      BY <1>3, <3>1 DEF Running
    <3>7. QED
      BY <1>2, <2>2, <3>2, <3>3, <3>5, <3>6, MoveStep
  <2>3. CASE up' = [up EXCEPT ![c] = TRUE] /\ Calling(<<ConnectCb(c, "ok")>>)
    BY <1>2, <2>1, <2>3, IsConnected
  <2>4. QED
    BY <1>7, <2>2, <2>3 DEF SocketOnConnected
<1>8. CASE OnHandshake(c)
  <2>1. Begun(c)
    BY <1>2, <1>8 DEF Begun, OnHandshake, RunningFor, Running, ConnectCall
  <2>2. ASSUME NEW dir \in Dir, Calling(<<>>), UNCHANGED up,
               poll_list' = Notify(poll_list, server_fd[c], dir, "handshake", c)
        PROVE  SessionInv'
    BY <1>2, <1>3, <2>1, <2>2, BeginsToWait DEF Purpose
  <2>3. CASE /\ up' = [up EXCEPT ![c] = TRUE] /\ Calling(<<ConnectCb(c, "ok")>>)
             /\ UNCHANGED poll_list
    BY <1>2, <2>1, <2>3, IsConnected
  <2>4. QED
    BY <1>4, <1>5, <1>8, <2>2, <2>3 DEF OnHandshake, Dir
<1>9. CASE Written(c)
  <2>1. Calling(<<>>) /\ UNCHANGED up
    BY <1>9 DEF Written
  <2>2. CASE poll_list' = Notify(poll_list, sock[c], "write", "write", c)
    <3> DEFINE fd == sock[c]
    <3>0. /\ poll_list \in Seq(Entry) /\ Unique(poll_list) /\ fd \in Fd \union {NoFd}
          /\ poll_list' = Notify(poll_list, fd, "write", "write", c)
          /\ UNCHANGED <<copy, todo>> /\ "write" \in Dir /\ "write" \in Purpose
      BY <1>2, <1>3, <2>2 DEF Dir, Purpose
    <3> HIDE DEF fd
    <3>1. \A e \in Watched' :
            e \in Watched \/ (e.fd = fd /\ e.dir = "write" /\ e.cb = "write" /\ e.conn = c)
      BY <3>0, WatchedNotify
    <3>2. \A e \in Watched' : e.cb # "write" => e \in Watched
      BY <3>1
    <3>3. QED
      BY <1>2, <1>3, <2>1, <3>2, StreamPlain DEF SameKey
  <2>3. QED
    BY <1>5, <1>9, <2>1, <2>2 DEF Written
<1>10. CASE SocketClose(c)
  <2>1. Calling(<<>>) /\ UNCHANGED up /\ poll_list' = Cancel(poll_list, sock[c])
    BY <1>10 DEF SocketClose
  <2>2. \A e \in Range(poll_list') : \E old \in Range(poll_list) :
           SameKey(e, old) /\ e.cb = old.cb /\ e.conn = old.conn
    BY <1>3, <2>1, CancelIs DEF SameKey
  <2>3. \A e \in Watched' : \E old \in Watched : SameKey(e, old) /\ e.cb = old.cb /\ e.conn = old.conn
    BY <1>2, <2>2 DEF Watched, SameKey
  <2>4. QED
    BY <1>2, <1>3, <2>1, <2>3, StreamPlain
<1>11. QED
  BY <1>1, <1>6, <1>7, <1>8, <1>9, <1>10

(* A step that leaves the running calls alone. *)
LEMMA MoveOutside ==
  ASSUME SessionInv, TInv', UNCHANGED replaced,
         UNCHANGED <<calls, made, current, up, session, connected, upgrading, ping_timer>>,
         OneAsked' /\ OneFound', \A d \in Conn : OnePlace(d)' /\ (Pending(d)' => Pending(d)),
         Watched' \subseteq Watched
  PROVE  SessionInv'
<1>1. TInv /\ OneConnect /\ Untouched /\ ReadsCurrent /\ Knows
  BY DEF SessionInv
<1>2. OneConnect'
  BY <1>1 DEF OneConnect, OneAwaited, SameKey, Connects
<1>3. Untouched'
  BY <1>1, UntouchedKept, SessionTypes DEF Untouched
<1>4. ReadsCurrent'
  BY <1>1 DEF ReadsCurrent, Running
<1>5. Knows'
  BY <1>1 DEF Knows, HasSession, Running
<1>6. QED
  BY <1>2, <1>3, <1>4, <1>5 DEF SessionInv

LEMMA QuietOutside ==
  ASSUME SessionInv, TInv', UNCHANGED replaced, Watched' \subseteq Watched,
         UNCHANGED <<calls, made, current, up, session, connected, upgrading, ping_timer, resolving>>,
         funcs' = funcs \/ \E f \in Func : f.f # "resolved" /\ funcs' = Append(funcs, f)
  PROVE  SessionInv'
<1>1. TInv /\ OneConnect
  BY DEF SessionInv
<1>2. OneFound' /\ \A d \in Conn : Found(d)' => Found(d)
  BY <1>1, OneFoundKept DEF OneConnect
<1>3. \A d \in Conn : /\ Asked(d)' = Asked(d) /\ Begun(d)' = Begun(d)
                      /\ Awaited(d)' => Awaited(d)
  BY DEF Asked, Begun, Awaited
<1>4. OneAsked' /\ \A d \in Conn : OnePlace(d)' /\ (Pending(d)' => Pending(d))
  BY <1>1, <1>2, <1>3 DEF OneConnect, OnePlace, Pending, OneAsked
<1>5. QED
  BY <1>2, <1>4, MoveOutside

LEMMA PublishSession ==
  ASSUME SessionInv, TInv', UNCHANGED replaced, Publish
  PROVE  SessionInv'
<1>1. /\ UNCHANGED <<passVars, poll_list>>
      /\ UNCHANGED <<calls, made, current, up, session, connected, upgrading, ping_timer, resolving>>
      /\ funcs' = Append(funcs, Invoked([call |-> "send", op |-> "publish"]))
  BY DEF Publish, streamVars, clientVars
<1>2. /\ Invoked([call |-> "send", op |-> "publish"]) \in Func
      /\ Invoked([call |-> "send", op |-> "publish"]).f # "resolved"
  <2>1. /\ [call |-> "send", op |-> "publish"] \in Call
        /\ [call |-> "send", op |-> "publish"].call = "send"
    BY DEF Call, Op
  <2>2. QED
    BY <2>1, FuncMembers DEF Invoked
<1>3. Watched' = Watched
  BY <1>1, WatchedSame
<1>4. QED
  BY <1>1, <1>2, <1>3, QuietOutside

LEMMA LoopSession ==
  ASSUME SessionInv, TInv', UNCHANGED replaced,
         \/ (Select \/ SelectTimeout \/ PassDone) /\ UNCHANGED <<clientVars, made, worldVars>>
         \/ \E c \in Conn : DestroyStream(c)
  PROVE  SessionInv'
<1>1. TInv
  BY DEF SessionInv
<1>2. CASE (Select \/ SelectTimeout \/ PassDone) /\ UNCHANGED <<clientVars, made, worldVars>>
  <2>1. UNCHANGED streamVars /\ Watched' \subseteq Watched
    BY <1>1, <1>2, SelectTypes, PassDoneTypes
  <2>2. UNCHANGED <<calls, funcs>> /\ UNCHANGED <<clientVars, made, worldVars>>
    BY <1>2 DEF Select, SelectTimeout, PassDone
  <2>3. QED
    BY <2>1, <2>2, QuietOutside DEF streamVars, clientVars, worldVars
<1>3. ASSUME NEW c \in Conn, DestroyStream(c)
      PROVE  SessionInv'
  <2>1. Watched' \subseteq Watched
    BY <1>1, <1>3, DestroyStreamTypes
  <2>2. UNCHANGED <<calls, funcs, resolving, up>> /\ UNCHANGED <<clientVars, made, worldVars>>
    BY <1>3 DEF DestroyStream, Destroy
  <2>3. QED
    BY <2>1, <2>2, QuietOutside DEF clientVars, worldVars
<1>4. QED
  BY <1>2, <1>3

LEMMA PingDueSession ==
  ASSUME SessionInv, TInv', UNCHANGED replaced, PingDue
  PROVE  SessionInv'
<1>1. /\ calls' = <<[call |-> "send", op |-> "ping"]>> /\ calls = <<>>
      /\ UNCHANGED <<passVars, poll_list>> /\ UNCHANGED <<resolving, made, current, up, funcs>>
      /\ UNCHANGED <<connected, upgrading, ping_timer, session>>
  BY DEF PingDue, streamVars, clientVars
<1>2. calls'[1].call \notin Special
  BY <1>1 DEF Special, ConnectCall
<1>3. OneConnect' /\ Untouched' /\ ReadsCurrent'
  BY <1>1, <1>2, PlainCall
<1>4. Knows'
  BY <1>1, KnowsKept DEF SessionInv, Running
<1>5. QED
  BY <1>3, <1>4 DEF SessionInv

(* The application connects: there was no stream before. *)
LEMMA JoinSession ==
  ASSUME SessionInv, TInv', Join
  PROVE  SessionInv'
<1>1. /\ UNCHANGED <<passVars, poll_list>> /\ UNCHANGED replaced
      /\ UNCHANGED <<calls, made, current, up, session, connected, upgrading, ping_timer, resolving>>
      /\ funcs' = Append(funcs, Invoked([call |-> "connect"]))
  BY DEF Join, streamVars, clientVars, worldVars
<1>2. Invoked([call |-> "connect"]) \in Func /\ Invoked([call |-> "connect"]).f # "resolved"
  <2>1. [call |-> "connect"] \in Call /\ [call |-> "connect"].call = "connect"
    BY DEF Call
  <2>2. QED
    BY <2>1, FuncMembers DEF Invoked
<1>3. Watched' = Watched
  BY <1>1, WatchedSame
<1>4. QED
  BY <1>1, <1>2, <1>3, QuietOutside

(* The first stream, or one in a stream's place: then nothing is known of  *)
(* the session any more.                                                   *)
LEMMA ConnectSession ==
  ASSUME SessionInv, TInv', Connect
  PROVE  SessionInv'
<1>1. /\ calls # <<>> /\ calls[1].call = "connect" /\ Calling(<<>>)
      /\ UNCHANGED <<passVars, poll_list>> /\ UNCHANGED <<up, funcs, connected, ping_timer>>
      /\ UNCHANGED <<session, upgrading>> /\ TInv
  BY DEF Connect, Running, worldVars, SessionInv
<1>2. calls' # <<>> => calls'[1].call \notin Special
  BY <1>1, RunsPlain
<1>3. ~Running("read_cb") /\ ~Running("handle_error")
  BY <1>1 DEF Running
<1>4. CASE connected
  <2>1. UNCHANGED <<made, current, resolving, replaced>>
    BY <1>4 DEF Connect
  <2>2. QED
    BY <1>1, <1>3, <2>1, QuietCall
<1>5. CASE ~connected
  <2>1. NewStream /\ replaced' = (replaced \/ current # NoConn)
    BY <1>5 DEF Connect
  <2>2. Watched' = Watched
    BY <1>1, WatchedSame
  <2>3. OneFound' /\ \A c \in Conn : Found(c)' => Found(c)
    BY <1>1 DEF SessionInv, OneConnect, OneFound, Found
  <2>4. OneConnect' /\ Untouched'
    BY <1>1, <1>2, <2>1, <2>2, <2>3, NewStreamPending
  <2>5. \A e \in Watched : e.conn \in Conn /\ e.conn # NoConn
    BY <1>1, SessionTypes
  <2>6. ReadsCurrent'
    <3>1. SUFFICES ASSUME ~replaced' PROVE ReadsCurrent'
      BY DEF ReadsCurrent
    <3>2. ~replaced /\ current = NoConn
      BY <2>1, <3>1
    <3>3. ~Running("do_read")'
      BY <1>2 DEF Running, Special
    <3>4. QED
      BY <1>1, <2>2, <2>5, <3>2, <3>3 DEF SessionInv, ReadsCurrent
  <2>7. Knows'
    <3>1. SUFFICES ASSUME ~replaced' PROVE Knows'
      BY DEF Knows
    <3>2. ~ping_timer
      BY <2>1, <3>1 DEF SessionInv, Knows, HasSession
    <3>3. QED
      BY <1>1, <1>5, <3>2 DEF Knows
  <2>8. QED
    BY <2>4, <2>6, <2>7 DEF SessionInv
<1>6. QED
  BY <1>4, <1>5

LEMMA TailIs ==
  ASSUME NEW S, NEW seq \in Seq(S), seq # <<>>
  PROVE  /\ Tail(seq) \in Seq(S) /\ Len(seq) \in Nat /\ DOMAIN seq = 1..Len(seq) /\ 1 \in DOMAIN seq
         /\ Head(seq) = seq[1] /\ Head(seq) \in S
         /\ \A n \in DOMAIN Tail(seq) :
              n \in Nat /\ n + 1 \in DOMAIN seq /\ n + 1 # 1 /\ Tail(seq)[n] = seq[n + 1]
<1>1. /\ Tail(seq) \in Seq(S) /\ Len(Tail(seq)) = Len(seq) - 1 /\ Len(seq) \in Nat
      /\ DOMAIN Tail(seq) = 1..(Len(seq) - 1) /\ DOMAIN seq = 1..Len(seq) /\ Len(seq) # 0
      /\ \A n \in 1..(Len(seq) - 1) : Tail(seq)[n] = seq[n + 1]
  BY HeadTailProperties, LenProperties, EmptySeq
<1>2. 1 \in 1..Len(seq) /\ \A n \in 1..(Len(seq) - 1) : n \in Nat /\ n + 1 \in 1..Len(seq) /\ n + 1 # 1
  BY <1>1
<1>3. Head(seq) = seq[1] /\ seq[1] \in S
  BY <1>1, <1>2
<1>4. QED
  BY <1>1, <1>2, <1>3

(* The resolver answers. *)
LEMMA ResolverSession ==
  ASSUME SessionInv, TInv', UNCHANGED replaced, Resolver
  PROVE  SessionInv'
<1>1. PICK found \in BOOLEAN :
        funcs' = Append(funcs, [f |-> "resolved", conn |-> Head(resolving), found |-> found])
  BY DEF Resolver, Resolved
<1>2. /\ resolving # <<>> /\ resolving' = Tail(resolving)
      /\ UNCHANGED <<passVars, poll_list>>
      /\ UNCHANGED <<calls, made, current, up, session, connected, upgrading, ping_timer>>
      /\ resolving \in Seq(Conn) /\ funcs \in Seq(Func) /\ OneConnect
  BY SessionTypes DEF Resolver, Resolved, clientVars, worldVars, SessionInv
<1>c. PICK c \in Conn : c = Head(resolving)
  BY <1>2, TailIs
<1>3. /\ c = resolving[1] /\ 1 \in DOMAIN resolving
      /\ \A n \in DOMAIN resolving' :
           n \in Nat /\ n + 1 \in DOMAIN resolving /\ n + 1 # 1 /\ resolving'[n] = resolving[n + 1]
  BY <1>2, <1>c, TailIs
<1> DEFINE f == [f |-> "resolved", conn |-> c, found |-> found]
<1>4. f \in Func /\ f.f = "resolved" /\ f.conn = c
  BY <1>3 DEF Func
<1>5. funcs' = Append(funcs, f)
  BY <1>1, <1>c
<1> HIDE DEF f
<1>6. /\ DOMAIN funcs' = 1..(Len(funcs) + 1) /\ funcs'[Len(funcs) + 1] = f
      /\ \A n \in 1..Len(funcs) : funcs'[n] = funcs[n]
      /\ Len(funcs) \in Nat /\ DOMAIN funcs = 1..Len(funcs)
  <2>1. /\ DOMAIN Append(funcs, f) = 1..(Len(funcs) + 1) /\ Append(funcs, f)[Len(funcs) + 1] = f
        /\ \A n \in 1..Len(funcs) : Append(funcs, f)[n] = funcs[n]
        /\ Len(funcs) \in Nat /\ DOMAIN funcs = 1..Len(funcs)
    BY <1>2, <1>4, AppendedIs
  <2>2. QED
    BY <1>5, <2>1, Zenon
<1>7. \A n \in DOMAIN funcs' : (n \in DOMAIN funcs /\ funcs'[n] = funcs[n]) \/ (n = Len(funcs) + 1 /\ funcs'[n] = f)
  BY <1>6
<1>8. Asked(c) /\ ~Found(c) /\ ~Begun(c) /\ ~Awaited(c)
  <2>1. Asked(c)
    BY <1>3 DEF Asked, Range
  <2>2. QED
    BY <1>2, <1>3, <2>1 DEF OneConnect, OnePlace
<1>9. OneAsked' /\ ~Asked(c)' /\ \A d \in Conn : Asked(d)' => Asked(d)
  <2>1. OneAsked
    BY <1>2 DEF OneConnect
  <2>2. OneAsked'
    <3>1. ASSUME NEW m \in DOMAIN resolving', NEW n \in DOMAIN resolving', resolving'[m] = resolving'[n]
          PROVE  m = n
      <4>1. m + 1 = n + 1 /\ m \in Nat /\ n \in Nat
        BY <1>3, <2>1, <3>1 DEF OneAsked
      <4>2. QED
        BY <4>1
    <3>2. QED
      BY <3>1 DEF OneAsked
  <2>3. ~Asked(c)'
    <3>1. ASSUME NEW n \in DOMAIN resolving', resolving'[n] = c
          PROVE  FALSE
      BY <1>3, <2>1, <3>1 DEF OneAsked
    <3>2. c \notin Range(resolving')
      BY <3>1 DEF Range
    <3>3. QED
      BY <3>2 DEF Asked
  <2>4. \A d \in Conn : Asked(d)' => Asked(d)
    BY <1>3 DEF Asked, Range
  <2>5. QED
    BY <2>2, <2>3, <2>4
<1>10. OneFound' /\ \A d \in Conn : Found(d)' => Found(d) \/ d = c
  <2>1. \A n \in DOMAIN funcs : ~(funcs[n].f = "resolved" /\ funcs[n].conn = c)
    BY <1>8 DEF Found
  <2>2. OneFound'
    <3>1. ASSUME NEW m \in DOMAIN funcs', NEW n \in DOMAIN funcs', funcs'[m].f = "resolved",
                 funcs'[n].f = "resolved", funcs'[m].conn = funcs'[n].conn
          PROVE  m = n
      BY <1>2, <1>4, <1>7, <2>1, <3>1 DEF OneConnect, OneFound
    <3>2. QED
      BY <3>1 DEF OneFound
  <2>3. \A d \in Conn : Found(d)' => Found(d) \/ d = c
    BY <1>4, <1>7 DEF Found
  <2>4. QED
    BY <2>2, <2>3
<1>11. Watched' = Watched /\ \A d \in Conn : Begun(d)' = Begun(d) /\ Awaited(d)' = Awaited(d)
  BY <1>2, WatchedSame DEF Begun, Awaited
<1>12. \A d \in Conn : OnePlace(d)' /\ (Pending(d)' => Pending(d))
  <2>1. ASSUME NEW d \in Conn
        PROVE  OnePlace(d)' /\ (Pending(d)' => Pending(d))
    <3>1. OnePlace(d) /\ (Begun(d)' = Begun(d)) /\ (Awaited(d)' = Awaited(d))
          /\ (Asked(d)' => Asked(d)) /\ (Found(d)' => Found(d) \/ d = c)
      BY <1>2, <1>9, <1>10, <1>11 DEF OneConnect
    <3>2. CASE d = c
      <4>1. ~Asked(d)' /\ Asked(d) /\ ~Begun(d)' /\ ~Awaited(d)'
        BY <1>8, <1>9, <3>1, <3>2
      <4>2. QED
        BY <4>1 DEF OnePlace, Pending
    <3>3. CASE d # c
      BY <3>1, <3>3 DEF OnePlace, Pending
    <3>4. QED
      BY <3>2, <3>3
  <2>2. QED
    BY <2>1
<1>13. QED
  BY <1>2, <1>9, <1>10, <1>11, <1>12, MoveOutside

(* The loop calls the function that a resolver's answer is. *)
LEMMA FuncTaken ==
  ASSUME TInv, OneFound, RunFunc
  PROVE  /\ funcs # <<>> /\ Head(funcs) = funcs[1] /\ Head(funcs) \in Func /\ 1 \in DOMAIN funcs
         /\ OneFound' /\ \A d \in Conn : Found(d)' => Found(d)
         /\ funcs[1].f = "resolved" =>
              funcs[1].conn \in Conn /\ Found(funcs[1].conn)
              /\ \A d \in Conn : Found(d)' => d # funcs[1].conn
<1>1. funcs \in Seq(Func) /\ batch \in 0..Len(funcs) /\ batch > 0 /\ funcs' = Tail(funcs)
  BY DEF RunFunc, TInv, LInv, LoopTypes
<1>2. funcs # <<>>
  BY <1>1
<1>3. /\ Head(funcs) = funcs[1] /\ Head(funcs) \in Func /\ 1 \in DOMAIN funcs
      /\ \A n \in DOMAIN funcs' :
           n \in Nat /\ n + 1 \in DOMAIN funcs /\ n + 1 # 1 /\ funcs'[n] = funcs[n + 1]
  BY <1>1, <1>2, TailIs
<1>4. OneFound'
  <2>1. ASSUME NEW m \in DOMAIN funcs', NEW n \in DOMAIN funcs', funcs'[m].f = "resolved",
               funcs'[n].f = "resolved", funcs'[m].conn = funcs'[n].conn
        PROVE  m = n
    <3>1. m + 1 = n + 1 /\ m \in Nat /\ n \in Nat
      BY <1>3, <2>1 DEF OneFound
    <3>2. QED
      BY <3>1
  <2>2. QED
    BY <2>1 DEF OneFound
<1>5. \A d \in Conn : Found(d)' => Found(d)
  BY <1>3 DEF Found
<1>6. ASSUME funcs[1].f = "resolved"
      PROVE  /\ funcs[1].conn \in Conn /\ Found(funcs[1].conn)
             /\ \A d \in Conn : Found(d)' => d # funcs[1].conn
  <2>1. \A n \in DOMAIN funcs' : funcs'[n].f = "resolved" => funcs'[n].conn # funcs[1].conn
    BY <1>3, <1>6 DEF OneFound
  <2>2. funcs[1].conn \in Conn
    BY <1>3, <1>6 DEF Func
  <2>3. QED
    BY <1>3, <1>6, <2>1, <2>2 DEF Found
<1>7. QED
  BY <1>2, <1>3, <1>4, <1>5, <1>6

LEMMA FuncCalls ==
  ASSUME TInv, RunFunc, funcs[1] \in Func, Head(funcs) = funcs[1]
  PROVE  \/ funcs[1].f = "resolved" /\ calls' # <<>> /\ calls'[1].call = "on_resolved"
            /\ calls'[1].conn = funcs[1].conn
         \/ calls' # <<>> => calls'[1].call \notin Special
<1> DEFINE f == funcs[1]
<1>1. /\ f \in Func
      /\ CASE f.f = "resolved" -> calls' = <<[call |-> "on_resolved", conn |-> f.conn, found |-> f.found]>>
           [] f.f = "close" -> calls' = <<[call |-> "socket_close", conn |-> f.conn]>>
           [] f.f = "write" -> calls' \in {<<[call |-> "do_write", conn |-> f.conn]>>, <<>>}
           [] OTHER -> calls' = <<f.then>>
  BY DEF RunFunc
<1> HIDE DEF f
<1>2. f.f \in {"resolved", "close", "write", "call"} /\ (f.f = "call" => f.then.call \in {"send", "upgrade", "connect"})
  BY <1>1 DEF Func
<1>3. CASE f.f = "resolved"
  <2>1. calls' = <<[call |-> "on_resolved", conn |-> f.conn, found |-> f.found]>>
    BY <1>1, <1>3
  <2>2. QED
    BY <1>3, <2>1 DEF f
<1>4. CASE f.f = "close"
  <2>1. calls' = <<[call |-> "socket_close", conn |-> f.conn]>>
    BY <1>1, <1>4
  <2>2. QED
    BY <2>1 DEF Special, ConnectCall
<1>5. CASE f.f = "write"
  <2>1. calls' \in {<<[call |-> "do_write", conn |-> f.conn]>>, <<>>}
    BY <1>1, <1>5
  <2>2. QED
    BY <2>1 DEF Special, ConnectCall
<1>6. CASE f.f = "call"
  <2>1. calls' = <<f.then>>
    BY <1>1, <1>6
  <2>2. QED
    BY <1>2, <1>6, <2>1 DEF Special, ConnectCall
<1>7. QED
  BY <1>2, <1>3, <1>4, <1>5, <1>6

LEMMA RunFuncSession ==
  ASSUME SessionInv, TInv', UNCHANGED replaced, RunFunc, UNCHANGED <<clientVars, made, worldVars>>
  PROVE  SessionInv'
<1>1. /\ calls = <<>> /\ TInv /\ OneConnect /\ UNCHANGED <<copy, todo, poll_list, resolving, up>>
      /\ UNCHANGED <<made, current, up, session, connected, upgrading, ping_timer>>
  BY DEF RunFunc, SessionInv, clientVars, worldVars
<1>2. /\ Head(funcs) = funcs[1] /\ funcs[1] \in Func
      /\ OneFound' /\ \A d \in Conn : Found(d)' => Found(d)
      /\ funcs[1].f = "resolved" =>
           funcs[1].conn \in Conn /\ Found(funcs[1].conn) /\ \A d \in Conn : Found(d)' => d # funcs[1].conn
  BY <1>1, FuncTaken DEF OneConnect
<1>3. Watched' = Watched /\ \A d \in Conn : Asked(d)' = Asked(d) /\ Awaited(d)' = Awaited(d)
  BY <1>1 DEF Watched, Asked, Awaited
<1>4. OneAsked' /\ OneAwaited'
  BY <1>1, <1>3 DEF OneConnect, OneAsked, OneAwaited
<1>5. \A d \in Conn : OnePlace(d) /\ ~Begun(d)
  BY <1>1 DEF OneConnect, Begun
<1>6. /\ \A d \in Conn : OnePlace(d)' /\ (Pending(d)' => Pending(d))
      /\ ~Running("do_read")'
  <2>1. CASE funcs[1].f = "resolved" /\ calls' # <<>> /\ calls'[1].call = "on_resolved"
             /\ calls'[1].conn = funcs[1].conn
    <3>1. PICK c \in Conn : c = funcs[1].conn
      BY <1>2, <2>1
    <3>2. Found(c) /\ ~Found(c)' /\ \A d \in Conn : Begun(d)' => d = c
      BY <1>2, <2>1, <3>1 DEF Begun
    <3>3. ASSUME NEW d \in Conn
          PROVE  OnePlace(d)' /\ (Pending(d)' => Pending(d))
      <4>1. OnePlace(d) /\ Asked(d)' = Asked(d) /\ Awaited(d)' = Awaited(d) /\ (Found(d)' => Found(d))
        BY <1>2, <1>3, <1>5
      <4>2. QED
        BY <3>2, <4>1 DEF OnePlace, Pending
    <3>4. QED
      BY <2>1, <3>3 DEF Running
  <2>2. CASE calls' # <<>> => calls'[1].call \notin Special
    <3>1. (\A d \in Conn : ~Begun(d)') /\ ~Running("do_read")'
      BY <2>2 DEF Begun, Special, Running
    <3>2. QED
      BY <1>2, <1>3, <1>5, <3>1 DEF OnePlace, Pending
  <2>3. QED
    BY <1>1, <1>2, <2>1, <2>2, FuncCalls
<1>7. ~Running("read_cb") /\ ~Running("handle_error")
  BY <1>1 DEF Running
<1>8. \A e \in Watched' : e.cb = "read" => \E old \in Watched : old.cb = "read" /\ old.conn = e.conn
  BY <1>3
<1>9. QED
  BY <1>1, <1>2, <1>4, <1>6, <1>7, <1>8, MoveStep

(* The loop answers a socket. *)
LEMMA CallbackHead ==
  ASSUME NEW e \in Entry, NEW code \in Code
  PROVE  /\ Callback(e, code) # <<>>
         /\ \/ Connects(e) /\ Callback(e, code)[1].call \in ConnectCall /\ Callback(e, code)[1].conn = e.conn
            \/ e.cb = "read" /\ Callback(e, code)[1].call = "do_read" /\ Callback(e, code)[1].conn = e.conn
            \/ Callback(e, code)[1].call \notin Special
<1>1. e.cb \in {"connect", "handshake", "read", "write"}
  BY EntryFields
<1>2. CASE Connects(e) /\ code = "ok"
  <2>1. \/ Callback(e, code) = <<[call |-> "socket_on_connected", conn |-> e.conn]>>
        \/ Callback(e, code) = <<[call |-> "on_handshake", conn |-> e.conn]>>
    BY <1>2 DEF Callback, Connects
  <2>2. QED
    BY <1>2, <2>1 DEF ConnectCall
<1>3. CASE Connects(e) /\ code # "ok"
  <2>1. Callback(e, code) = <<ConnectCb(e.conn, code)>>
    BY <1>3 DEF Callback, Connects
  <2>2. QED
    BY <2>1 DEF ConnectCb, Special, ConnectCall
<1>4. CASE e.cb = "write"
  <2>1. \/ Callback(e, code) = <<[call |-> "do_write", conn |-> e.conn]>>
        \/ Callback(e, code) = <<WriteCb(Head(write_op_queue[e.conn]), code),
                                 [call |-> "written", conn |-> e.conn]>>
    BY <1>4 DEF Callback
  <2>2. QED
    BY <2>1 DEF WriteCb, Special, ConnectCall
<1>5. CASE e.cb = "read" /\ code = "ok"
  <2>1. Callback(e, code) = <<[call |-> "do_read", conn |-> e.conn]>>
    BY <1>5 DEF Callback
  <2>2. QED
    BY <1>5, <2>1
<1>6. CASE e.cb = "read" /\ code # "ok"
  <2>1. Callback(e, code) = <<ReadCb(code)>>
    BY <1>6 DEF Callback
  <2>2. QED
    BY <2>1 DEF ReadCb, Special, ConnectCall
<1>7. QED
  BY <1>1, <1>2, <1>3, <1>4, <1>5, <1>6 DEF Connects

LEMMA AnswerSession ==
  ASSUME SessionInv, TInv', UNCHANGED replaced, Answer, UNCHANGED <<clientVars, made, worldVars>>
  PROVE  SessionInv'
<1>1. TInv /\ OneConnect /\ ReadsCurrent
  BY DEF SessionInv
<1>2. PICK e \in Watched :
        /\ e \in Entry /\ e.conn \in Conn
        /\ ec' \in Code
        /\ calls' = Callback(e, ec') /\ calls = <<>>
        /\ \A x \in Watched' : x \in Watched /\ ~SameKey(x, e)
  BY <1>1, AnswerIs
<1>3. /\ UNCHANGED <<made, current, up, session, connected, upgrading, ping_timer>>
      /\ UNCHANGED <<resolving, funcs>>
  BY DEF Answer, streamVars, clientVars, worldVars
<1>4. /\ calls' # <<>>
      /\ \/ Connects(e) /\ calls'[1].call \in ConnectCall /\ calls'[1].conn = e.conn
         \/ e.cb = "read" /\ calls'[1].call = "do_read" /\ calls'[1].conn = e.conn
         \/ calls'[1].call \notin Special
  BY <1>2, CallbackHead
<1>5. \A d \in Conn : /\ OnePlace(d) /\ ~Begun(d) /\ Asked(d)' = Asked(d) /\ Found(d)' = Found(d)
                      /\ Awaited(d)' => Awaited(d)
  BY <1>1, <1>2, <1>3 DEF OneConnect, Begun, Asked, Found, Awaited
<1>6. OneAsked' /\ OneFound' /\ OneAwaited'
  BY <1>1, <1>2, <1>3 DEF OneConnect, OneAsked, OneFound, OneAwaited
<1>7. ~Running("read_cb") /\ ~Running("handle_error")
  BY <1>2 DEF Running
<1>8. \A d \in Conn : OnePlace(d)' /\ (Pending(d)' => Pending(d))
  <2>1. CASE Connects(e) /\ calls'[1].conn = e.conn
    <3>1. Awaited(e.conn)
      BY <2>1 DEF Awaited
    <3>2. \A x \in Watched' : Connects(x) => x.conn # e.conn
      BY <1>1, <1>2, <2>1 DEF OneConnect, OneAwaited
    <3>3. ASSUME NEW d \in Conn
          PROVE  OnePlace(d)' /\ (Pending(d)' => Pending(d))
      <4>1. Begun(d)' => d = e.conn
        BY <2>1 DEF Begun
      <4>2. d = e.conn => Awaited(d) /\ ~Awaited(d)'
        BY <3>1, <3>2 DEF Awaited
      <4>3. QED
        BY <1>5, <4>1, <4>2 DEF OnePlace, Pending
    <3>4. QED
      BY <3>3
  <2>2. CASE calls'[1].call \notin ConnectCall
    <3>1. \A d \in Conn : ~Begun(d)'
      BY <2>2 DEF Begun
    <3>2. QED
      BY <1>5, <3>1 DEF OnePlace, Pending
  <2>3. QED
    BY <1>4, <2>1, <2>2 DEF ConnectCall, Special
<1>9. ~replaced /\ Running("do_read")' /\ up[calls'[1].conn] => calls'[1].conn = current
  BY <1>1, <1>4 DEF ReadsCurrent, Running, ConnectCall, Special
<1>10. \A x \in Watched' : x.cb = "read" => \E old \in Watched : old.cb = "read" /\ old.conn = x.conn
  BY <1>2
<1>11. QED
  BY <1>3, <1>6, <1>7, <1>8, <1>9, <1>10, MoveStep

-----------------------------------------------------------------------------

LEMMA SessionNext ==
  ASSUME SessionInv, [Next]_vars
  PROVE  SessionInv'
<1>1. TInv /\ TInv'
  BY TypesNext DEF SessionInv
<1>2. CASE UNCHANGED vars
  <2>1. UNCHANGED <<loopVars, streamVars, clientVars, made, worldVars, joinVars>>
    BY <1>2 DEF vars
  <2>2. Watched' = Watched
    BY <2>1, WatchedSame DEF loopVars
  <2>3. QED
    BY <1>1, <2>1, <2>2, QuietOutside DEF loopVars, streamVars, clientVars, worldVars, joinVars
<1>3. CASE Join \/ Connect
  BY <1>1, <1>3, JoinSession, ConnectSession
<1>4. CASE Publish \/ Resolver \/ StreamStep
  <2>1. UNCHANGED replaced
    BY <1>4 DEF Publish, Resolver, StreamStep, joinVars
  <2>2. QED
    BY <1>1, <1>4, <2>1, PublishSession, ResolverSession, StreamStepSession
<1>5. CASE ClientStep
  <2>1. UNCHANGED replaced
    BY <1>5 DEF ClientStep, joinVars
  <2>2. QED
    BY <1>1, <1>5, <2>1, HandleErrorSession, ConnectDoneSession, SendSession, WriteDoneSession,
       ReadPacketSession, ReadFailedSession, UpgradeSession, WritingSession, ReadingSession,
       ReceivingSession DEF ClientStep
<1>6. CASE \E c \in Conn : DestroyStream(c)
  <2>1. UNCHANGED replaced
    BY <1>6 DEF DestroyStream, joinVars
  <2>2. QED
    BY <1>1, <1>6, <2>1, LoopSession
<1>7. CASE LoopStep
  <2>1. UNCHANGED replaced
    BY <1>7 DEF LoopStep, joinVars
  <2>2. QED
    BY <1>1, <1>7, <2>1, LoopSession, PingDueSession, RunFuncSession, AnswerSession DEF LoopStep
<1>8. QED
  BY <1>2, <1>3, <1>4, <1>5, <1>6, <1>7 DEF Next

LEMMA SessionInit == Init => SessionInv
<1> SUFFICES ASSUME Init PROVE SessionInv
  OBVIOUS
<1>1. TInv
  BY TypesInit
<1>2. /\ resolving = <<>> /\ funcs = <<>> /\ calls = <<>> /\ poll_list = <<>> /\ copy = <<>> /\ todo = {}
      /\ current = 0 /\ made = 0 /\ ~connected /\ ~ping_timer
      /\ up = [c \in Conn |-> FALSE] /\ session = [c \in Conn |-> "new"]
  BY DEF Init, StreamInit, NoConn
<1>3. Watched = {}
  BY <1>2 DEF Watched, Range
<1>4. OneConnect /\ Untouched
  BY <1>2, <1>3 DEF OneConnect, OneAsked, OneFound, OneAwaited, OnePlace, Untouched, Pending, Unread,
                    Asked, Found, Begun, Awaited, Range
<1>5. ReadsCurrent /\ Knows
  BY <1>2, <1>3 DEF ReadsCurrent, Knows, Running
<1>6. QED
  BY <1>1, <1>4, <1>5 DEF SessionInv

(* The client says that it is connected, and pings, only while the stream  *)
(* it has is up and the server accepted it there, whatever fails, over TCP *)
(* or TLS, until connect takes the place of a stream that was not          *)
(* subscribed yet (handle_connect_ack, handle_subscribe_ack, handle_error, *)
(* disconnect; MqttClient.cpp, connect, asks for connected_property only). *)
THEOREM SessionKnown == Spec => []KnowsItsSession
<1>1. Init => SessionInv
  BY SessionInit
<1>2. SessionInv /\ [Next]_vars => SessionInv'
  BY SessionNext
<1>3. SessionInv => KnowsItsSession
  BY DEF SessionInv, Knows, KnowsItsSession, Running
<1>4. QED
  BY <1>1, <1>2, <1>3, PTL DEF Spec

-----------------------------------------------------------------------------
(* One attempt.  If only connections fail, and nothing is written but the  *)
(* CONNECT and the subscriptions, the client's attempt is in one place at  *)
(* a time: at the resolver, in a function that was invoked, in what the    *)
(* loop watches, or in what runs.  No step makes a second one, except a    *)
(* connect that takes the place of a stream; and only the end of an        *)
(* attempt, or the update, gives the stream up.                            *)

OnlyConnectionsFail ==
  /\ Faults \subseteq {"no_address", "unreachable", "silent", "handshake", "closed", "read_error"}
  /\ MaxSend = 0

(* A stream has no socket yet, or has one, or has closed the one that its  *)
(* handshake used.                                                         *)
Idle(c) == sock[c] = NoFd /\ server_fd[c] = NoFd
Open(c) == sock[c] # NoFd /\ (Secure => server_fd[c] = sock[c])
Stale(c) == sock[c] = NoFd /\ server_fd[c] # NoFd

OwnSocket(c) ==
  /\ sock[c] # NoFd => owner[sock[c]] = c
  /\ sock[c] # NoFd \/ server_fd[c] # NoFd => c <= made
  /\ server_fd[c] # NoFd => Secure
  /\ Stale(c) => owner[server_fd[c]] = Free
  /\ server_fd[c] # NoFd /\ ~Stale(c) => server_fd[c] = sock[c]
  /\ up[c] => c = current /\ Open(c)
SocketsInv ==
  /\ \A c \in Conn : OwnSocket(c)
  /\ \A a, b \in Conn : server_fd[a] # NoFd /\ server_fd[a] = server_fd[b] => a = b
  /\ current <= made

(* Calls that are not the attempt's, and functions that are.               *)
Aside(x) ==
  \/ x.call \in {"upgrade", "connect", "socket_close", "written"}
  \/ x.call = "write_cb" /\ x.op = "subscribe"
  \/ x.call = "do_write" /\ write_op_queue[x.conn] = <<"subscribe">>
Carries(f) == f.f = "resolved" \/ (f.f = "write" /\ f.op = "connect")

AtResolver == resolving # <<>>
InFuncs == \E n \in DOMAIN funcs : Carries(funcs[n])
InList == poll_list # <<>>
InCalls == calls # <<>> /\ ~Aside(calls[1])

OnePlaceInv ==
  /\ Len(resolving) <= 1 /\ Len(poll_list) <= 1
  /\ \A m, n \in DOMAIN funcs : Carries(funcs[m]) /\ Carries(funcs[n]) => m = n
  /\ AtResolver => ~InFuncs /\ ~InList /\ ~InCalls
  /\ InFuncs => ~InList /\ ~InCalls
  /\ InList => ~InCalls
  /\ made > 0 /\ ~upgrading => current # NoConn /\ (AtResolver \/ InFuncs \/ InList \/ InCalls)
  /\ current = NoConn /\ ~connected => ~AtResolver /\ ~InFuncs /\ ~InList /\ ~InCalls
  /\ made = 0 => current = NoConn /\ ~connected

ResolverInv == AtResolver => resolving[1] = current /\ Idle(current) /\ ~connected

(* What is watched. *)
EntryInv(e) ==
  /\ e.cb \in {"connect", "handshake", "read"} /\ e.fd # NoFd
  /\ current \in {e.conn, NoConn}
  /\ e.cb # "read" => current = e.conn /\ ~connected
  /\ e.cb = "handshake" => Secure
  /\ e.cancelled => /\ current = NoConn /\ sock[e.conn] = NoFd /\ owner[e.fd] = Free
                    /\ Secure => server_fd[e.conn] = e.fd
  /\ ~e.cancelled => sock[e.conn] = e.fd /\ (e.cb # "connect" => Open(e.conn))
ListInv == InList => EntryInv(poll_list[1])

(* What was invoked.  The functions of a stream that is dropped are in     *)
(* order: it writes before it closes, and closes once.                     *)
Upgrading == Invoked([call |-> "upgrade"])
Joining == Invoked([call |-> "connect"])
FuncInv(f) ==
  /\ f.f = "resolved" => f.conn = current /\ Idle(current) /\ ~connected
  /\ f.f = "write" => /\ Open(f.conn) /\ f.op \in {"connect", "subscribe"}
                      /\ f.op = "connect" => f.conn = current /\ ~connected
  /\ f.f = "close" => sock[f.conn] # NoFd /\ f.conn # current
  /\ f.f = "call" => f = Joining \/ (f = Upgrading /\ ~upgrading)
Touches(f, c) == f.f \in {"write", "close"} /\ f.conn = c
FuncsInv ==
  /\ \A n \in DOMAIN funcs : FuncInv(funcs[n])
  /\ \A m, n \in DOMAIN funcs : m < n /\ funcs[m].f = "close" => ~Touches(funcs[n], funcs[m].conn)
  /\ \A m, n \in DOMAIN funcs : funcs[m] = Upgrading /\ funcs[n] = Upgrading => m = n

(* What runs.  A socket is made only when no stream is stale.              *)
CallInv(x) ==
  /\ x.call \in {"on_resolved", "socket_on_connected", "on_handshake", "connect_cb"} =>
       x.conn = current /\ ~connected
  /\ x.call = "on_resolved" => Idle(current) /\ \A c \in Conn : ~Stale(c)
  /\ x.call = "socket_on_connected" => sock[current] # NoFd
  /\ x.call = "on_handshake" => Secure /\ Open(current)
  /\ x.call = "connect_cb" => x.ec # "Cancelled" /\ (x.ec = "ok" => up[current])
  /\ x.call = "send" => /\ x.op \in {"connect", "subscribe"} /\ current # NoConn /\ up[current]
                        /\ x.op = "connect" => ~connected
  /\ x.call = "do_write" => /\ Open(x.conn)
                            /\ write_op_queue[x.conn] \in {<<"connect">>, <<"subscribe">>}
                            /\ write_op_queue[x.conn] = <<"connect">> => x.conn = current /\ ~connected
  /\ x.call = "write_cb" => /\ x.ec = "ok" /\ x.op \in {"connect", "subscribe"}
                            /\ x.op = "connect" => current # NoConn /\ ~connected
  /\ x.call = "read_packet" => current # NoConn
  /\ x.call = "do_read" => current \in {x.conn, NoConn}
  /\ x.call \in {"read_cb", "handle_error"} /\ x.ec = "Cancelled" => current = NoConn
  /\ x.call = "upgrade" => ~upgrading /\ \A n \in DOMAIN funcs : funcs[n] # Upgrading
  /\ x.call = "socket_close" => /\ sock[x.conn] # NoFd /\ x.conn # current
                                /\ \A n \in DOMAIN funcs : ~Touches(funcs[n], x.conn)
Subscribing(x) == x.call = "send" /\ x.op = "subscribe"
StackInv ==
  /\ \A n \in 2..Len(calls) :
       /\ calls[n].call \in {"read_packet", "written"}
       /\ calls[n].call = "read_packet" => n = 2 /\ Subscribing(calls[1])
  /\ calls # <<>> /\ Subscribing(calls[1]) => Len(calls) > 1 /\ calls[2].call = "read_packet"
CallsInv == StackInv /\ (calls # <<>> => CallInv(calls[1]))

(* What is written is being written. *)
QueuesInv ==
  \A c \in Conn : write_op_queue[c] # <<>> => Len(write_op_queue[c]) = 1 /\ WriteCalled(c)

(* What the pass has still to do. *)
PassInv ==
  /\ todo \subseteq {1} /\ Len(copy) <= 1
  /\ todo # {} => /\ InList /\ ec # "Cancelled"
                  /\ copy[1].fd = poll_list[1].fd /\ copy[1].dir = poll_list[1].dir
                  /\ copy[1].cb = poll_list[1].cb /\ copy[1].conn = poll_list[1].conn
                  /\ copy[1].cancelled => poll_list[1].cancelled
  /\ \A n \in 1..batch : Carries(funcs[n]) => copy = <<>>
  /\ phase = "select" => batch = 0 /\ todo = {} /\ copy = <<>>

Parts ==
  /\ SocketsInv /\ OnePlaceInv /\ ResolverInv /\ ListInv /\ FuncsInv /\ CallsInv /\ QueuesInv /\ PassInv
  /\ ~crashed
AttemptInv == TInv /\ Parts

(* Each part is kept by what does not touch it. *)
LEMMA SocketsKept ==
  ASSUME SocketsInv, UNCHANGED <<sock, server_fd, owner, current, made>>,
         \A c \in Conn : up'[c] => up[c]
  PROVE  SocketsInv'
BY DEF SocketsInv, OwnSocket, Stale, Open

LEMMA ResolverKept ==
  ASSUME ResolverInv, UNCHANGED <<resolving, sock, server_fd, current>>,
         AtResolver => connected' = connected
  PROVE  ResolverInv'
BY DEF ResolverInv, AtResolver, Idle

LEMMA ListKept ==
  ASSUME ListInv, UNCHANGED <<poll_list, sock, server_fd, owner, current>>,
         InList => connected' = connected
  PROVE  ListInv'
BY DEF ListInv, EntryInv, InList, Open

LEMMA FuncsKept ==
  ASSUME FuncsInv, UNCHANGED <<funcs, sock, server_fd, current, upgrading>>,
         InFuncs => connected' = connected
  PROVE  FuncsInv'
<1>1. ASSUME NEW n \in DOMAIN funcs
      PROVE  FuncInv(funcs[n])'
  BY DEF FuncsInv, FuncInv, Open, Idle, InFuncs, Carries
<1>2. QED
  BY <1>1 DEF FuncsInv, Touches

LEMMA PassKept ==
  ASSUME PassInv, UNCHANGED <<passVars, poll_list, funcs>>
  PROVE  PassInv'
BY DEF PassInv, passVars, InList

(* A function is invoked. *)
LEMMA FuncsOne ==
  ASSUME TInv, NEW g \in Func, funcs' = Append(funcs, g)
  PROVE  /\ Len(funcs) \in Nat /\ DOMAIN funcs = 1..Len(funcs) /\ DOMAIN funcs' = 1..(Len(funcs) + 1)
         /\ \A n \in DOMAIN funcs : n \in DOMAIN funcs' /\ funcs'[n] = funcs[n]
         /\ Len(funcs) + 1 \in DOMAIN funcs' /\ funcs'[Len(funcs) + 1] = g
         /\ \A n \in DOMAIN funcs' : n \in DOMAIN funcs \/ (n = Len(funcs) + 1 /\ funcs'[n] = g)
         /\ funcs' # <<>>
<1>1. funcs \in Seq(Func)
  BY DEF TInv, LInv, LoopTypes
<1>2. /\ Len(funcs) \in Nat /\ DOMAIN funcs = 1..Len(funcs) /\ DOMAIN funcs' = 1..(Len(funcs) + 1)
      /\ funcs'[Len(funcs) + 1] = g
      /\ \A n \in 1..Len(funcs) : funcs'[n] = funcs[n]
  BY <1>1, AppendedIs
<1>3. PICK k \in Nat : k = Len(funcs)
  BY <1>2
<1>4. k + 1 \in 1..(k + 1) /\ \A n \in 1..(k + 1) : n \in 1..k \/ n = k + 1
  OBVIOUS
<1>5. \A n \in 1..k : n \in 1..(k + 1)
  OBVIOUS
<1>6. DOMAIN funcs' # {}
  BY <1>2, <1>3, <1>4
<1>7. QED
  BY <1>2, <1>3, <1>4, <1>5, <1>6

LEMMA FuncsAppended ==
  ASSUME TInv, FuncsInv, NEW g \in Func, funcs' = Append(funcs, g),
         \A f \in Range(funcs) : FuncInv(f)', FuncInv(g)',
         \A n \in DOMAIN funcs : funcs[n].f = "close" => ~Touches(g, funcs[n].conn),
         g = Upgrading => \A n \in DOMAIN funcs : funcs[n] # Upgrading
  PROVE  FuncsInv'
<1>1. PICK k \in Nat : k = Len(funcs)
  BY FuncsOne
<1>2. /\ DOMAIN funcs = 1..k /\ DOMAIN funcs' = 1..(k + 1)
      /\ \A n \in DOMAIN funcs : n \in DOMAIN funcs' /\ funcs'[n] = funcs[n]
      /\ funcs'[k + 1] = g
      /\ \A n \in DOMAIN funcs' : n \in DOMAIN funcs \/ (n = k + 1 /\ funcs'[n] = g)
  BY <1>1, FuncsOne
<1>3. (\A n \in DOMAIN funcs : FuncInv(funcs[n]))'
  <2>1. ASSUME NEW n \in DOMAIN funcs'
        PROVE  FuncInv(funcs[n])'
    <3>1. CASE n \in DOMAIN funcs
      <4>1. PICK f : f = funcs[n]
        OBVIOUS
      <4>2. funcs'[n] = f /\ FuncInv(f)'
        BY <1>2, <3>1, <4>1 DEF Range
      <4>3. QED
        BY <4>2
    <3>2. CASE n = k + 1
      BY <1>2, <3>2
    <3>3. QED
      BY <1>2, <2>1, <3>1, <3>2
  <2>2. QED
    BY <2>1
<1>4. ASSUME NEW m \in DOMAIN funcs', NEW n \in DOMAIN funcs', m < n, funcs'[m].f = "close"
      PROVE  ~Touches(funcs'[n], funcs'[m].conn)
  <2>1. m \in DOMAIN funcs
    BY <1>2, <1>4
  <2>2. QED
    BY <1>2, <1>4, <2>1 DEF FuncsInv
<1>5. ASSUME NEW m \in DOMAIN funcs', NEW n \in DOMAIN funcs', funcs'[m] = Upgrading, funcs'[n] = Upgrading
      PROVE  m = n
  BY <1>2, <1>5 DEF FuncsInv
<1>6. QED
  BY <1>3, <1>4, <1>5 DEF FuncsInv, Touches, Upgrading, Invoked

LEMMA PlacesAppended ==
  ASSUME TInv, NEW g \in Func, funcs' = Append(funcs, g)
  PROVE  /\ InFuncs' <=> (InFuncs \/ Carries(g))
         /\ (\A m, n \in DOMAIN funcs : Carries(funcs[m]) /\ Carries(funcs[n]) => m = n) /\ ~(InFuncs /\ Carries(g))
              => \A m, n \in DOMAIN funcs' : Carries(funcs'[m]) /\ Carries(funcs'[n]) => m = n
         /\ PassInv /\ UNCHANGED <<passVars, poll_list>> => PassInv'
<1>1. PICK k \in Nat : k = Len(funcs)
  BY FuncsOne
<1>2. /\ DOMAIN funcs = 1..k /\ DOMAIN funcs' = 1..(k + 1)
      /\ \A n \in DOMAIN funcs : n \in DOMAIN funcs' /\ funcs'[n] = funcs[n]
      /\ k + 1 \in DOMAIN funcs' /\ funcs'[k + 1] = g
      /\ \A n \in DOMAIN funcs' : n \in DOMAIN funcs \/ (n = k + 1 /\ funcs'[n] = g)
  BY <1>1, FuncsOne
<1>3. InFuncs' <=> (InFuncs \/ Carries(g))
  BY <1>2 DEF InFuncs, Carries
<1>4. ASSUME \A m, n \in DOMAIN funcs : Carries(funcs[m]) /\ Carries(funcs[n]) => m = n, ~(InFuncs /\ Carries(g)),
             NEW m \in DOMAIN funcs', NEW n \in DOMAIN funcs', Carries(funcs'[m]), Carries(funcs'[n])
      PROVE  m = n
  BY <1>2, <1>4 DEF InFuncs
<1>5. ASSUME PassInv, UNCHANGED <<passVars, poll_list>>
      PROVE  PassInv'
  <2>1. phase' = phase /\ copy' = copy /\ todo' = todo /\ ec' = ec /\ batch' = batch
    BY <1>5 DEF passVars
  <2>2. \A n \in 1..batch : n \in DOMAIN funcs
    BY <1>1, <1>2 DEF TInv, LInv, LoopTypes
  <2>3. \A n \in 1..batch' : Carries(funcs'[n]) => copy' = <<>>
    BY <1>2, <1>5, <2>1, <2>2 DEF PassInv
  <2>4. QED
    BY <1>5, <2>1, <2>3 DEF PassInv, InList, Carries
<1>6. QED
  BY <1>3, <1>4, <1>5

(* Where the attempt is, when it stays in its place. *)
LEMMA PlaceKept ==
  ASSUME OnePlaceInv, UNCHANGED <<resolving, poll_list, funcs, made, upgrading, current>>,
         InCalls' <=> InCalls,
         connected' = connected \/ (made # 0 /\ current # NoConn)
  PROVE  OnePlaceInv'
BY DEF OnePlaceInv, AtResolver, InFuncs, InList

-----------------------------------------------------------------------------
(* The calls.                                                              *)

LEMMA StackPositions ==
  ASSUME TInv
  PROVE  /\ calls \in Seq(Call) /\ Len(calls) \in Nat /\ DOMAIN calls = 1..Len(calls)
         /\ calls # <<>> => Len(calls) > 0 /\ 1 \in DOMAIN calls /\ calls[1] \in Call
BY DEF TInv, LInv, LoopTypes

(* The call is done and makes no other. *)
LEMMA CallEnds ==
  ASSUME TInv, StackInv, calls # <<>>, ~Subscribing(calls[1]), Calling(<<>>)
  PROVE  /\ CallsInv' /\ ~InCalls'
         /\ calls' # <<>> => calls'[1].call = "written"
<1> DEFINE s == <<>>
<1>1. /\ calls \in Seq(Call) /\ Behind /\ s \in Seq(Call) /\ Len(s) = 0 /\ DOMAIN s = {}
      /\ \A n \in 2..Len(s) : FALSE
  BY DEF TInv, LInv, LoopTypes
<1>2. Calling(s)
  OBVIOUS
<1> HIDE DEF s
<1>3. /\ calls' \in Seq(Call) /\ Len(calls') = Len(calls) - 1 /\ Len(calls) \in Nat
      /\ DOMAIN calls' = 1..Len(calls')
      /\ \A n \in DOMAIN calls' : n + 1 \in 2..Len(calls) /\ calls'[n] = calls[n + 1]
  <2>1. /\ calls' \in Seq(Call) /\ Len(s) \in Nat /\ Len(calls) \in Nat \ {0}
        /\ DOMAIN calls' = 1..Len(calls') /\ Len(calls') = Len(s) + Len(calls) - 1
        /\ \A n \in DOMAIN calls' :
             \/ n \in DOMAIN s /\ calls'[n] = s[n]
             \/ /\ n > Len(s) /\ n - Len(s) + 1 \in 2..Len(calls)
                /\ calls'[n] = calls[n - Len(s) + 1]
    BY <1>1, <1>2, CallingIs
  <2>2. \A n \in DOMAIN calls' : n - 0 + 1 = n + 1
    BY <2>1
  <2>3. QED
    BY <1>1, <2>1, <2>2
<1>4. \A n \in DOMAIN calls' : calls'[n].call = "written"
  <2>1. ASSUME NEW n \in DOMAIN calls'
        PROVE  calls'[n].call = "written"
    <3>1. n + 1 \in 2..Len(calls) /\ calls'[n] = calls[n + 1]
      BY <1>3
    <3>2. QED
      BY <3>1 DEF StackInv
  <2>2. QED
    BY <2>1
<1>5. calls' # <<>> => 1 \in DOMAIN calls' /\ calls'[1].call = "written"
  BY <1>3, <1>4
<1>6. StackInv'
  <2>1. \A n \in 2..Len(calls') : n \in DOMAIN calls'
    BY <1>3
  <2>2. QED
    BY <1>4, <1>5, <2>1 DEF StackInv, Subscribing
<1>7. (calls # <<>> => CallInv(calls[1]))'
  BY <1>5 DEF CallInv
<1>8. ~InCalls'
  BY <1>5 DEF InCalls, Aside
<1>9. QED
  BY <1>5, <1>6, <1>7, <1>8 DEF CallsInv

(* The call is done and makes one other. *)
LEMMA CallCalls ==
  ASSUME TInv, StackInv, calls # <<>>, ~Subscribing(calls[1]), NEW x \in Call, Calling(<<x>>),
         ~Subscribing(x), CallInv(x)'
  PROVE  CallsInv' /\ calls' # <<>> /\ calls'[1] = x
<1> DEFINE s == <<x>>
<1>1. /\ calls \in Seq(Call) /\ Behind /\ s \in Seq(Call) /\ Len(s) = 1 /\ DOMAIN s = {1} /\ s[1] = x
      /\ \A n \in 2..Len(s) : FALSE
  BY DEF TInv, LInv, LoopTypes
<1>2. Calling(s)
  OBVIOUS
<1> HIDE DEF s
<1>3. /\ calls' \in Seq(Call) /\ Len(calls') = Len(calls) /\ Len(calls) \in Nat \ {0}
      /\ calls'[1] = x
      /\ \A n \in 2..Len(calls') : calls'[n] = calls[n]
  <2>1. /\ calls' \in Seq(Call) /\ Len(s) \in Nat /\ Len(calls) \in Nat \ {0}
        /\ DOMAIN calls' = 1..Len(calls') /\ Len(calls') = Len(s) + Len(calls) - 1
        /\ \A n \in DOMAIN s : n \in DOMAIN calls' /\ calls'[n] = s[n]
        /\ \A n \in DOMAIN calls' :
             \/ n \in DOMAIN s /\ calls'[n] = s[n]
             \/ /\ n > Len(s) /\ n - Len(s) + 1 \in 2..Len(calls)
                /\ calls'[n] = calls[n - Len(s) + 1]
    BY <1>1, <1>2, CallingIs
  <2>2. Len(calls') = Len(calls)
    BY <1>1, <2>1
  <2>3. ASSUME NEW n \in 2..Len(calls')
        PROVE  calls'[n] = calls[n]
    <3>1. n \in DOMAIN calls' /\ n \notin DOMAIN s /\ n - 1 + 1 = n
      BY <1>1, <2>1
    <3>2. QED
      BY <1>1, <2>1, <3>1
  <2>4. QED
    BY <1>1, <2>1, <2>2, <2>3
<1>4. calls' # <<>>
  BY <1>3
<1>5. StackInv'
  BY <1>3 DEF StackInv, Subscribing
<1>6. QED
  BY <1>3, <1>4, <1>5 DEF CallsInv

(* A call that does not write leaves the writes behind it. *)
LEMMA WritesStay ==
  ASSUME TInv, calls # <<>>, calls[1].call \notin WriteCall, NEW s \in Seq(Call), Calling(s),
         \A n \in 2..Len(s) : s[n].call \in {"written", "handle_error", "read_packet"},
         NEW c \in Conn, WriteCalled(c)
  PROVE  WriteCalled(c)'
<1>1. PICK n \in DOMAIN calls : calls[n].call \in WriteCall /\ calls[n].conn = c
  BY DEF WriteCalled
<1>2. calls \in Seq(Call) /\ Behind
  BY DEF TInv, LInv, LoopTypes
<1>3. /\ Len(s) \in Nat /\ Len(calls) \in Nat \ {0}
      /\ DOMAIN s = 1..Len(s) /\ DOMAIN calls = 1..Len(calls) /\ DOMAIN calls' = 1..Len(calls')
      /\ Len(calls') = Len(s) + Len(calls) - 1
      /\ \A m \in DOMAIN calls' :
              \/ m \in DOMAIN s /\ calls'[m] = s[m]
              \/ /\ m > Len(s) /\ m - Len(s) + 1 \in 2..Len(calls)
                 /\ calls'[m] = calls[m - Len(s) + 1]
  BY <1>2, CallingIs
<1>4. n # 1
  BY <1>1
<1>5. PICK k \in Nat : k = Len(s)
  BY <1>3
<1>6. n + k - 1 \in 1..(k + Len(calls) - 1) /\ ~(n + k - 1 \in 1..k) /\ (n + k - 1) - k + 1 = n
  <2>1. PICK l \in Nat : l = Len(calls)
    BY <1>3
  <2>2. n \in 1..l /\ n # 1
    BY <1>3, <1>4, <2>1
  <2>3. n + k - 1 \in 1..(k + l - 1) /\ ~(n + k - 1 \in 1..k) /\ (n + k - 1) - k + 1 = n
    BY <2>2, Z3
  <2>4. QED
    BY <2>1, <2>3
<1>7. n + k - 1 \in DOMAIN calls' /\ calls'[n + k - 1] = calls[n]
  BY <1>3, <1>5, <1>6
<1>8. QED
  BY <1>1, <1>7 DEF WriteCalled

LEMMA QueuesKept ==
  ASSUME TInv, QueuesInv, calls # <<>>, calls[1].call \notin WriteCall, NEW s, Quiet(s), Calling(s),
         UNCHANGED write_op_queue
  PROVE  QueuesInv'
BY WritesStay DEF QueuesInv, Quiet

LEMMA CallForms ==
  /\ \A e \in Code : Fail(e) \in Call /\ ReadCb(e) \in Call
  /\ \A op \in Op : [call |-> "send", op |-> op] \in Call
  /\ \A c \in Conn : [call |-> "do_read", conn |-> c] \in Call
  /\ [call |-> "read_packet"] \in Call
  /\ [call |-> "upgrade"] \in Call
  /\ \A c \in Conn, e \in Code : ConnectCb(c, e) \in Call
BY DEF Call, Fail, ReadCb, ConnectCb

(* What is watched when nothing was. *)
LEMMA ListOne ==
  ASSUME NEW fd, NEW dir, NEW cb, NEW c
  PROVE  Notify(<<>>, fd, dir, cb, c) =
           <<[fd |-> fd, dir |-> dir, cb |-> cb, conn |-> c, cancelled |-> FALSE]>>
<1>1. ~Has(<<>>, fd, dir)
  BY DEF Has, Range
<1>2. PICK e : e = [fd |-> fd, dir |-> dir, cb |-> cb, conn |-> c, cancelled |-> FALSE]
  OBVIOUS
<1>3. Notify(<<>>, fd, dir, cb, c) = Append(<<>>, e)
  BY <1>1, <1>2 DEF Notify
<1>4. Append(<<>>, e) = <<e>>
  OBVIOUS
<1>5. QED
  BY <1>2, <1>3, <1>4

LEMMA ListIs ==
  ASSUME NEW e, poll_list' = <<e>>, EntryInv(e)'
  PROVE  ListInv' /\ InList' /\ Len(poll_list') = 1 /\ poll_list'[1] = e
BY DEF ListInv, InList

-----------------------------------------------------------------------------
(* Steps of the client that only make calls.                               *)

LEMMA OnlyCalls ==
  ASSUME AttemptInv, TInv', calls # <<>>, CallsInv', QueuesInv', InCalls' <=> InCalls,
         UNCHANGED <<passVars, poll_list, funcs, resolving, sock, server_fd, owner>>,
         \A c \in Conn : up'[c] => up[c],
         UNCHANGED <<current, made, crashed, upgrading>>,
         connected' = connected \/ (InCalls /\ current # NoConn)
  PROVE  AttemptInv'
<1>1. /\ SocketsInv /\ OnePlaceInv /\ ResolverInv /\ ListInv /\ FuncsInv /\ CallsInv /\ QueuesInv /\ PassInv
      /\ ~crashed
  BY DEF AttemptInv, Parts
<1>2. InCalls => ~AtResolver /\ ~InFuncs /\ ~InList
  BY <1>1 DEF OnePlaceInv
<1>3. SocketsInv' /\ PassInv'
  BY <1>1, SocketsKept, PassKept
<1>4. ResolverInv' /\ ListInv' /\ FuncsInv'
  BY <1>1, <1>2, ResolverKept, ListKept, FuncsKept
<1>5. OnePlaceInv'
  BY <1>1, PlaceKept DEF OnePlaceInv
<1>6. QED
  BY <1>1, <1>3, <1>4, <1>5 DEF AttemptInv, Parts

(* The step makes one call, for the attempt. *)
LEMMA CallsNext ==
  ASSUME AttemptInv, TInv', InCalls, ~Subscribing(calls[1]), calls[1].call \notin WriteCall,
         NEW x \in Call, Calling(<<x>>), ~Subscribing(x), x.call \notin WriteCall, ~Aside(x)', CallInv(x)',
         UNCHANGED <<passVars, poll_list, funcs, resolving, sock, server_fd, owner>>,
         \A c \in Conn : up'[c] => up[c],
         UNCHANGED <<write_op_queue, current, made, crashed, upgrading>>,
         connected' = connected \/ current # NoConn
  PROVE  AttemptInv'
<1>1. calls # <<>> /\ TInv /\ CallsInv /\ StackInv /\ QueuesInv
  BY DEF InCalls, AttemptInv, Parts, CallsInv
<1>2. CallsInv' /\ calls' # <<>> /\ calls'[1] = x
  BY <1>1, CallCalls
<1>3. InCalls'
  BY <1>2 DEF InCalls, Aside
<1>4. Quiet(<<x>>)
  BY QuietCalls
<1>5. QueuesInv'
  BY <1>1, <1>4, QueuesKept
<1>6. QED
  BY <1>1, <1>2, <1>3, <1>5, OnlyCalls

LEMMA ConnectDoneAttempt ==
  ASSUME AttemptInv, TInv', ConnectDone
  PROVE  AttemptInv'
<1>1. /\ Running("connect_cb") /\ TInv /\ CallInv(calls[1]) /\ calls[1] \in Call
      /\ UNCHANGED <<passVars, poll_list, funcs, streamVars, clientVars, made, worldVars>>
      /\ current \in Conn \union {NoConn}
  BY StackPositions DEF ConnectDone, AttemptInv, Parts, CallsInv, Running, TInv, ClientTypes
<1>2. /\ calls[1].conn = current /\ ~connected /\ calls[1].ec # "Cancelled" /\ calls[1].ec \in Code
      /\ calls[1].ec = "ok" => up[current]
      /\ current # NoConn
  <2>1. calls[1].conn \in Conn
    BY <1>1, CallFields DEF Running
  <2>2. QED
    BY <1>1, <2>1, CallFields DEF Running, CallInv, Conn, NoConn
<1>3. UNCHANGED <<resolving, sock, server_fd, up, owner, write_op_queue, current, connected, crashed, upgrading>>
  BY <1>1 DEF streamVars, clientVars, worldVars
<1>4. InCalls /\ ~Subscribing(calls[1]) /\ calls[1].call \notin WriteCall
  BY <1>1 DEF Running, InCalls, Aside, Subscribing, WriteCall
<1>5. PICK x \in Call : x = IF calls[1].ec = "ok" THEN [call |-> "send", op |-> "connect"] ELSE Fail(calls[1].ec)
  BY <1>2, CallForms DEF Op
<1>6. Calling(<<x>>)
  BY <1>5 DEF ConnectDone
<1>7. \/ x.call = "send" /\ x.op = "connect" /\ up[current]
      \/ x.call = "handle_error" /\ x.ec # "Cancelled"
  BY <1>2, <1>5 DEF Fail
<1>8. CallInv(x)' /\ ~Aside(x)' /\ ~Subscribing(x) /\ x.call \notin WriteCall
  BY <1>2, <1>3, <1>7 DEF CallInv, Aside, Subscribing, WriteCall
<1>9. QED
  BY <1>1, <1>3, <1>4, <1>6, <1>8, CallsNext

LEMMA ReadFailedAttempt ==
  ASSUME AttemptInv, TInv', ReadFailed
  PROVE  AttemptInv'
<1>1. /\ Running("read_cb") /\ TInv /\ CallInv(calls[1]) /\ calls[1] \in Call
      /\ UNCHANGED <<passVars, poll_list, funcs, streamVars, clientVars, made, worldVars>>
      /\ Calling(<<Fail(calls[1].ec)>>)
  BY StackPositions DEF ReadFailed, AttemptInv, Parts, CallsInv, Running
<1>2. calls[1].ec \in Code /\ (calls[1].ec = "Cancelled" => current = NoConn)
  BY <1>1, CallFields DEF Running, CallInv
<1>3. UNCHANGED <<resolving, sock, server_fd, up, owner, write_op_queue, current, connected, crashed, upgrading>>
  BY <1>1 DEF streamVars, clientVars, worldVars
<1>4. InCalls /\ ~Subscribing(calls[1]) /\ calls[1].call \notin WriteCall
  BY <1>1 DEF Running, InCalls, Aside, Subscribing, WriteCall
<1>5. PICK x \in Call : x = Fail(calls[1].ec)
  BY <1>2, CallForms DEF Op
<1>6. x.call = "handle_error" /\ (x.ec = "Cancelled" => current = NoConn)
  BY <1>2, <1>5 DEF Fail
<1>7. CallInv(x)' /\ ~Aside(x)' /\ ~Subscribing(x) /\ x.call \notin WriteCall
  BY <1>3, <1>6 DEF CallInv, Aside, Subscribing, WriteCall
<1>8. Calling(<<x>>)
  BY <1>1, <1>5
<1>9. QED
  BY <1>1, <1>3, <1>4, <1>7, <1>8, CallsNext

LEMMA WriteDoneAttempt ==
  ASSUME AttemptInv, TInv', WriteDone
  PROVE  AttemptInv'
<1>1. /\ Running("write_cb") /\ TInv /\ CallInv(calls[1]) /\ StackInv /\ QueuesInv
      /\ UNCHANGED <<passVars, poll_list, funcs, streamVars, current, connected, ping_timer, made, worldVars>>
  BY DEF WriteDone, AttemptInv, Parts, CallsInv, Running
<1>2. /\ calls[1].ec = "ok" /\ calls[1].op \in {"connect", "subscribe"}
      /\ calls[1].op = "connect" => current # NoConn
  BY <1>1 DEF Running, CallInv
<1>3. /\ UNCHANGED <<passVars, poll_list, funcs, resolving, sock, server_fd, up, owner>>
      /\ UNCHANGED <<write_op_queue, current, connected, made, crashed, upgrading>>
  BY <1>1 DEF streamVars, worldVars
<1>4. ~Subscribing(calls[1]) /\ calls[1].call \notin WriteCall /\ calls # <<>>
  BY <1>1 DEF Running, Subscribing, WriteCall
<1>5. CASE calls[1].op = "connect"
  <2>1. InCalls
    BY <1>1, <1>5 DEF Running, InCalls, Aside
  <2>2. PICK x \in Call : x = [call |-> "read_packet"]
    BY CallForms
  <2>3. Calling(<<x>>)
    BY <1>2, <1>5, <2>2 DEF WriteDone
  <2>4. CallInv(x)' /\ ~Aside(x)' /\ ~Subscribing(x) /\ x.call \notin WriteCall
    BY <1>2, <1>3, <1>5, <2>2 DEF CallInv, Aside, Subscribing, WriteCall
  <2>5. QED
    BY <1>1, <1>3, <1>4, <2>1, <2>3, <2>4, CallsNext
<1>6. CASE calls[1].op = "subscribe"
  <2>1. ~InCalls
    BY <1>1, <1>6 DEF Running, InCalls, Aside
  <2>2. Calling(<<>>)
    BY <1>2, <1>6 DEF WriteDone
  <2>3. CallsInv' /\ ~InCalls'
    BY <1>1, <1>4, <2>2, CallEnds
  <2>4. QueuesInv'
    BY <1>1, <1>3, <1>4, <2>2, QuietCalls, QueuesKept
  <2>5. QED
    BY <1>1, <1>3, <1>4, <2>1, <2>3, <2>4, OnlyCalls
<1>7. QED
  BY <1>2, <1>5, <1>6

LEMMA ReadPacketAttempt ==
  ASSUME AttemptInv, TInv', ReadPacket
  PROVE  AttemptInv'
<1>1. /\ Running("read_packet") /\ TInv /\ CallInv(calls[1])
      /\ UNCHANGED <<passVars, poll_list, funcs, streamVars, clientVars, made, sends, upgrading, server, session>>
      /\ current \in Conn \union {NoConn}
  BY DEF ReadPacket, AttemptInv, Parts, CallsInv, Running, TInv, ClientTypes
<1>2. current # NoConn /\ current \in Conn
  BY <1>1 DEF Running, CallInv
<1>3. PICK x \in Call : x = [call |-> "do_read", conn |-> current]
  BY <1>2, CallForms
<1>4. Calling(<<x>>) /\ UNCHANGED crashed
  BY <1>2, <1>3 DEF ReadPacket
<1>5. UNCHANGED <<resolving, sock, server_fd, up, owner, write_op_queue, current, connected>>
  BY <1>1 DEF streamVars, clientVars
<1>6. InCalls /\ ~Subscribing(calls[1]) /\ calls[1].call \notin WriteCall
  BY <1>1 DEF Running, InCalls, Aside, Subscribing, WriteCall
<1>7. CallInv(x)' /\ ~Aside(x)' /\ ~Subscribing(x) /\ x.call \notin WriteCall
  BY <1>3, <1>5 DEF CallInv, Aside, Subscribing, WriteCall
<1>8. QED
  BY <1>1, <1>4, <1>5, <1>6, <1>7, CallsNext

LEMMA ReadingAttempt ==
  ASSUME AttemptInv, TInv', NEW c \in Conn, Reading(c)
  PROVE  AttemptInv'
<1>1. /\ RunningFor(c, "do_read") /\ TInv /\ CallInv(calls[1]) /\ StackInv /\ QueuesInv
      /\ ReadClosed(c, Leaves(c)) \/ ReadError(c) \/ ReadAgain(c)
      /\ UNCHANGED <<clientVars, made, worldVars>>
  BY DEF Reading, ReadClosed, ReadError, ReadAgain, AttemptInv, Parts, CallsInv, Running, RunningFor
<1>2. InCalls /\ ~Subscribing(calls[1]) /\ calls[1].call \notin WriteCall /\ calls # <<>>
  BY <1>1 DEF RunningFor, Running, InCalls, Aside, Subscribing, WriteCall
<1>3. UNCHANGED <<current, connected, made, crashed, upgrading>> /\ current \in {c, NoConn}
  BY <1>1 DEF clientVars, worldVars, RunningFor, Running, CallInv
<1>4. CASE ReadClosed(c, Leaves(c)) \/ ReadError(c)
  <2>1. /\ UNCHANGED <<passVars, poll_list, funcs, resolving, sock, server_fd, owner>>
        /\ UNCHANGED write_op_queue
        /\ \A d \in Conn : up'[d] => up[d]
        /\ Calling(<<ReadCb("ConnectionClosed")>>) \/ Calling(<<ReadCb("ReadError")>>)
    BY <1>1, <1>4 DEF ReadClosed, ReadError, streamVars, TInv, StreamTypes
  <2>2. PICK x \in Call : Calling(<<x>>) /\ x.call = "read_cb" /\ x.ec # "Cancelled"
    <3>1. /\ \A e \in {"ConnectionClosed", "ReadError"} : ReadCb(e) \in Call
          /\ \A e \in {"ConnectionClosed", "ReadError"} : ReadCb(e).call = "read_cb" /\ ReadCb(e).ec = e
      BY CallForms DEF Code, ReadCb
    <3>2. QED
      BY <2>1, <3>1
  <2>3. CallInv(x)' /\ ~Aside(x)' /\ ~Subscribing(x) /\ x.call \notin WriteCall
    BY <2>2 DEF CallInv, Aside, Subscribing, WriteCall
  <2>4. QED
    BY <1>1, <1>2, <1>3, <2>1, <2>2, <2>3, CallsNext
<1>5. CASE ReadAgain(c)
  <2> DEFINE entry == [fd |-> sock[c], dir |-> "read", cb |-> "read", conn |-> c, cancelled |-> FALSE]
  <2>1. /\ SocketsInv /\ OnePlaceInv /\ ResolverInv /\ FuncsInv /\ PassInv /\ ~crashed
        /\ ~AtResolver /\ ~InFuncs /\ ~InList
    BY <1>2 DEF AttemptInv, Parts, OnePlaceInv
  <2>2. /\ UNCHANGED <<passVars, funcs, streamVars>> /\ Calling(<<>>) /\ up[c]
        /\ UNCHANGED <<resolving, sock, server_fd, up, owner, write_op_queue>>
        /\ poll_list' = <<entry>> /\ poll_list = <<>>
    <3>1. /\ poll_list' = Notify(poll_list, sock[c], "read", "read", c) /\ Calling(<<>>)
          /\ UNCHANGED <<passVars, funcs, streamVars>> /\ up[c]
      BY <1>5 DEF ReadAgain
    <3>2. Notify(<<>>, sock[c], "read", "read", c) = <<entry>>
      BY ListOne
    <3>3. QED
      BY <2>1, <3>1, <3>2 DEF streamVars, InList
  <2>3. c = current /\ Open(c)
    BY <2>1, <2>2 DEF SocketsInv, OwnSocket
  <2>4. CallsInv' /\ ~InCalls'
    BY <1>1, <1>2, <2>2, CallEnds
  <2>5. QueuesInv'
    BY <1>1, <1>2, <2>2, QuietCalls, QueuesKept
  <2>6. SocketsInv' /\ ResolverInv' /\ FuncsInv'
    BY <1>3, <2>1, <2>2, SocketsKept, ResolverKept, FuncsKept
  <2>7. ListInv' /\ InList' /\ Len(poll_list') = 1
    <3>1. PICK e : e = entry
      OBVIOUS
    <3>2. EntryInv(e)'
      BY <1>3, <2>2, <2>3, <3>1 DEF EntryInv, Open
    <3>3. QED
      BY <2>2, <3>1, <3>2, ListIs
  <2>8. OnePlaceInv'
    <3>1. ~AtResolver' /\ ~InFuncs'
      BY <2>1, <2>2 DEF AtResolver, InFuncs
    <3>2. QED
      BY <1>2, <1>3, <2>1, <2>2, <2>4, <2>7, <3>1 DEF OnePlaceInv
  <2>9. PassInv'
    BY <2>1, <2>2 DEF PassInv, passVars
  <2>10. QED
    BY <1>3, <2>1, <2>4, <2>5, <2>6, <2>7, <2>8, <2>9 DEF AttemptInv, Parts
<1>6. QED
  BY <1>1, <1>4, <1>5

-----------------------------------------------------------------------------
(* Receiving.                                                              *)

(* The call is done, and subscribes before it reads on. *)
LEMMA CallSubscribes ==
  ASSUME TInv, StackInv, calls # <<>>, ~Subscribing(calls[1]), NEW x \in Call, NEW y \in Call,
         Calling(<<x, y>>), Subscribing(x), y.call = "read_packet", CallInv(x)'
  PROVE  CallsInv' /\ calls' # <<>> /\ calls'[1] = x
<1> DEFINE s == <<x, y>>
<1>1. /\ calls \in Seq(Call) /\ Behind /\ s \in Seq(Call) /\ Len(s) = 2 /\ DOMAIN s = {1, 2}
      /\ s[1] = x /\ s[2] = y
      /\ \A n \in 2..Len(s) : s[n].call = "read_packet"
  BY DEF TInv, LInv, LoopTypes
<1>2. Calling(s)
  OBVIOUS
<1> HIDE DEF s
<1>3. /\ calls' \in Seq(Call) /\ Len(calls') = Len(calls) + 1 /\ Len(calls) \in Nat \ {0}
      /\ calls'[1] = x /\ calls'[2] = y
      /\ \A n \in 2..Len(calls') : n # 2 => n - 1 \in 2..Len(calls) /\ calls'[n] = calls[n - 1]
  <2>1. /\ calls' \in Seq(Call) /\ Len(s) \in Nat /\ Len(calls) \in Nat \ {0}
        /\ DOMAIN calls' = 1..Len(calls') /\ Len(calls') = Len(s) + Len(calls) - 1
        /\ \A n \in DOMAIN s : n \in DOMAIN calls' /\ calls'[n] = s[n]
        /\ \A n \in DOMAIN calls' :
             \/ n \in DOMAIN s /\ calls'[n] = s[n]
             \/ /\ n > Len(s) /\ n - Len(s) + 1 \in 2..Len(calls)
                /\ calls'[n] = calls[n - Len(s) + 1]
    BY <1>1, <1>2, CallingIs
  <2>2. Len(calls') = Len(calls) + 1
    BY <1>1, <2>1
  <2>3. ASSUME NEW n \in 2..Len(calls'), n # 2
        PROVE  n - 1 \in 2..Len(calls) /\ calls'[n] = calls[n - 1]
    <3>1. n \in DOMAIN calls' /\ n \notin DOMAIN s /\ n - 2 + 1 = n - 1
      BY <1>1, <2>1, <2>3
    <3>2. QED
      BY <1>1, <2>1, <3>1
  <2>4. QED
    BY <1>1, <2>1, <2>2, <2>3
<1>4. calls' # <<>> /\ Len(calls') > 1
  BY <1>3
<1>5. ASSUME NEW n \in 2..Len(calls')
      PROVE  /\ calls'[n].call \in {"read_packet", "written"}
             /\ calls'[n].call = "read_packet" => n = 2
  <2>1. CASE n = 2
    BY <1>3, <2>1
  <2>2. CASE n # 2
    <3>1. n - 1 \in 2..Len(calls) /\ calls'[n] = calls[n - 1]
      BY <1>3, <2>2
    <3>2. QED
      BY <3>1 DEF StackInv
  <2>3. QED
    BY <2>1, <2>2
<1>6. StackInv'
  BY <1>3, <1>4, <1>5 DEF StackInv, Subscribing
<1>7. QED
  BY <1>3, <1>4, <1>6 DEF CallsInv

(* What every packet finds. *)
LEMMA ReceivesIs ==
  ASSUME AttemptInv, NEW c \in Conn, RunningFor(c, "do_read"), up[c]
  PROVE  /\ TInv /\ StackInv /\ QueuesInv /\ calls # <<>>
         /\ InCalls /\ ~Subscribing(calls[1]) /\ calls[1].call \notin WriteCall
         /\ c = current /\ current # NoConn /\ Open(c)
<1>1. c = current /\ Open(c) /\ c # NoConn
  BY DEF AttemptInv, Parts, SocketsInv, OwnSocket, Conn, NoConn
<1>2. QED
  BY <1>1 DEF AttemptInv, Parts, CallsInv, RunningFor, Running, InCalls, Aside, Subscribing, WriteCall

(* The next packet is read. *)
LEMMA ReadsOn ==
  ASSUME AttemptInv, TInv', NEW c \in Conn, RunningFor(c, "do_read"), up[c], Calling(ReadNext),
         UNCHANGED <<passVars, poll_list, funcs, streamVars, current, made, crashed, upgrading>>
  PROVE  AttemptInv'
<1>1. /\ TInv /\ InCalls /\ ~Subscribing(calls[1]) /\ calls[1].call \notin WriteCall
      /\ current # NoConn
  BY ReceivesIs
<1>2. UNCHANGED <<resolving, sock, server_fd, up, owner, write_op_queue>>
  BY DEF streamVars
<1>3. PICK x \in Call : x = [call |-> "read_packet"]
  BY CallForms
<1>4. Calling(<<x>>)
  BY <1>3 DEF ReadNext
<1>5. CallInv(x)' /\ ~Aside(x)' /\ ~Subscribing(x) /\ x.call \notin WriteCall
  BY <1>1, <1>2, <1>3 DEF CallInv, Aside, Subscribing, WriteCall
<1>6. QED
  BY <1>1, <1>2, <1>4, <1>5, CallsNext

LEMMA ConnAckAttempt ==
  ASSUME AttemptInv, TInv', NEW c \in Conn, ConnAck(c)
  PROVE  AttemptInv'
<1>1. /\ RunningFor(c, "do_read") /\ up[c]
      /\ UNCHANGED <<passVars, poll_list, funcs, streamVars, current, made, crashed, upgrading>>
  BY DEF ConnAck, Receive
<1>2. CASE ~Subscribes
  <2>1. Calling(ReadNext)
    BY <1>2 DEF ConnAck
  <2>2. QED
    BY <1>1, <2>1, ReadsOn
<1>3. CASE Subscribes
  <2>1. /\ TInv /\ StackInv /\ QueuesInv /\ calls # <<>>
        /\ InCalls /\ ~Subscribing(calls[1]) /\ calls[1].call \notin WriteCall
        /\ c = current /\ current # NoConn
    BY <1>1, ReceivesIs
  <2>2. UNCHANGED <<resolving, sock, server_fd, up, owner, write_op_queue>>
    BY <1>1 DEF streamVars
  <2>3. PICK x \in Call : x = [call |-> "send", op |-> "subscribe"]
    BY CallForms DEF Op
  <2>4. PICK y \in Call : y = [call |-> "read_packet"]
    BY CallForms
  <2>5. Calling(<<x, y>>)
    <3>1. Calling(<<[call |-> "send", op |-> "subscribe"]>> \o ReadNext)
      BY <1>3 DEF ConnAck
    <3>2. <<x>> \o <<y>> = <<x, y>>
      BY Joined
    <3>3. QED
      BY <2>3, <2>4, <3>1, <3>2 DEF ReadNext
  <2>6. /\ CallInv(x)' /\ ~Aside(x)' /\ Subscribing(x) /\ y.call = "read_packet"
        /\ x.call \notin WriteCall
    BY <1>1, <2>1, <2>2, <2>3, <2>4 DEF CallInv, Aside, Subscribing, WriteCall
  <2>7. CallsInv' /\ calls' # <<>> /\ calls'[1] = x
    BY <2>1, <2>5, <2>6, CallSubscribes
  <2>8. InCalls'
    BY <2>6, <2>7 DEF InCalls, Aside
  <2>9. QueuesInv'
    <3>1. Quiet(<<x, y>>)
      BY <2>6, QuietCalls
    <3>2. QED
      BY <2>1, <2>2, <2>5, <3>1, QueuesKept
  <2>10. QED
    BY <1>1, <2>1, <2>2, <2>7, <2>8, <2>9, OnlyCalls
<1>4. QED
  BY <1>2, <1>3

LEMMA CommandAttempt ==
  ASSUME AttemptInv, TInv', NEW c \in Conn, Command(c)
  PROVE  AttemptInv'
<1>1. /\ RunningFor(c, "do_read") /\ up[c] /\ ~upgrading
      /\ UNCHANGED <<passVars, poll_list, streamVars, clientVars, made, worldVars>>
      /\ Upgrading \notin Range(funcs)
      /\ funcs' = Append(funcs, Upgrading) /\ Calling(ReadNext)
  BY DEF Command, Upgrading
<1>2. /\ TInv /\ StackInv /\ QueuesInv /\ calls # <<>>
      /\ InCalls /\ ~Subscribing(calls[1]) /\ calls[1].call \notin WriteCall
      /\ c = current /\ current # NoConn
  BY <1>1, ReceivesIs
<1>3. /\ SocketsInv /\ OnePlaceInv /\ ResolverInv /\ ListInv /\ FuncsInv /\ CallsInv /\ QueuesInv /\ PassInv
      /\ ~crashed
  BY DEF AttemptInv, Parts
<1>4. UNCHANGED <<resolving, sock, server_fd, up, owner, write_op_queue, current, connected, crashed, upgrading>>
  BY <1>1 DEF streamVars, clientVars, worldVars
<1>5. PICK x \in Call : x = [call |-> "read_packet"]
  BY CallForms
<1>6. Calling(<<x>>) /\ Quiet(<<x>>) /\ CallInv(x)' /\ ~Aside(x)' /\ ~Subscribing(x)
  BY <1>1, <1>2, <1>4, <1>5, QuietCalls DEF CallInv, Aside, Subscribing, WriteCall, ReadNext
<1>7. CallsInv' /\ InCalls' /\ QueuesInv'
  <2>1. CallsInv' /\ calls' # <<>> /\ calls'[1] = x
    BY <1>2, <1>6, CallCalls
  <2>2. QED
    BY <1>2, <1>4, <1>6, <2>1, QueuesKept DEF InCalls, Aside
<1>8. PICK g \in Func : g = Upgrading
  <2>1. PICK y \in Call : y = [call |-> "upgrade"]
    BY CallForms
  <2>2. y.call = "upgrade"
    BY <2>1
  <2>3. Invoked(y) \in Func
    BY <2>2, FuncMembers
  <2>4. QED
    BY <2>1, <2>3 DEF Upgrading
<1>9. g.f = "call" /\ ~Carries(g) /\ \A d : ~Touches(g, d)
  BY <1>8 DEF Upgrading, Invoked, Carries, Touches
<1>10. FuncsInv'
  <2>1. \A f \in Range(funcs) : FuncInv(f)'
    BY <1>3, <1>4 DEF FuncsInv, FuncInv, Open, Idle, Upgrading, Range
  <2>2. FuncInv(g)'
    BY <1>1, <1>4, <1>8, <1>9 DEF FuncInv, Upgrading
  <2>3. \A n \in DOMAIN funcs : funcs[n] # Upgrading
    BY <1>1 DEF Range
  <2>4. QED
    BY <1>1, <1>2, <1>3, <1>8, <1>9, <2>1, <2>2, <2>3, FuncsAppended
<1>11. /\ InFuncs' <=> InFuncs
       /\ \A m, n \in DOMAIN funcs' : Carries(funcs'[m]) /\ Carries(funcs'[n]) => m = n
       /\ PassInv'
  BY <1>1, <1>2, <1>3, <1>8, <1>9, PlacesAppended DEF OnePlaceInv
<1>12. OnePlaceInv'
  <2>1. InCalls => made # 0
    BY <1>2, <1>3 DEF OnePlaceInv
  <2>2. QED
    BY <1>1, <1>2, <1>3, <1>4, <1>7, <1>11, <2>1 DEF OnePlaceInv, AtResolver, InList
<1>13. SocketsInv' /\ ResolverInv' /\ ListInv'
  BY <1>1, <1>3, <1>4, SocketsKept, ResolverKept, ListKept
<1>14. QED
  BY <1>3, <1>4, <1>7, <1>10, <1>11, <1>12, <1>13 DEF AttemptInv, Parts

LEMMA ReceivingAttempt ==
  ASSUME OnlyConnectionsFail, AttemptInv, TInv', NEW c \in Conn, Receiving(c)
  PROVE  AttemptInv'
<1>1. ~Refused(c) /\ ~Malformed(c)
  BY DEF Refused, Malformed, OnlyConnectionsFail
<1>2. CASE SubAck(c) \/ PingResp(c)
  <2>1. /\ RunningFor(c, "do_read") /\ up[c] /\ Calling(ReadNext)
        /\ UNCHANGED <<passVars, poll_list, funcs, streamVars, current, made, crashed, upgrading>>
    BY <1>2 DEF SubAck, PingResp, Receive
  <2>2. QED
    BY <2>1, ReadsOn
<1>3. QED
  BY <1>1, <1>2, ConnAckAttempt, CommandAttempt DEF Receiving

-----------------------------------------------------------------------------
(* Sending and writing.                                                    *)

(* The subscriptions are sent, and what is behind them reads on. *)
LEMMA SubscribedReads ==
  ASSUME TInv, StackInv, calls # <<>>, Subscribing(calls[1]), Calling(<<>>), current' # NoConn
  PROVE  CallsInv' /\ InCalls'
<1> DEFINE s == <<>>
<1>1. /\ calls \in Seq(Call) /\ Behind /\ s \in Seq(Call) /\ Len(s) = 0 /\ DOMAIN s = {}
      /\ \A n \in 2..Len(s) : FALSE
  BY DEF TInv, LInv, LoopTypes
<1>2. Calling(s)
  OBVIOUS
<1> HIDE DEF s
<1>3. /\ calls' \in Seq(Call) /\ Len(calls') = Len(calls) - 1 /\ Len(calls) \in Nat
      /\ DOMAIN calls' = 1..Len(calls')
      /\ \A n \in DOMAIN calls' : n + 1 \in 2..Len(calls) /\ calls'[n] = calls[n + 1]
  <2>1. /\ calls' \in Seq(Call) /\ Len(s) \in Nat /\ Len(calls) \in Nat \ {0}
        /\ DOMAIN calls' = 1..Len(calls') /\ Len(calls') = Len(s) + Len(calls) - 1
        /\ \A n \in DOMAIN calls' :
             \/ n \in DOMAIN s /\ calls'[n] = s[n]
             \/ /\ n > Len(s) /\ n - Len(s) + 1 \in 2..Len(calls)
                /\ calls'[n] = calls[n - Len(s) + 1]
    BY <1>1, <1>2, CallingIs
  <2>2. \A n \in DOMAIN calls' : n - 0 + 1 = n + 1
    BY <2>1
  <2>3. QED
    BY <1>1, <2>1, <2>2
<1>4. Len(calls) > 1 /\ calls[2].call = "read_packet"
  BY DEF StackInv
<1>5. 1 \in DOMAIN calls' /\ 1 + 1 = 2 /\ calls' # <<>>
  BY <1>3, <1>4
<1>6. calls'[1].call = "read_packet"
  BY <1>3, <1>4, <1>5
<1>7. \A n \in 2..Len(calls') : calls'[n].call = "written"
  <2>1. SUFFICES ASSUME NEW n \in 2..Len(calls') PROVE calls'[n].call = "written"
    OBVIOUS
  <2>2. n \in DOMAIN calls' /\ n + 1 # 2
    BY <1>3
  <2>3. n + 1 \in 2..Len(calls) /\ calls'[n] = calls[n + 1]
    BY <1>3, <2>2
  <2>4. QED
    BY <2>2, <2>3 DEF StackInv
<1>8. StackInv'
  BY <1>6, <1>7 DEF StackInv, Subscribing
<1>9. (CallInv(calls[1]))'
  BY <1>6 DEF CallInv
<1>10. InCalls'
  BY <1>5, <1>6 DEF InCalls, Aside
<1>11. QED
  BY <1>8, <1>9, <1>10 DEF CallsInv

LEMMA SendAttempt ==
  ASSUME AttemptInv, TInv', Send
  PROVE  AttemptInv'
<1>1. /\ Running("send") /\ TInv /\ CallInv(calls[1]) /\ StackInv /\ QueuesInv /\ CallsInv
      /\ SocketsInv /\ OnePlaceInv /\ ResolverInv /\ ListInv /\ FuncsInv /\ PassInv /\ ~crashed
      /\ UNCHANGED <<passVars, poll_list, streamVars, clientVars, made, sends, upgrading, server, session>>
      /\ current \in Conn \union {NoConn}
  BY DEF Send, AttemptInv, Parts, CallsInv, Running, TInv, ClientTypes
<1>2. /\ calls[1].op \in {"connect", "subscribe"} /\ current \in Conn /\ current # NoConn /\ up[current]
      /\ calls[1].op = "connect" => ~connected
      /\ Open(current)
  BY <1>1 DEF Running, CallInv, SocketsInv, OwnSocket
<1>3. PICK g \in Func : g = Write(current, calls[1].op)
  BY <1>2, FuncMembers DEF Op
<1>4. g.f = "write" /\ g.conn = current /\ g.op = calls[1].op
  BY <1>3 DEF Write
<1>5. funcs' = Append(funcs, g) /\ Calling(<<>>) /\ UNCHANGED crashed
  BY <1>2, <1>3 DEF Send
<1>6. UNCHANGED <<resolving, sock, server_fd, up, owner, write_op_queue, current, connected>>
  BY <1>1 DEF streamVars, clientVars
<1>7. /\ calls # <<>> /\ calls[1].call \notin WriteCall /\ InCalls
      /\ Subscribing(calls[1]) <=> calls[1].op = "subscribe"
  BY <1>1 DEF Running, Subscribing, WriteCall, InCalls, Aside
<1>8. ~AtResolver /\ ~InFuncs /\ ~InList /\ made # 0
  BY <1>1, <1>7 DEF OnePlaceInv
<1>9. CallsInv' /\ (InCalls' <=> ~Carries(g))
  <2>1. Carries(g) <=> ~Subscribing(calls[1])
    BY <1>2, <1>4, <1>7 DEF Carries
  <2>2. QED
    BY <1>1, <1>2, <1>5, <1>6, <1>7, <2>1, CallEnds, SubscribedReads
<1>10. QueuesInv'
  BY <1>1, <1>5, <1>6, <1>7, QuietCalls, QueuesKept
<1>11. FuncsInv'
  <2>1. \A f \in Range(funcs) : FuncInv(f)'
    BY <1>1, <1>6 DEF FuncsInv, FuncInv, Open, Idle, Upgrading, Range
  <2>2. FuncInv(g)'
    BY <1>2, <1>4, <1>6 DEF FuncInv, Open
  <2>3. \A n \in DOMAIN funcs : funcs[n].f = "close" => ~Touches(g, funcs[n].conn)
    BY <1>1, <1>4 DEF FuncsInv, FuncInv, Touches
  <2>4. QED
    BY <1>1, <1>4, <1>5, <2>1, <2>2, <2>3, FuncsAppended DEF Upgrading, Invoked
<1>12. /\ InFuncs' <=> Carries(g)
       /\ \A m, n \in DOMAIN funcs' : Carries(funcs'[m]) /\ Carries(funcs'[n]) => m = n
       /\ PassInv'
  BY <1>1, <1>5, <1>8, PlacesAppended DEF OnePlaceInv
<1>13. OnePlaceInv'
  BY <1>1, <1>2, <1>6, <1>8, <1>9, <1>12 DEF OnePlaceInv, AtResolver, InList
<1>14. SocketsInv' /\ ResolverInv' /\ ListInv'
  BY <1>1, <1>6, SocketsKept, ResolverKept, ListKept
<1>15. QED
  BY <1>1, <1>5, <1>9, <1>10, <1>11, <1>12, <1>13, <1>14 DEF AttemptInv, Parts

(* The only write that is called is the one that runs. *)
LEMMA WritesAlone ==
  ASSUME TInv, StackInv, calls # <<>>, calls[1].call \in WriteCall
  PROVE  Len(calls) = 1 /\ \A d \in Conn : WriteCalled(d) => d = calls[1].conn
<1>1. /\ calls \in Seq(Call) /\ Len(calls) \in Nat /\ Len(calls) > 0 /\ DOMAIN calls = 1..Len(calls)
      /\ OneWriteCall
  BY StackPositions DEF TInv, LInv, OneWrite
<1>2. ASSUME Len(calls) > 1
      PROVE  FALSE
  <2>1. 1 \in DOMAIN calls /\ 2 \in DOMAIN calls /\ 2 \in 2..Len(calls)
    BY <1>1, <1>2
  <2>2. ~Subscribing(calls[1])
    BY DEF Subscribing, WriteCall
  <2>3. calls[2].call = "written"
    BY <2>1, <2>2 DEF StackInv
  <2>4. QED
    BY <1>1, <2>1, <2>3 DEF OneWriteCall, WriteCall
<1>3. Len(calls) = 1
  BY <1>1, <1>2
<1>4. QED
  BY <1>1, <1>3 DEF WriteCalled

LEMMA WritingAttempt ==
  ASSUME OnlyConnectionsFail, AttemptInv, TInv', NEW c \in Conn, Writing(c)
  PROVE  AttemptInv'
<1>1. PICK result \in {"done", "again", "write_error"} : DoWrite(c, result)
  BY DEF Writing
<1>2. /\ RunningFor(c, "do_write") /\ TInv /\ CallInv(calls[1]) /\ StackInv /\ QueuesInv /\ SocketsInv
      /\ UNCHANGED <<passVars, funcs, streamVars, clientVars, made, crashed, upgrading>>
      /\ result \in WriteResult(c)
  BY <1>1 DEF Writing, DoWrite, RunningFor, AttemptInv, Parts, CallsInv, Running
<1>3. /\ Open(c) /\ write_op_queue[c] \in {<<"connect">>, <<"subscribe">>}
      /\ write_op_queue[c] = <<"connect">> => c = current /\ ~connected
      /\ calls # <<>> /\ calls[1].call = "do_write" /\ calls[1].conn = c
  BY <1>2 DEF RunningFor, Running, CallInv
<1>4. result = "done"
  <2>1. Target(c) = sock[c] /\ sock[c] # NoFd /\ owner[sock[c]] = c
    BY <1>2, <1>3 DEF Open, Target, SocketsInv, OwnSocket
  <2>2. owner[Target(c)] # Free
    BY <2>1 DEF Conn, Free
  <2>3. Faults \cap {"again", "write_error"} = {}
    BY DEF OnlyConnectionsFail
  <2>4. WriteResult(c) = {"done"}
    BY <2>1, <2>2, <2>3 DEF WriteResult
  <2>5. QED
    BY <1>2, <2>4
<1>5. PICK op \in {"connect", "subscribe"} : write_op_queue[c] = <<op>>
  BY <1>3
<1>6. PICK x \in Call : x = WriteCb(op, "ok")
  BY <1>5 DEF WriteCb, Call, Op, Code
<1>7. PICK y \in Call : y = [call |-> "written", conn |-> c]
  BY DEF Call
<1>8. /\ x.call = "write_cb" /\ x.op = op /\ x.ec = "ok" /\ y.call = "written" /\ y.conn = c
      /\ Calling(<<x, y>>) /\ poll_list' = poll_list
  <2>1. Head(write_op_queue[c]) = op
    BY <1>5
  <2>2. QED
    BY <1>1, <1>4, <1>6, <1>7, <2>1 DEF DoWrite, WriteCb
<1>9. UNCHANGED <<resolving, sock, server_fd, up, owner, write_op_queue, current, connected>>
  BY <1>2 DEF streamVars, clientVars
<1>10. Len(calls) = 1 /\ \A d \in Conn : WriteCalled(d) => d = c
  BY <1>2, <1>3, WritesAlone DEF WriteCall
<1>11. calls' = <<x, y>>
  <2>1. calls \in Seq(Call) /\ calls # <<>>
    BY <1>2, <1>3 DEF TInv, LInv, LoopTypes
  <2>2. Tail(calls) \in Seq(Call) /\ Len(Tail(calls)) = 0
    BY <1>10, <2>1, HeadTailProperties
  <2>3. Tail(calls) = <<>>
    BY <2>2, EmptySeq
  <2>4. <<x, y>> \o <<>> = <<x, y>>
    OBVIOUS
  <2>5. QED
    BY <1>8, <2>3, <2>4 DEF Calling
<1>12. calls' # <<>> /\ Len(calls') = 2 /\ calls'[1] = x /\ calls'[2] = y /\ DOMAIN calls' = 1..2
  BY <1>11
<1>13. CallsInv'
  <2>1. StackInv'
    BY <1>8, <1>12 DEF StackInv, Subscribing
  <2>2. CallInv(x)'
    BY <1>3, <1>5, <1>8, <1>9 DEF CallInv, Conn, NoConn
  <2>3. QED
    BY <1>12, <2>1, <2>2 DEF CallsInv
<1>14. InCalls' <=> InCalls
  <2>1. InCalls <=> op = "connect"
    BY <1>3, <1>5 DEF InCalls, Aside
  <2>2. InCalls' <=> op = "connect"
    BY <1>5, <1>8, <1>12 DEF InCalls, Aside
  <2>3. QED
    BY <2>1, <2>2
<1>15. QueuesInv'
  BY <1>2, <1>8, <1>9, <1>10, <1>12 DEF QueuesInv, WriteCalled, WriteCall
<1>16. QED
  BY <1>2, <1>3, <1>8, <1>9, <1>13, <1>14, <1>15, OnlyCalls

LEMMA WrittenAttempt ==
  ASSUME AttemptInv, TInv', NEW c \in Conn, Written(c), UNCHANGED <<clientVars, made, worldVars>>
  PROVE  AttemptInv'
<1>1. /\ RunningFor(c, "written") /\ TInv /\ StackInv /\ QueuesInv /\ OneWrite
      /\ UNCHANGED <<passVars, funcs, resolving, sock, server_fd, up, owner>> /\ Calling(<<>>)
      /\ UNCHANGED <<current, connected, made, crashed, upgrading>>
      /\ write_op_queue' = [write_op_queue EXCEPT ![c] = Tail(@)]
      /\ write_op_queue \in [Conn -> Seq(Op)]
  BY DEF Written, RunningFor, AttemptInv, Parts, CallsInv, clientVars, worldVars, TInv, LInv, StreamTypes
<1>2. calls # <<>> /\ calls[1].call = "written" /\ calls[1].conn = c /\ ~Subscribing(calls[1]) /\ ~InCalls
  BY <1>1 DEF RunningFor, Running, Subscribing, InCalls, Aside
<1>3. WriteCalled(c)
  BY <1>1, <1>2, StackPositions DEF WriteCalled, WriteCall
<1>4. \A d \in Conn : WriteCalled(d) => d = c
  BY <1>1, <1>2, WritesAlone DEF WriteCall
<1>5. \A d \in Conn : write_op_queue'[d] = <<>>
  <2>1. \A d \in Conn \ {c} : write_op_queue'[d] = <<>>
    BY <1>1, <1>4 DEF QueuesInv
  <2>2. write_op_queue[c] # <<>> /\ Len(write_op_queue[c]) = 1 /\ write_op_queue[c] \in Seq(Op)
    BY <1>1, <1>3 DEF QueuesInv, OneWrite
  <2>3. Tail(write_op_queue[c]) \in Seq(Op) /\ Len(Tail(write_op_queue[c])) = 0
    BY <2>2, HeadTailProperties
  <2>4. Tail(write_op_queue[c]) = <<>>
    BY <2>3, EmptySeq
  <2>5. QED
    BY <1>1, <2>1, <2>4
<1>6. poll_list' = poll_list
  BY <1>5 DEF Written
<1>7. QueuesInv'
  BY <1>5 DEF QueuesInv
<1>8. CallsInv' /\ ~InCalls'
  BY <1>1, <1>2, CallEnds
<1>9. QED
  BY <1>1, <1>2, <1>6, <1>7, <1>8, OnlyCalls

-----------------------------------------------------------------------------
(* The stream is dropped.                                                  *)

LEMMA DropFuncs ==
  ASSUME TInv, TInv', SocketsInv, FuncsInv, PassInv, ~InFuncs, DropStream,
         UNCHANGED <<passVars, poll_list, sock, server_fd>>,
         current' > made \/ current' = NoConn,
         upgrading' = upgrading \/ \A n \in DOMAIN funcs : funcs[n] # Upgrading
  PROVE  FuncsInv' /\ ~InFuncs' /\ PassInv' /\ \A c \in Conn : ~up'[c]
<1>1. /\ current \in Conn \union {NoConn} /\ current' \in Conn \union {NoConn} /\ made \in Nat
      /\ up \in [Conn -> BOOLEAN] /\ sock \in [Conn -> Fd \union {NoFd}]
  BY DEF TInv, ClientTypes, StreamTypes
<1>2. \A c \in Conn : sock[c] # NoFd => c <= made /\ c # current'
  <2>1. ASSUME NEW c \in Conn, sock[c] # NoFd
        PROVE  c <= made /\ c # current'
    <3>1. c <= made /\ c # NoConn /\ c \in Nat
      BY <2>1 DEF SocketsInv, OwnSocket, Conn, NoConn
    <3>2. QED
      BY <1>1, <3>1 DEF Conn
  <2>2. QED
    BY <2>1
<1>3. \A c \in Conn : ~up'[c]
  <2>1. SUFFICES ASSUME NEW c \in Conn PROVE ~up'[c]
    OBVIOUS
  <2>2. (up[c] => c = current) /\ c # NoConn
    BY DEF SocketsInv, OwnSocket, Conn, NoConn
  <2>3. CASE current = NoConn
    BY <2>2, <2>3 DEF DropStream
  <2>4. CASE current # NoConn
    BY <1>1, <2>2, <2>4 DEF DropStream
  <2>5. QED
    BY <2>3, <2>4
<1>4. \A f \in Range(funcs) : FuncInv(f)'
  <2>1. SUFFICES ASSUME NEW n \in DOMAIN funcs, NEW f, f = funcs[n] PROVE FuncInv(f)'
    BY DEF Range
  <2>2. FuncInv(f) /\ ~Carries(f) /\ f \in Func
    BY <2>1 DEF FuncsInv, InFuncs, TInv, LInv, LoopTypes
  <2>3. f.f = "close" => f.conn # current'
    BY <1>2, <2>2, FuncFields DEF FuncInv
  <2>4. f.f = "call" => f = Joining \/ (f = Upgrading /\ ~upgrading')
    BY <2>1, <2>2 DEF FuncInv
  <2>5. QED
    BY <2>2, <2>3, <2>4 DEF FuncInv, Carries, Open, Upgrading
<1>5. CASE funcs' = funcs
  <2>1. FuncsInv'
    BY <1>4, <1>5 DEF FuncsInv, Range, Touches
  <2>2. PassInv'
    BY <1>5, PassKept
  <2>3. ~InFuncs'
    BY <1>5 DEF InFuncs
  <2>4. QED
    BY <1>3, <2>1, <2>2, <2>3
<1>6. CASE funcs' # funcs
  <2>1. current # NoConn /\ up[current] /\ current \in Conn
        /\ funcs' = Append(funcs, [f |-> "close", conn |-> current])
    BY <1>1, <1>6 DEF DropStream, Closing
  <2>2. sock[current] # NoFd
    BY <2>1 DEF SocketsInv, OwnSocket, Open
  <2>3. PICK g \in Func : g = [f |-> "close", conn |-> current]
    BY <2>1, FuncMembers
  <2>4. g.f = "close" /\ g.conn = current
    BY <2>3
  <2>5. FuncInv(g)'
    BY <1>2, <2>1, <2>2, <2>4 DEF FuncInv
  <2>6. \A n \in DOMAIN funcs : funcs[n].f = "close" => ~Touches(g, funcs[n].conn)
    BY <2>4 DEF FuncsInv, FuncInv, Touches
  <2>7. FuncsInv'
    BY <1>4, <2>1, <2>3, <2>4, <2>5, <2>6, FuncsAppended DEF Upgrading, Invoked
  <2>8. ~InFuncs' /\ PassInv'
    BY <2>1, <2>3, <2>4, PlacesAppended DEF Carries
  <2>9. QED
    BY <1>3, <2>7, <2>8
<1>7. QED
  BY <1>5, <1>6

LEMMA HandleErrorAttempt ==
  ASSUME AttemptInv, TInv', HandleError
  PROVE  AttemptInv'
<1>1. /\ Running("handle_error") /\ TInv /\ CallInv(calls[1]) /\ StackInv /\ QueuesInv
      /\ SocketsInv /\ OnePlaceInv /\ ResolverInv /\ ListInv /\ FuncsInv /\ PassInv /\ ~crashed
      /\ UNCHANGED <<passVars, poll_list, sock, server_fd, write_op_queue, owner, crashed, upgrading>>
      /\ Calling(<<>>) /\ connected' = FALSE /\ DropStream
      /\ made \in 0..MaxConn
  BY DEF HandleError, AttemptInv, Parts, CallsInv, Running, worldVars, TInv, ClientTypes
<1>2. calls # <<>> /\ calls[1].call \notin WriteCall /\ InCalls /\ ~Subscribing(calls[1])
  BY <1>1 DEF Running, WriteCall, InCalls, Aside, Subscribing
<1>3. ~AtResolver /\ ~InFuncs /\ ~InList /\ made # 0
  BY <1>1, <1>2 DEF OnePlaceInv
<1>4. CallsInv' /\ ~InCalls'
  BY <1>1, <1>2, CallEnds
<1>5. QueuesInv'
  BY <1>1, <1>2, QuietCalls, QueuesKept
<1>6. ~InList' /\ ListInv'
  BY <1>1, <1>3 DEF InList, ListInv
<1>7. CASE calls[1].ec = "Cancelled"
  <2>1. current' = NoConn /\ UNCHANGED <<made, resolving>> /\ current = NoConn
    BY <1>1, <1>7 DEF HandleError, Running, CallInv
  <2>2. upgrading
    BY <1>1, <1>3, <2>1 DEF OnePlaceInv
  <2>3. FuncsInv' /\ ~InFuncs' /\ PassInv' /\ \A c \in Conn : ~up'[c]
    BY <1>1, <1>3, <2>1, DropFuncs
  <2>4. SocketsInv'
    BY <1>1, <2>1, <2>3, SocketsKept
  <2>5. ~AtResolver' /\ ResolverInv'
    BY <1>3, <2>1 DEF AtResolver, ResolverInv
  <2>6. Len(resolving') <= 1 /\ Len(poll_list') <= 1
    BY <1>1, <2>1 DEF OnePlaceInv
  <2>7. OnePlaceInv'
    BY <1>1, <1>3, <1>4, <1>6, <2>1, <2>2, <2>3, <2>5, <2>6 DEF OnePlaceInv, InFuncs
  <2>8. QED
    BY <1>1, <1>4, <1>5, <1>6, <2>3, <2>4, <2>5, <2>7 DEF AttemptInv, Parts
<1>8. CASE calls[1].ec # "Cancelled"
  <2>1. made < MaxConn /\ made' = made + 1 /\ current' = made + 1 /\ resolving' = Append(resolving, made + 1)
    BY <1>8 DEF HandleError, NewStream
  <2>2. /\ made + 1 \in Conn /\ current' > made /\ made' > made /\ current' # NoConn /\ made' # 0
        /\ current' <= made'
    BY <1>1, <2>1, StreamAssumption DEF Conn, NoConn
  <2>3. FuncsInv' /\ ~InFuncs' /\ PassInv' /\ \A c \in Conn : ~up'[c]
    BY <1>1, <1>3, <2>2, DropFuncs
  <2>4. SocketsInv'
    <3>1. ASSUME NEW c \in Conn
          PROVE  OwnSocket(c)'
      <4>1. OwnSocket(c) /\ ~up'[c] /\ c \in Nat
        BY <1>1, <2>3 DEF SocketsInv, Conn
      <4>2. c <= made => c <= made'
        BY <1>1, <2>1, <4>1
      <4>3. QED
        BY <1>1, <4>1, <4>2 DEF OwnSocket, Stale
    <3>2. QED
      BY <1>1, <2>2, <3>1 DEF SocketsInv
  <2>5. resolving' = <<made + 1>>
    BY <1>3, <2>1 DEF AtResolver
  <2>6. AtResolver' /\ Len(resolving') = 1 /\ resolving'[1] = made + 1
    BY <2>5 DEF AtResolver
  <2>7. ResolverInv'
    <3>1. ~(made + 1 <= made)
      BY <1>1
    <3>2. sock[made + 1] = NoFd /\ server_fd[made + 1] = NoFd
      BY <1>1, <2>2, <3>1 DEF SocketsInv, OwnSocket
    <3>3. QED
      BY <1>1, <2>1, <2>6, <3>2 DEF ResolverInv, Idle
  <2>8. OnePlaceInv'
    BY <1>1, <1>4, <1>6, <2>2, <2>3, <2>6 DEF OnePlaceInv, InFuncs
  <2>9. QED
    BY <1>1, <1>4, <1>5, <1>6, <2>3, <2>4, <2>7, <2>8 DEF AttemptInv, Parts
<1>9. QED
  BY <1>7, <1>8

LEMMA UpgradeAttempt ==
  ASSUME AttemptInv, TInv', Upgrade
  PROVE  AttemptInv'
<1>1. /\ Running("upgrade") /\ TInv /\ CallInv(calls[1]) /\ StackInv /\ QueuesInv
      /\ SocketsInv /\ OnePlaceInv /\ ResolverInv /\ ListInv /\ FuncsInv /\ PassInv /\ ~crashed
      /\ UNCHANGED <<passVars, poll_list, resolving, sock, server_fd, write_op_queue, owner, connected, made,
                     crashed>>
      /\ Calling(<<>>)
  BY DEF Upgrade, AttemptInv, Parts, CallsInv, Running
<1>2. calls # <<>> /\ calls[1].call \notin WriteCall /\ ~InCalls /\ ~Subscribing(calls[1])
  BY <1>1 DEF Running, WriteCall, InCalls, Aside, Subscribing
<1>3. CallsInv' /\ ~InCalls'
  BY <1>1, <1>2, CallEnds
<1>4. QueuesInv'
  BY <1>1, <1>2, QuietCalls, QueuesKept
<1>5. CASE ~connected
  <2>1. UNCHANGED <<funcs, up, current, upgrading>>
    BY <1>5 DEF Upgrade
  <2>2. QED
    BY <1>1, <1>2, <1>3, <1>4, <2>1, OnlyCalls
<1>6. CASE connected
  <2>1. DropStream /\ current' = NoConn /\ upgrading' = TRUE
    BY <1>6 DEF Upgrade
  <2>2. ~upgrading /\ \A n \in DOMAIN funcs : funcs[n] # Upgrading
    BY <1>1 DEF Running, CallInv
  <2>3. ~AtResolver /\ ~InFuncs
    BY <1>1, <1>6 DEF ResolverInv, FuncsInv, FuncInv, InFuncs, Carries
  <2>4. made # 0 /\ current # NoConn /\ InList
    <3>1. made # 0
      BY <1>1, <1>6 DEF OnePlaceInv
    <3>2. made > 0
      BY <1>1, <3>1 DEF TInv, ClientTypes
    <3>3. QED
      BY <1>1, <1>2, <2>2, <2>3, <3>1, <3>2 DEF OnePlaceInv
  <2>5. FuncsInv' /\ ~InFuncs' /\ PassInv' /\ \A c \in Conn : ~up'[c]
    BY <1>1, <2>1, <2>2, <2>3, DropFuncs
  <2>6. SocketsInv'
    <3>1. ASSUME NEW c \in Conn
          PROVE  OwnSocket(c)'
      BY <1>1, <2>5 DEF SocketsInv, OwnSocket, Stale
    <3>2. current' <= made'
      BY <1>1, <2>1 DEF TInv, ClientTypes, NoConn
    <3>3. QED
      BY <1>1, <3>1, <3>2 DEF SocketsInv
  <2>7. ~AtResolver' /\ ResolverInv'
    BY <1>1, <2>3 DEF AtResolver, ResolverInv
  <2>8. ListInv'
    <3>1. EntryInv(poll_list[1]) /\ poll_list[1].cb = "read" /\ ~poll_list[1].cancelled
      BY <1>1, <1>6, <2>4 DEF ListInv, EntryInv
    <3>2. EntryInv(poll_list[1])'
      BY <1>1, <2>1, <3>1 DEF EntryInv, Open
    <3>3. QED
      BY <3>2 DEF ListInv
  <2>9. Len(resolving') <= 1 /\ Len(poll_list') <= 1
    BY <1>1 DEF OnePlaceInv
  <2>10. OnePlaceInv'
    BY <1>1, <1>3, <1>6, <2>1, <2>4, <2>5, <2>7, <2>9 DEF OnePlaceInv, InFuncs
  <2>11. QED
    BY <1>1, <1>3, <1>4, <2>5, <2>6, <2>7, <2>8, <2>10 DEF AttemptInv, Parts
<1>7. QED
  BY <1>5, <1>6

-----------------------------------------------------------------------------
(* Steps of the stream.                                                    *)

(* The attempt goes on with one call, though its stream changes. *)
LEMMA Proceeds ==
  ASSUME AttemptInv, TInv', InCalls, ~Subscribing(calls[1]), calls[1].call \notin WriteCall,
         NEW x \in Call, Calling(<<x>>), ~Subscribing(x), x.call \notin WriteCall, ~Aside(x)', CallInv(x)',
         SocketsInv', FuncsInv',
         UNCHANGED <<passVars, poll_list, funcs, resolving, write_op_queue>>,
         UNCHANGED <<current, connected, made, crashed, upgrading>>
  PROVE  AttemptInv'
<1>1. /\ calls # <<>> /\ TInv /\ StackInv /\ QueuesInv /\ OnePlaceInv /\ PassInv /\ ~crashed
      /\ ~AtResolver /\ ~InFuncs /\ ~InList
  BY DEF InCalls, AttemptInv, Parts, CallsInv, OnePlaceInv
<1>2. CallsInv' /\ calls' # <<>> /\ calls'[1] = x
  BY <1>1, CallCalls
<1>3. InCalls'
  BY <1>2 DEF InCalls, Aside
<1>4. QueuesInv'
  <2>1. Quiet(<<x>>)
    BY QuietCalls
  <2>2. QED
    BY <1>1, <2>1, QueuesKept
<1>5. OnePlaceInv' /\ PassInv'
  BY <1>1, <1>3, PlaceKept, PassKept
<1>6. ResolverInv' /\ ListInv'
  BY <1>1 DEF ResolverInv, ListInv, AtResolver, InList
<1>7. QED
  BY <1>1, <1>2, <1>4, <1>5, <1>6 DEF AttemptInv, Parts

(* The attempt goes on when what it waits for is there. *)
LEMMA Waits ==
  ASSUME AttemptInv, TInv', InCalls, ~Subscribing(calls[1]), calls[1].call \notin WriteCall,
         Calling(<<>>), NEW e, poll_list' = <<e>>, EntryInv(e)', SocketsInv', FuncsInv',
         UNCHANGED <<passVars, funcs, resolving, write_op_queue>>,
         UNCHANGED <<current, connected, made, crashed, upgrading>>
  PROVE  AttemptInv'
<1>1. /\ calls # <<>> /\ TInv /\ StackInv /\ QueuesInv /\ OnePlaceInv /\ PassInv /\ ~crashed
      /\ ~AtResolver /\ ~InFuncs /\ ~InList
  BY DEF InCalls, AttemptInv, Parts, CallsInv, OnePlaceInv
<1>2. CallsInv' /\ ~InCalls'
  BY <1>1, CallEnds
<1>3. QueuesInv'
  BY <1>1, QuietCalls, QueuesKept
<1>4. ListInv' /\ InList' /\ Len(poll_list') = 1
  BY ListIs
<1>5. ~AtResolver' /\ ~InFuncs' /\ ResolverInv'
  BY <1>1 DEF AtResolver, InFuncs, ResolverInv
<1>6. OnePlaceInv'
  BY <1>1, <1>2, <1>4, <1>5 DEF OnePlaceInv
<1>7. PassInv'
  BY <1>1 DEF PassInv, passVars
<1>8. QED
  BY <1>1, <1>2, <1>3, <1>4, <1>5, <1>6, <1>7 DEF AttemptInv, Parts

(* What a step of connecting finds. *)
LEMMA ConnectsIs ==
  ASSUME AttemptInv, NEW c \in Conn, NEW name \in ConnectCall, RunningFor(c, name)
  PROVE  /\ TInv /\ SocketsInv /\ FuncsInv /\ CallInv(calls[1]) /\ calls[1].call = name
         /\ InCalls /\ ~Subscribing(calls[1]) /\ calls[1].call \notin WriteCall
         /\ ~InFuncs /\ ~InList /\ poll_list = <<>>
         /\ c = current /\ ~connected
         /\ sock \in [Conn -> Fd \union {NoFd}] /\ server_fd \in [Conn -> Fd \union {NoFd}]
         /\ owner \in [Fd -> Conn \union {Free}] /\ up \in [Conn -> BOOLEAN]
<1>1. InCalls /\ CallInv(calls[1]) /\ calls[1].conn = c /\ calls[1].call = name
  BY DEF RunningFor, Running, ConnectCall, InCalls, Aside, AttemptInv, Parts, CallsInv
<1>2. c = current /\ ~connected
  BY <1>1 DEF CallInv, ConnectCall
<1>3. OnePlaceInv /\ TInv /\ SocketsInv /\ FuncsInv
  BY DEF AttemptInv, Parts
<1>4. ~InFuncs /\ ~InList /\ poll_list = <<>>
  BY <1>1, <1>3 DEF OnePlaceInv, InList
<1>5. ~Subscribing(calls[1]) /\ calls[1].call \notin WriteCall
  BY <1>1 DEF Subscribing, WriteCall, ConnectCall
<1>6. StreamTypes
  BY <1>3 DEF TInv
<1>7. QED
  BY <1>1, <1>2, <1>3, <1>4, <1>5, <1>6 DEF StreamTypes

LEMMA OnResolvedAttempt ==
  ASSUME AttemptInv, TInv', NEW c \in Conn, OnResolved(c), UNCHANGED <<clientVars, made, worldVars>>
  PROVE  AttemptInv'
<1>1. /\ RunningFor(c, "on_resolved")
      /\ UNCHANGED <<passVars, funcs, resolving, server_fd, up, write_op_queue>>
      /\ UNCHANGED <<current, connected, made, crashed, upgrading>>
  BY DEF OnResolved, clientVars, worldVars
<1>2. /\ TInv /\ SocketsInv /\ FuncsInv /\ CallInv(calls[1]) /\ calls[1].call = "on_resolved"
      /\ InCalls /\ ~Subscribing(calls[1]) /\ calls[1].call \notin WriteCall
      /\ ~InFuncs /\ poll_list = <<>>
      /\ c = current /\ ~connected
      /\ sock \in [Conn -> Fd \union {NoFd}] /\ owner \in [Fd -> Conn \union {Free}]
  BY <1>1, ConnectsIs DEF ConnectCall
<1>3. Idle(c) /\ \A d \in Conn : ~Stale(d)
  BY <1>2 DEF CallInv
<1>4. ASSUME NEW e \in {"NameResolutionFailed", "InternalError"}, Calling(<<ConnectCb(c, e)>>),
             UNCHANGED <<poll_list, sock, owner>>
      PROVE  AttemptInv'
  <2>1. PICK x \in Call : x = ConnectCb(c, e)
    BY CallForms DEF Code
  <2>2. CallInv(x)' /\ ~Aside(x)' /\ ~Subscribing(x) /\ x.call \notin WriteCall
    BY <1>1, <1>2, <2>1 DEF CallInv, Aside, Subscribing, WriteCall, ConnectCb
  <2>3. QED
    BY <1>1, <1>2, <1>4, <2>1, <2>2, CallsNext
<1>5. ASSUME NEW fd \in Fd, Lowest(fd),
             sock' = [sock EXCEPT ![c] = fd], owner' = [owner EXCEPT ![fd] = c],
             \/ poll_list' = Notify(poll_list, fd, "write", "connect", c) /\ Calling(<<>>)
             \/ UNCHANGED poll_list /\ Calling(<<ConnectCb(c, "InternalError")>>)
      PROVE  AttemptInv'
  <2>1. owner[fd] = Free /\ fd # NoFd
    BY <1>5 DEF Lowest, FreeFds, Fd, NoFd
  <2>2. /\ sock'[c] = fd /\ \A d \in Conn \ {c} : sock'[d] = sock[d]
        /\ owner'[fd] = c /\ \A other \in Fd \ {fd} : owner'[other] = owner[other]
    BY <1>2, <1>5
  <2>6. ASSUME NEW d \in Conn
        PROVE  OwnSocket(d)'
    <3>1. OwnSocket(d) /\ ~Stale(d)
      BY <1>2, <1>3 DEF SocketsInv
    <3>2. CASE d = c
      <4>1. server_fd[c] = NoFd /\ ~up[c] /\ c <= made
        BY <1>2, <1>3, <3>1, <3>2 DEF OwnSocket, Idle, Open, SocketsInv
      <4>2. QED
        BY <1>1, <2>1, <2>2, <3>2, <4>1 DEF OwnSocket, Stale
    <3>3. CASE d # c
      <4>1. sock'[d] = sock[d] /\ server_fd'[d] = server_fd[d] /\ up'[d] = up[d]
        BY <1>1, <2>2, <3>3
      <4>2. sock[d] # NoFd => sock[d] \in Fd /\ sock[d] # fd
        BY <1>2, <2>1, <3>1 DEF OwnSocket, Conn, Free
      <4>3. QED
        BY <1>1, <2>2, <3>1, <4>1, <4>2 DEF OwnSocket, Stale, Open
    <3>4. QED
      BY <3>2, <3>3
  <2>7. SocketsInv'
    BY <1>1, <1>2, <2>6 DEF SocketsInv
  <2>8. FuncsInv'
    <3>1. ASSUME NEW n \in DOMAIN funcs
          PROVE  FuncInv(funcs[n])'
      <4>1. FuncInv(funcs[n]) /\ funcs[n] \in Func /\ funcs[n].f # "resolved"
        BY <1>2 DEF FuncsInv, InFuncs, Carries, TInv, LInv, LoopTypes
      <4>2. funcs[n].f \in {"write", "close"} =>
              funcs[n].conn \in Conn /\ funcs[n].conn # c /\ sock'[funcs[n].conn] = sock[funcs[n].conn]
        BY <1>3, <2>2, <4>1, FuncFields DEF FuncInv, Open, Idle
      <4>3. QED
        BY <1>1, <4>1, <4>2 DEF FuncInv, Open, Upgrading
    <3>2. QED
      BY <1>1, <1>2, <3>1 DEF FuncsInv, Touches
  <2>9. CASE UNCHANGED poll_list /\ Calling(<<ConnectCb(c, "InternalError")>>)
    <3>1. PICK x \in Call : x = ConnectCb(c, "InternalError")
      BY CallForms DEF Code
    <3>2. CallInv(x)' /\ ~Aside(x)' /\ ~Subscribing(x) /\ x.call \notin WriteCall
      BY <1>1, <1>2, <3>1 DEF CallInv, Aside, Subscribing, WriteCall, ConnectCb
    <3>3. QED
      BY <1>1, <1>2, <2>7, <2>8, <2>9, <3>1, <3>2, Proceeds
  <2>10. CASE poll_list' = Notify(poll_list, fd, "write", "connect", c) /\ Calling(<<>>)
    <3>1. PICK e : e = [fd |-> fd, dir |-> "write", cb |-> "connect", conn |-> c, cancelled |-> FALSE]
      OBVIOUS
    <3>2. poll_list' = <<e>>
      <4>1. Notify(<<>>, fd, "write", "connect", c) = <<e>>
        BY <3>1, ListOne
      <4>2. QED
        BY <1>2, <2>10, <4>1
    <3>3. EntryInv(e)'
      BY <1>1, <1>2, <2>1, <2>2, <3>1 DEF EntryInv
    <3>4. QED
      BY <1>1, <1>2, <2>7, <2>8, <2>10, <3>2, <3>3, Waits
  <2>11. QED
    BY <1>5, <2>9, <2>10
<1>6. QED
  BY <1>4, <1>5 DEF OnResolved

LEMMA SocketOnConnectedAttempt ==
  ASSUME AttemptInv, TInv', NEW c \in Conn, SocketOnConnected(c), UNCHANGED <<clientVars, made, worldVars>>
  PROVE  AttemptInv'
<1>1. /\ RunningFor(c, "socket_on_connected")
      /\ UNCHANGED <<passVars, poll_list, funcs, resolving, sock, write_op_queue, owner>>
      /\ UNCHANGED <<current, connected, made, crashed, upgrading>>
  BY DEF SocketOnConnected, clientVars, worldVars
<1>2. /\ TInv /\ SocketsInv /\ FuncsInv /\ CallInv(calls[1]) /\ calls[1].call = "socket_on_connected"
      /\ InCalls /\ ~Subscribing(calls[1]) /\ calls[1].call \notin WriteCall
      /\ ~InFuncs
      /\ c = current /\ ~connected
      /\ server_fd \in [Conn -> Fd \union {NoFd}] /\ up \in [Conn -> BOOLEAN]
  BY <1>1, ConnectsIs DEF ConnectCall
<1>3. sock[c] # NoFd /\ owner[sock[c]] = c
  BY <1>2 DEF CallInv, SocketsInv, OwnSocket
<1>4. CASE Secure
  <2>1. /\ server_fd' = [server_fd EXCEPT ![c] = sock[c]] /\ UNCHANGED up
        /\ Calling(<<[call |-> "on_handshake", conn |-> c]>>)
    BY <1>4 DEF SocketOnConnected
  <2>2. server_fd'[c] = sock[c] /\ \A d \in Conn \ {c} : server_fd'[d] = server_fd[d]
    BY <1>2, <2>1
  <2>3. PICK x \in Call : x = [call |-> "on_handshake", conn |-> c]
    BY DEF Call
  <2>4. CallInv(x)' /\ ~Aside(x)' /\ ~Subscribing(x) /\ x.call \notin WriteCall
    BY <1>1, <1>2, <1>3, <1>4, <2>2, <2>3 DEF CallInv, Open, Aside, Subscribing, WriteCall
  <2>5. ASSUME NEW d \in Conn
        PROVE  OwnSocket(d)'
    <3>1. OwnSocket(d)
      BY <1>2 DEF SocketsInv
    <3>2. CASE d = c
      BY <1>1, <1>3, <1>4, <2>1, <2>2, <3>1, <3>2 DEF OwnSocket, Stale, Open
    <3>3. CASE d # c
      BY <1>1, <2>1, <2>2, <3>1, <3>3 DEF OwnSocket, Stale, Open
    <3>4. QED
      BY <3>2, <3>3
  <2>6. ASSUME NEW a \in Conn \ {c}
        PROVE  server_fd[a] # sock[c]
    <3>1. OwnSocket(a) /\ a # Free
      BY <1>2 DEF SocketsInv, Conn, Free
    <3>2. c # Free
      BY DEF Conn, Free
    <3>3. QED
      BY <1>3, <3>1, <3>2 DEF OwnSocket, Stale
  <2>7. SocketsInv'
    <3>1. ASSUME NEW a \in Conn, NEW b \in Conn, server_fd'[a] # NoFd, server_fd'[a] = server_fd'[b]
          PROVE  a = b
      BY <1>2, <2>2, <2>6, <3>1 DEF SocketsInv
    <3>2. QED
      BY <1>1, <1>2, <2>5, <3>1 DEF SocketsInv
  <2>8. FuncsInv'
    <3>1. ASSUME NEW n \in DOMAIN funcs
          PROVE  FuncInv(funcs[n])'
      <4>1. FuncInv(funcs[n]) /\ funcs[n] \in Func /\ funcs[n].f # "resolved"
        BY <1>2 DEF FuncsInv, InFuncs, Carries, TInv, LInv, LoopTypes
      <4>2. funcs[n].f = "write" => funcs[n].conn \in Conn /\ Open(funcs[n].conn)'
        BY <1>1, <1>3, <2>2, <4>1, FuncFields DEF FuncInv, Open
      <4>3. QED
        BY <1>1, <4>1, <4>2 DEF FuncInv, Upgrading
    <3>2. QED
      BY <1>1, <1>2, <3>1 DEF FuncsInv, Touches
  <2>9. QED
    BY <1>1, <1>2, <2>1, <2>3, <2>4, <2>7, <2>8, Proceeds
<1>5. CASE ~Secure
  <2>1. up' = [up EXCEPT ![c] = TRUE] /\ Calling(<<ConnectCb(c, "ok")>>) /\ UNCHANGED server_fd
    BY <1>5 DEF SocketOnConnected
  <2>2. up'[c] /\ \A d \in Conn \ {c} : up'[d] = up[d]
    BY <1>2, <2>1
  <2>3. PICK x \in Call : x = ConnectCb(c, "ok")
    BY CallForms DEF Code
  <2>4. CallInv(x)' /\ ~Aside(x)' /\ ~Subscribing(x) /\ x.call \notin WriteCall
    BY <1>1, <1>2, <2>2, <2>3 DEF CallInv, Aside, Subscribing, WriteCall, ConnectCb
  <2>5. SocketsInv'
    <3>1. ASSUME NEW d \in Conn
          PROVE  OwnSocket(d)'
      BY <1>1, <1>2, <1>3, <1>5, <2>1, <2>2 DEF SocketsInv, OwnSocket, Stale, Open
    <3>2. QED
      BY <1>1, <1>2, <2>1, <3>1 DEF SocketsInv
  <2>6. FuncsInv'
    BY <1>1, <1>2, <2>1, FuncsKept
  <2>7. QED
    BY <1>1, <1>2, <2>1, <2>3, <2>4, <2>5, <2>6, Proceeds
<1>6. QED
  BY <1>4, <1>5

LEMMA OnHandshakeAttempt ==
  ASSUME AttemptInv, TInv', NEW c \in Conn, OnHandshake(c), UNCHANGED <<clientVars, made, worldVars>>
  PROVE  AttemptInv'
<1>1. /\ RunningFor(c, "on_handshake")
      /\ UNCHANGED <<passVars, funcs, resolving, sock, server_fd, write_op_queue, owner>>
      /\ UNCHANGED <<current, connected, made, crashed, upgrading>>
  BY DEF OnHandshake, clientVars, worldVars
<1>2. /\ TInv /\ SocketsInv /\ FuncsInv /\ CallInv(calls[1]) /\ calls[1].call = "on_handshake"
      /\ InCalls /\ ~Subscribing(calls[1]) /\ calls[1].call \notin WriteCall
      /\ ~InFuncs /\ poll_list = <<>>
      /\ c = current /\ ~connected
      /\ up \in [Conn -> BOOLEAN]
  BY <1>1, ConnectsIs DEF ConnectCall
<1>3. Secure /\ Open(c) /\ sock[c] # NoFd /\ server_fd[c] = sock[c]
  BY <1>2 DEF CallInv, Open
<1>4. FuncsInv'
  BY <1>1, <1>2, FuncsKept
<1>5. ASSUME NEW dir \in {"read", "write"}, Calling(<<>>), UNCHANGED up,
             poll_list' = Notify(poll_list, server_fd[c], dir, "handshake", c)
      PROVE  AttemptInv'
  <2>1. PICK e : e = [fd |-> server_fd[c], dir |-> dir, cb |-> "handshake", conn |-> c, cancelled |-> FALSE]
    OBVIOUS
  <2>2. poll_list' = <<e>>
    <3>1. Notify(<<>>, server_fd[c], dir, "handshake", c) = <<e>>
      BY <2>1, ListOne
    <3>2. QED
      BY <1>2, <1>5, <3>1
  <2>3. EntryInv(e)'
    BY <1>1, <1>2, <1>3, <2>1 DEF EntryInv, Open
  <2>4. SocketsInv'
    BY <1>1, <1>2, <1>5, SocketsKept
  <2>5. QED
    BY <1>1, <1>2, <1>4, <1>5, <2>2, <2>3, <2>4, Waits
<1>6. ASSUME Calling(<<ConnectCb(c, "ok")>>), UNCHANGED poll_list, up' = [up EXCEPT ![c] = TRUE]
      PROVE  AttemptInv'
  <2>1. up'[c] /\ \A d \in Conn \ {c} : up'[d] = up[d]
    BY <1>2, <1>6
  <2>2. PICK x \in Call : x = ConnectCb(c, "ok")
    BY CallForms DEF Code
  <2>3. CallInv(x)' /\ ~Aside(x)' /\ ~Subscribing(x) /\ x.call \notin WriteCall
    BY <1>1, <1>2, <2>1, <2>2 DEF CallInv, Aside, Subscribing, WriteCall, ConnectCb
  <2>4. SocketsInv'
    <3>1. ASSUME NEW d \in Conn
          PROVE  OwnSocket(d)'
      BY <1>1, <1>2, <1>3, <2>1 DEF SocketsInv, OwnSocket, Stale, Open
    <3>2. QED
      BY <1>1, <1>2, <3>1 DEF SocketsInv
  <2>5. QED
    BY <1>1, <1>2, <1>4, <1>6, <2>2, <2>3, <2>4, Proceeds
<1>7. ASSUME Calling(<<ConnectCb(c, "TLSProtocolError")>>), UNCHANGED <<poll_list, up>>
      PROVE  AttemptInv'
  <2>1. PICK x \in Call : x = ConnectCb(c, "TLSProtocolError")
    BY CallForms DEF Code
  <2>2. CallInv(x)' /\ ~Aside(x)' /\ ~Subscribing(x) /\ x.call \notin WriteCall
    BY <1>1, <1>2, <2>1 DEF CallInv, Aside, Subscribing, WriteCall, ConnectCb
  <2>3. QED
    BY <1>1, <1>2, <1>7, <2>1, <2>2, CallsNext
<1>8. QED
  BY <1>5, <1>6, <1>7 DEF OnHandshake

(* A socket is closed: what is watched for it is cancelled. *)
LEMMA CancelOne ==
  ASSUME NEW list \in Seq(Entry), NEW fd
  PROVE  /\ Len(Cancel(list, fd)) = Len(list)
         /\ Cancel(list, fd) # <<>> <=> list # <<>>
         /\ list # <<>> =>
              Cancel(list, fd)[1] = IF list[1].fd = fd THEN [list[1] EXCEPT !.cancelled = TRUE] ELSE list[1]
<1>1. PICK k \in Nat : k = Len(list)
  OBVIOUS
<1>2. DOMAIN list = 1..k
  BY <1>1
<1>3. DOMAIN Cancel(list, fd) = 1..k /\ Len(Cancel(list, fd)) = k
  BY <1>2 DEF Cancel
<1>4. list # <<>> <=> 1 \in 1..k
  BY <1>1, <1>2
<1>5. 1 \in 1..k =>
        Cancel(list, fd)[1] = IF list[1].fd = fd THEN [list[1] EXCEPT !.cancelled = TRUE] ELSE list[1]
  BY <1>2 DEF Cancel
<1>6. Cancel(list, fd) # <<>> <=> 1 \in 1..k
  <2>1. CASE k = 0
    <3>1. list = <<>>
      BY <1>1, <2>1, EmptySeq
    <3>2. Cancel(<<>>, fd) = <<>>
      BY DEF Cancel
    <3>3. QED
      BY <1>4, <3>1, <3>2
  <2>2. CASE k # 0
    BY <1>3, <2>2
  <2>3. QED
    BY <2>1, <2>2
<1>7. QED
  BY <1>1, <1>3, <1>4, <1>5, <1>6

LEMMA SocketCloseAttempt ==
  ASSUME AttemptInv, TInv', NEW c \in Conn, SocketClose(c), UNCHANGED <<clientVars, made, worldVars>>
  PROVE  AttemptInv'
<1>1. /\ Running("socket_close") /\ calls[1].conn = c /\ TInv /\ StackInv /\ CallInv(calls[1])
      /\ SocketsInv /\ OnePlaceInv /\ ResolverInv /\ ListInv /\ FuncsInv /\ QueuesInv /\ PassInv /\ ~crashed
      /\ UNCHANGED <<passVars, funcs, resolving, server_fd, up, write_op_queue>>
      /\ UNCHANGED <<current, connected, made, crashed, upgrading>>
      /\ Calling(<<>>)
      /\ sock' = [sock EXCEPT ![c] = NoFd]
      /\ owner' = CloseFd(owner, sock[c]) /\ poll_list' = Cancel(poll_list, sock[c])
  BY DEF SocketClose, RunningFor, Running, AttemptInv, Parts, CallsInv, clientVars, worldVars
<1>2. /\ calls # <<>> /\ ~InCalls /\ ~Subscribing(calls[1]) /\ calls[1].call \notin WriteCall
      /\ sock[c] # NoFd /\ c # current
      /\ \A n \in DOMAIN funcs : ~Touches(funcs[n], c)
  BY <1>1 DEF Running, InCalls, Aside, Subscribing, WriteCall, CallInv
<1>3. /\ sock \in [Conn -> Fd \union {NoFd}] /\ server_fd \in [Conn -> Fd \union {NoFd}]
      /\ owner \in [Fd -> Conn \union {Free}]
      /\ poll_list \in Seq(Entry) /\ resolving \in Seq(Conn) /\ funcs \in Seq(Func)
  BY <1>1 DEF TInv, LInv, LoopTypes, StreamTypes
<1>4. PICK fd \in Fd : fd = sock[c]
  BY <1>2, <1>3
<1>5. /\ sock'[c] = NoFd /\ \A d \in Conn \ {c} : sock'[d] = sock[d]
      /\ owner[fd] = c /\ owner'[fd] = Free /\ \A other \in Fd \ {fd} : owner'[other] = owner[other]
      /\ c # Free /\ fd # NoFd
  BY <1>1, <1>2, <1>3, <1>4 DEF CloseFd, SocketsInv, OwnSocket, Conn, Free
<1>6. CallsInv' /\ ~InCalls' /\ QueuesInv'
  BY <1>1, <1>2, CallEnds, QuietCalls, QueuesKept
<1>7. SocketsInv'
  <2>1. ASSUME NEW d \in Conn
        PROVE  OwnSocket(d)'
    <3>1. OwnSocket(d) /\ server_fd[d] \in Fd \union {NoFd} /\ sock[d] \in Fd \union {NoFd}
      BY <1>1, <1>3 DEF SocketsInv
    <3>2. CASE d = c
      BY <1>1, <1>2, <1>4, <1>5, <3>1, <3>2 DEF OwnSocket, Stale, Open
    <3>3. CASE d # c
      <4>1. sock'[d] = sock[d] /\ (sock[d] # NoFd => sock[d] # fd)
        BY <1>5, <3>1, <3>3 DEF OwnSocket
      <4>2. Stale(d) => owner'[server_fd[d]] = Free
        BY <1>5, <3>1 DEF OwnSocket, Stale
      <4>3. QED
        BY <1>1, <1>5, <3>1, <4>1, <4>2 DEF OwnSocket, Stale, Open
    <3>4. QED
      BY <3>2, <3>3
  <2>2. QED
    BY <1>1, <2>1 DEF SocketsInv
<1>8. ResolverInv'
  <2>1. SUFFICES ASSUME AtResolver' PROVE ResolverInv'
    BY DEF ResolverInv
  <2>2. AtResolver /\ resolving[1] \in Conn
    BY <1>1, <1>3, <2>1 DEF AtResolver
  <2>3. current \in Conn /\ Idle(current) /\ ~connected /\ resolving[1] = current
    BY <1>1, <2>2 DEF ResolverInv
  <2>4. QED
    BY <1>1, <1>2, <1>5, <2>3 DEF ResolverInv, Idle
<1>9. FuncsInv'
  <2>1. ASSUME NEW n \in DOMAIN funcs
        PROVE  FuncInv(funcs[n])'
    <3>1. FuncInv(funcs[n]) /\ funcs[n] \in Func /\ ~Touches(funcs[n], c)
      BY <1>1, <1>2, <1>3 DEF FuncsInv
    <3>2. funcs[n].f \in {"resolved", "write", "close"} =>
            funcs[n].conn \in Conn /\ sock'[funcs[n].conn] = sock[funcs[n].conn]
      BY <1>2, <1>5, <3>1, FuncFields DEF FuncInv, Touches
    <3>3. QED
      BY <1>1, <3>1, <3>2 DEF FuncInv, Open, Idle, Upgrading
  <2>2. QED
    BY <1>1, <2>1 DEF FuncsInv, Touches
<1>10. /\ Len(poll_list') = Len(poll_list) /\ (InList' <=> InList)
       /\ InList => poll_list'[1] = IF poll_list[1].fd = fd THEN [poll_list[1] EXCEPT !.cancelled = TRUE]
                                    ELSE poll_list[1]
  BY <1>1, <1>3, <1>4, CancelOne DEF InList
<1>11. ASSUME InList
       PROVE  /\ EntryInv(poll_list[1])'
              /\ poll_list'[1].fd = poll_list[1].fd /\ poll_list'[1].dir = poll_list[1].dir
              /\ poll_list'[1].cb = poll_list[1].cb /\ poll_list'[1].conn = poll_list[1].conn
              /\ poll_list[1].cancelled => poll_list'[1].cancelled
  <2>1. PICK e \in Entry : e = poll_list[1]
    BY <1>3, <1>11 DEF InList
  <2>2. EntryInv(e)
    BY <1>1, <1>11, <2>1 DEF ListInv
  <2>3. e.conn \in Conn /\ e.fd \in Fd
    BY <2>1, <2>2, EntryFields DEF EntryInv
  <2>4. CASE e.fd = fd
    <3>1. ~e.cancelled
      BY <1>5, <2>2, <2>4 DEF EntryInv
    <3>2. e.conn = c
      BY <1>1, <1>5, <2>2, <2>3, <2>4, <3>1 DEF EntryInv, SocketsInv, OwnSocket
    <3>3. current = NoConn /\ e.cb = "read" /\ Open(c)
      BY <1>2, <2>2, <3>1, <3>2 DEF EntryInv
    <3>4. PICK x : x = [e EXCEPT !.cancelled = TRUE]
      OBVIOUS
    <3>5. /\ x.fd = e.fd /\ x.dir = e.dir /\ x.cb = e.cb /\ x.conn = e.conn /\ x.cancelled
          /\ poll_list'[1] = x
      BY <1>10, <1>11, <2>1, <2>4, <3>4 DEF Entry
    <3>6. EntryInv(x)'
      BY <1>1, <1>4, <1>5, <2>4, <3>2, <3>3, <3>5 DEF EntryInv, Open
    <3>7. QED
      BY <2>1, <3>5, <3>6
  <2>5. CASE e.fd # fd
    <3>1. poll_list'[1] = e
      BY <1>10, <1>11, <2>1, <2>5
    <3>2. owner'[e.fd] = owner[e.fd] /\ (~e.cancelled => e.conn # c)
      BY <1>4, <1>5, <2>2, <2>3, <2>5 DEF EntryInv
    <3>3. ~e.cancelled => sock'[e.conn] = sock[e.conn]
      BY <1>5, <2>3, <3>2
    <3>4. sock[e.conn] = NoFd => sock'[e.conn] = NoFd
      BY <1>5, <2>3
    <3>5. EntryInv(e)'
      BY <1>1, <2>2, <3>2, <3>3, <3>4 DEF EntryInv, Open
    <3>6. QED
      BY <2>1, <3>1, <3>5
  <2>6. QED
    BY <2>4, <2>5
<1>12. ListInv'
  BY <1>10, <1>11 DEF ListInv
<1>13. PassInv'
  BY <1>1, <1>10, <1>11 DEF PassInv, passVars
<1>14. OnePlaceInv'
  BY <1>1, <1>2, <1>6, <1>10 DEF OnePlaceInv, AtResolver, InFuncs
<1>15. QED
  BY <1>1, <1>6, <1>7, <1>8, <1>9, <1>12, <1>13, <1>14 DEF AttemptInv, Parts

LEMMA StreamStepAttempt ==
  ASSUME AttemptInv, TInv', StreamStep
  PROVE  AttemptInv'
<1>1. UNCHANGED <<clientVars, made, worldVars>>
  BY DEF StreamStep
<1>2. PICK c \in Conn :
        OnResolved(c) \/ SocketOnConnected(c) \/ OnHandshake(c) \/ Written(c) \/ SocketClose(c)
  BY DEF StreamStep
<1>3. QED
  BY <1>1, <1>2, OnResolvedAttempt, SocketOnConnectedAttempt, OnHandshakeAttempt, WrittenAttempt,
     SocketCloseAttempt

LEMMA ClientStepAttempt ==
  ASSUME OnlyConnectionsFail, AttemptInv, TInv', ClientStep
  PROVE  AttemptInv'
<1>1. \/ HandleError \/ ConnectDone \/ Send \/ WriteDone \/ ReadPacket \/ ReadFailed \/ Upgrade
      \/ \E c \in Conn : Writing(c) \/ Reading(c) \/ Receiving(c)
  BY DEF ClientStep
<1>2. QED
  BY <1>1, HandleErrorAttempt, ConnectDoneAttempt, SendAttempt, WriteDoneAttempt, ReadPacketAttempt,
     ReadFailedAttempt, UpgradeAttempt, WritingAttempt, ReadingAttempt, ReceivingAttempt

-----------------------------------------------------------------------------
(* Steps from outside, and the destructors.                                *)

(* The Wi-Fi comes up. *)
LEMMA JoinAttempt ==
  ASSUME AttemptInv, TInv', Join
  PROVE  AttemptInv'
<1>1. /\ funcs' = Append(funcs, Joining)
      /\ UNCHANGED <<passVars, poll_list, calls, resolving, sock, server_fd, up, write_op_queue, owner>>
      /\ UNCHANGED <<current, connected, made, crashed, upgrading>>
      /\ TInv /\ SocketsInv /\ OnePlaceInv /\ ResolverInv /\ ListInv /\ FuncsInv /\ CallsInv /\ QueuesInv
      /\ PassInv /\ ~crashed
  BY DEF Join, Joining, streamVars, clientVars, worldVars, AttemptInv, Parts
<1>2. PICK g \in Func : g = Joining
  <2>1. PICK y \in Call : y = [call |-> "connect"]
    BY DEF Call
  <2>2. y.call = "connect"
    BY <2>1
  <2>3. Invoked(y) \in Func
    BY <2>2, FuncMembers
  <2>4. QED
    BY <2>1, <2>3 DEF Joining
<1>3. /\ g.f = "call" /\ g.then.call = "connect" /\ ~Carries(g) /\ \A d : ~Touches(g, d)
      /\ g # Upgrading
  BY <1>2 DEF Joining, Upgrading, Invoked, Carries, Touches
<1>4. FuncsInv'
  <2>1. \A f \in Range(funcs) : FuncInv(f)'
    BY <1>1 DEF FuncsInv, FuncInv, Open, Idle, Range
  <2>2. FuncInv(g)'
    BY <1>2, <1>3 DEF FuncInv
  <2>3. QED
    BY <1>1, <1>2, <1>3, <2>1, <2>2, FuncsAppended
<1>5. /\ InFuncs' <=> InFuncs
      /\ \A m, n \in DOMAIN funcs' : Carries(funcs'[m]) /\ Carries(funcs'[n]) => m = n
      /\ PassInv'
  BY <1>1, <1>2, <1>3, PlacesAppended DEF OnePlaceInv
<1>6. InCalls' <=> InCalls
  BY <1>1 DEF InCalls, Aside
<1>7. OnePlaceInv'
  BY <1>1, <1>5, <1>6 DEF OnePlaceInv, AtResolver, InList
<1>8. CallsInv'
  <2>1. StackInv'
    BY <1>1 DEF CallsInv, StackInv, Subscribing
  <2>2. ASSUME calls # <<>>
        PROVE  CallInv(calls[1])'
    <3>1. PICK x : x = calls[1]
      OBVIOUS
    <3>2. CallInv(x)
      BY <1>1, <2>2, <3>1 DEF CallsInv
    <3>3. \A n \in DOMAIN funcs' : (n \in DOMAIN funcs /\ funcs'[n] = funcs[n]) \/ funcs'[n] = g
      BY <1>1, <1>2, FuncsOne
    <3>4. x.call = "upgrade" => \A n \in DOMAIN funcs' : funcs'[n] # Upgrading
      BY <1>3, <3>2, <3>3 DEF CallInv
    <3>5. x.call = "socket_close" => \A n \in DOMAIN funcs' : ~Touches(funcs'[n], x.conn)
      BY <1>3, <3>2, <3>3 DEF CallInv
    <3>6. CallInv(x)'
      BY <1>1, <3>2, <3>4, <3>5 DEF CallInv, Open, Idle, Stale, Touches, Upgrading, Invoked
    <3>7. QED
      BY <1>1, <3>1, <3>6
  <2>3. QED
    BY <1>1, <2>1, <2>2 DEF CallsInv
<1>9. SocketsInv' /\ ResolverInv' /\ ListInv' /\ QueuesInv'
  BY <1>1, SocketsKept, ResolverKept, ListKept DEF QueuesInv, WriteCalled
<1>10. QED
  BY <1>1, <1>4, <1>5, <1>7, <1>8, <1>9 DEF AttemptInv, Parts

(* The client connects, and has no stream: nothing is in place then.       *)
LEMMA ConnectAttempt ==
  ASSUME AttemptInv, TInv', Connect, ~replaced'
  PROVE  AttemptInv'
<1>1. /\ Running("connect") /\ Calling(<<>>) /\ TInv /\ StackInv
      /\ UNCHANGED <<passVars, poll_list, funcs, sock, server_fd, up, write_op_queue, owner>>
      /\ UNCHANGED <<connected, crashed, upgrading>>
      /\ SocketsInv /\ OnePlaceInv /\ FuncsInv /\ QueuesInv /\ PassInv /\ ~crashed
      /\ made \in 0..MaxConn
  BY DEF Connect, worldVars, AttemptInv, Parts, CallsInv, TInv, ClientTypes
<1>2. calls # <<>> /\ calls[1].call \notin WriteCall /\ ~InCalls /\ ~Subscribing(calls[1])
  BY <1>1 DEF Running, WriteCall, InCalls, Aside, Subscribing
<1>3. CallsInv' /\ ~InCalls'
  BY <1>1, <1>2, CallEnds
<1>4. QueuesInv'
  BY <1>1, <1>2, QuietCalls, QueuesKept
<1>5. CASE connected
  <2>1. UNCHANGED <<made, current, resolving>>
    BY <1>5 DEF Connect
  <2>2. QED
    BY <1>1, <1>2, <1>3, <1>4, <2>1, OnlyCalls
<1>6. CASE ~connected
  <2>1. /\ current = NoConn /\ made < MaxConn /\ made' = made + 1 /\ current' = made + 1
        /\ resolving' = Append(resolving, made + 1)
    BY <1>6 DEF Connect, NewStream
  <2>2. ~AtResolver /\ ~InFuncs /\ ~InList
    BY <1>1, <1>6, <2>1 DEF OnePlaceInv
  <2>3. made + 1 \in Conn /\ made' # 0 /\ current' # NoConn /\ current' <= made'
    BY <1>1, <2>1, StreamAssumption DEF Conn, NoConn
  <2>4. \A c \in Conn : c \in Nat /\ OwnSocket(c) /\ ~up[c]
    BY <1>1, <2>1 DEF SocketsInv, OwnSocket, Conn, NoConn
  <2>5. SocketsInv'
    <3>1. ASSUME NEW c \in Conn
          PROVE  OwnSocket(c)'
      <4>1. c <= made => c <= made'
        BY <1>1, <2>1, <2>4
      <4>2. QED
        BY <1>1, <2>4, <4>1 DEF OwnSocket, Stale
    <3>2. QED
      BY <1>1, <2>3, <3>1 DEF SocketsInv
  <2>6. FuncsInv'
    <3>1. ASSUME NEW n \in DOMAIN funcs
          PROVE  FuncInv(funcs[n])'
      <4>1. FuncInv(funcs[n]) /\ ~Carries(funcs[n]) /\ funcs[n] \in Func
        BY <1>1, <2>2 DEF FuncsInv, InFuncs, TInv, LInv, LoopTypes
      <4>2. funcs[n].f = "close" => funcs[n].conn # current'
        <5>1. funcs[n].f = "close" => funcs[n].conn \in Conn /\ sock[funcs[n].conn] # NoFd
          BY <4>1, FuncFields DEF FuncInv
        <5>2. funcs[n].f = "close" => funcs[n].conn <= made /\ funcs[n].conn \in Nat
          BY <2>4, <5>1 DEF OwnSocket
        <5>3. QED
          BY <1>1, <2>1, <5>2
      <4>3. QED
        BY <1>1, <4>1, <4>2 DEF FuncInv, Carries, Open
    <3>2. QED
      BY <1>1, <3>1 DEF FuncsInv, Touches, Upgrading, Invoked
  <2>7. resolving' = <<made + 1>>
    BY <2>1, <2>2 DEF AtResolver
  <2>8. AtResolver' /\ Len(resolving') = 1 /\ resolving'[1] = made + 1
    BY <2>7 DEF AtResolver
  <2>9. ResolverInv'
    <3>1. ~(made + 1 <= made)
      BY <1>1
    <3>2. sock[made + 1] = NoFd /\ server_fd[made + 1] = NoFd
      BY <2>3, <2>4, <3>1 DEF OwnSocket
    <3>3. QED
      BY <1>1, <1>6, <2>1, <2>8, <3>2 DEF ResolverInv, Idle
  <2>10. ~InFuncs' /\ ~InList' /\ ListInv' /\ Len(poll_list') <= 1 /\ PassInv'
    BY <1>1, <2>2, PassKept DEF InFuncs, InList, ListInv, OnePlaceInv
  <2>11. OnePlaceInv'
    BY <1>1, <1>3, <2>3, <2>8, <2>10 DEF OnePlaceInv, InFuncs
  <2>12. QED
    BY <1>1, <1>3, <1>4, <2>5, <2>6, <2>9, <2>10, <2>11 DEF AttemptInv, Parts
<1>7. QED
  BY <1>5, <1>6

LEMMA ResolverAttempt ==
  ASSUME AttemptInv, TInv', Resolver
  PROVE  AttemptInv'
<1>1. PICK found \in BOOLEAN : Resolved(found)
  BY DEF Resolver
<1>2. /\ resolving # <<>> /\ resolving' = Tail(resolving)
      /\ UNCHANGED <<passVars, poll_list, calls, sock, server_fd, up, write_op_queue, owner>>
      /\ UNCHANGED <<current, connected, made, crashed, upgrading>>
      /\ TInv /\ SocketsInv /\ OnePlaceInv /\ ResolverInv /\ ListInv /\ FuncsInv /\ CallsInv /\ QueuesInv
      /\ PassInv /\ ~crashed
      /\ resolving \in Seq(Conn)
  BY <1>1 DEF Resolver, Resolved, clientVars, worldVars, AttemptInv, Parts, TInv, StreamTypes
<1>3. /\ AtResolver /\ ~InFuncs /\ ~InList /\ ~InCalls /\ made # 0 /\ Len(resolving) = 1
      /\ resolving[1] = current /\ Idle(current) /\ ~connected
  <2>1. AtResolver /\ Len(resolving) <= 1
    BY <1>2 DEF AtResolver, OnePlaceInv
  <2>2. Len(resolving) = 1
    <3>1. PICK k \in Nat : k = Len(resolving)
      BY <1>2, LenProperties
    <3>2. k # 0
      BY <1>2, <3>1, EmptySeq
    <3>3. k <= 1
      BY <2>1, <3>1
    <3>4. QED
      BY <3>1, <3>2, <3>3
  <2>3. QED
    BY <1>2, <2>1, <2>2 DEF OnePlaceInv, ResolverInv
<1>4. Head(resolving) = current /\ current \in Conn /\ resolving' = <<>> /\ current # NoConn
  <2>1. Len(Tail(resolving)) = 0 /\ Tail(resolving) \in Seq(Conn)
    BY <1>2, <1>3, HeadTailProperties
  <2>2. Tail(resolving) = <<>>
    BY <2>1, EmptySeq
  <2>3. Head(resolving) = resolving[1] /\ Head(resolving) \in Conn
    BY <1>2, TailIs
  <2>4. QED
    BY <1>2, <1>3, <2>2, <2>3 DEF Conn, NoConn
<1>5. PICK g \in Func : g = [f |-> "resolved", conn |-> current, found |-> found]
  BY <1>4, FuncMembers
<1>6. g.f = "resolved" /\ g.conn = current /\ Carries(g) /\ (\A d : ~Touches(g, d)) /\ g.f # "call"
  BY <1>5 DEF Carries, Touches
<1>7. funcs' = Append(funcs, g)
  BY <1>1, <1>4, <1>5 DEF Resolved
<1>8. FuncsInv'
  <2>1. \A f \in Range(funcs) : FuncInv(f)'
    BY <1>2 DEF FuncsInv, FuncInv, Open, Idle, Upgrading, Range
  <2>2. FuncInv(g)'
    BY <1>2, <1>3, <1>6 DEF FuncInv, Idle
  <2>3. QED
    BY <1>2, <1>6, <1>7, <2>1, <2>2, FuncsAppended DEF Upgrading, Invoked
<1>9. /\ InFuncs' /\ PassInv'
      /\ \A m, n \in DOMAIN funcs' : Carries(funcs'[m]) /\ Carries(funcs'[n]) => m = n
  BY <1>2, <1>3, <1>6, <1>7, PlacesAppended DEF OnePlaceInv
<1>10. ~AtResolver' /\ ~InList' /\ ~InCalls' /\ Len(resolving') = 0 /\ Len(poll_list') <= 1
  BY <1>2, <1>3, <1>4 DEF AtResolver, InList, InCalls, Aside, OnePlaceInv
<1>11. OnePlaceInv'
  <2>1. made' # 0 /\ current' # NoConn
    BY <1>2, <1>3, <1>4
  <2>2. Len(resolving') <= 1
    BY <1>10
  <2>3. QED
    BY <1>9, <1>10, <2>1, <2>2 DEF OnePlaceInv, Carries
<1>12. CallsInv'
  <2>1. StackInv'
    BY <1>2 DEF CallsInv, StackInv, Subscribing
  <2>2. ASSUME calls # <<>>
        PROVE  CallInv(calls[1])'
    <3>1. PICK x : x = calls[1]
      OBVIOUS
    <3>2. CallInv(x)
      BY <1>2, <2>2, <3>1 DEF CallsInv
    <3>3. \A n \in DOMAIN funcs' : (n \in DOMAIN funcs /\ funcs'[n] = funcs[n]) \/ funcs'[n] = g
      BY <1>2, <1>7, FuncsOne
    <3>4. x.call = "upgrade" => \A n \in DOMAIN funcs' : funcs'[n] # Upgrading
      BY <1>6, <3>2, <3>3 DEF CallInv, Upgrading, Invoked
    <3>5. x.call = "socket_close" => \A n \in DOMAIN funcs' : ~Touches(funcs'[n], x.conn)
      BY <1>6, <3>2, <3>3 DEF CallInv
    <3>6. CallInv(x)'
      BY <1>2, <3>2, <3>4, <3>5 DEF CallInv, Open, Idle, Stale, Touches, Upgrading, Invoked
    <3>7. QED
      BY <1>2, <3>1, <3>6
  <2>3. QED
    BY <1>2, <2>1, <2>2 DEF CallsInv
<1>13. SocketsInv' /\ ListInv' /\ QueuesInv' /\ ResolverInv'
  BY <1>2, <1>10, SocketsKept, ListKept DEF QueuesInv, WriteCalled, ResolverInv
<1>14. QED
  BY <1>2, <1>8, <1>9, <1>11, <1>12, <1>13 DEF AttemptInv, Parts

(* Nothing is watched under the numbers of a stream that is destroyed. *)
LEMMA NotWatched ==
  ASSUME AttemptInv, NEW c \in Conn, Unreferenced(c), NEW fd \in {sock[c], server_fd[c]}
  PROVE  UnnotifyFd(poll_list, fd) = poll_list
<1>1. /\ SocketsInv /\ ListInv /\ OnePlaceInv /\ poll_list \in Seq(Entry)
      /\ OwnSocket(c)
  BY DEF AttemptInv, Parts, TInv, LInv, LoopTypes, SocketsInv
<1>2. ASSUME NEW e \in Range(poll_list), fd # NoFd
      PROVE  e.fd # fd
  <2>1. InList /\ e = poll_list[1] /\ e \in Entry
    <3>1. PICK n \in DOMAIN poll_list : e = poll_list[n]
      BY DEF Range
    <3>2. Len(poll_list) \in Nat /\ Len(poll_list) <= 1 /\ DOMAIN poll_list = 1..Len(poll_list)
      BY <1>1 DEF OnePlaceInv
    <3>3. n = 1
      BY <3>2
    <3>4. QED
      BY <1>1, <3>1, <3>2, <3>3 DEF InList
  <2>2. EntryInv(e) /\ e.conn \in Conn /\ e.conn # c /\ OwnSocket(e.conn)
    BY <1>1, <2>1, EntryFields DEF ListInv, Unreferenced, SocketsInv
  <2>3. c # Free /\ e.conn # Free
    BY <2>2 DEF Conn, Free
  <2>4. CASE e.cancelled
    <3>1. owner[e.fd] = Free /\ (Secure => server_fd[e.conn] = e.fd) /\ e.fd # NoFd
      BY <2>2, <2>4 DEF EntryInv
    <3>2. e.fd # sock[c]
      BY <1>1, <2>3, <3>1 DEF OwnSocket
    <3>3. server_fd[c] # NoFd => e.fd # server_fd[c]
      BY <1>1, <2>2, <3>1 DEF OwnSocket, SocketsInv
    <3>4. QED
      BY <1>2, <3>2, <3>3
  <2>5. CASE ~e.cancelled
    <3>1. sock[e.conn] = e.fd /\ owner[e.fd] = e.conn
      BY <2>2, <2>5 DEF EntryInv, OwnSocket
    <3>2. sock[c] # NoFd => e.fd # sock[c]
      BY <1>1, <2>2, <3>1 DEF OwnSocket
    <3>3. server_fd[c] # NoFd => e.fd # server_fd[c]
      BY <1>1, <2>2, <2>3, <3>1, <3>2 DEF OwnSocket, Stale
    <3>4. QED
      BY <1>2, <3>2, <3>3
  <2>6. QED
    BY <2>4, <2>5
<1>3. fd # NoFd => ~Has(poll_list, fd, "read") /\ ~Has(poll_list, fd, "write")
  BY <1>2 DEF Has
<1>4. QED
  BY <1>3 DEF UnnotifyFd, Unnotify

LEMMA DestroyAttempt ==
  ASSUME AttemptInv, TInv', NEW c \in Conn, DestroyStream(c)
  PROVE  AttemptInv'
<1>1. /\ current # c /\ Unreferenced(c) /\ calls = <<>>
      /\ UNCHANGED <<passVars, funcs, calls, resolving, up, write_op_queue>>
      /\ UNCHANGED <<current, connected, made, crashed, upgrading>>
      /\ sock' = [sock EXCEPT ![c] = NoFd] /\ server_fd' = [server_fd EXCEPT ![c] = NoFd]
      /\ owner' = CloseFd(CloseFd(owner, server_fd[c]), sock[c])
      /\ poll_list' = UnnotifyFd(UnnotifyFd(poll_list, server_fd[c]), sock[c])
      /\ SocketsInv /\ OnePlaceInv /\ ResolverInv /\ ListInv /\ FuncsInv /\ CallsInv /\ QueuesInv
      /\ PassInv /\ ~crashed /\ TInv
  BY DEF DestroyStream, Doomed, Destroy, clientVars, worldVars, AttemptInv, Parts
<1>2. /\ sock \in [Conn -> Fd \union {NoFd}] /\ server_fd \in [Conn -> Fd \union {NoFd}]
      /\ owner \in [Fd -> Conn \union {Free}]
      /\ poll_list \in Seq(Entry) /\ resolving \in Seq(Conn) /\ funcs \in Seq(Func)
  BY <1>1 DEF TInv, LInv, LoopTypes, StreamTypes
<1>3. poll_list' = poll_list
  BY <1>1, NotWatched
<1>4. /\ sock'[c] = NoFd /\ server_fd'[c] = NoFd
      /\ \A d \in Conn \ {c} : sock'[d] = sock[d] /\ server_fd'[d] = server_fd[d]
  BY <1>1, <1>2
<1>5. \A fd \in Fd : owner'[fd] = owner[fd] \/ (owner[fd] = c /\ owner'[fd] = Free)
  <2>1. ASSUME NEW fd \in Fd
        PROVE  owner'[fd] \in {owner[fd], Free} /\ (owner'[fd] # owner[fd] => fd \in {sock[c], server_fd[c]})
    BY <1>1, <1>2 DEF CloseFd
  <2>2. OwnSocket(c)
    BY <1>1 DEF SocketsInv
  <2>3. ASSUME NEW fd \in Fd, fd \in {sock[c], server_fd[c]}
        PROVE  owner[fd] \in {c, Free}
    BY <2>2, <2>3 DEF OwnSocket, Stale, Fd, NoFd
  <2>4. QED
    BY <2>1, <2>3
<1>6. SocketsInv'
  <2>1. ASSUME NEW d \in Conn
        PROVE  OwnSocket(d)'
    <3>1. OwnSocket(d) /\ server_fd[d] \in Fd \union {NoFd} /\ sock[d] \in Fd \union {NoFd}
      BY <1>1, <1>2 DEF SocketsInv
    <3>2. CASE d = c
      BY <1>1, <1>4, <3>1, <3>2 DEF OwnSocket, Stale
    <3>3. CASE d # c
      <4>1. sock'[d] = sock[d] /\ server_fd'[d] = server_fd[d]
        BY <1>4, <3>3
      <4>2. sock[d] # NoFd => owner'[sock[d]] = d
        BY <1>5, <3>1, <3>3 DEF OwnSocket
      <4>3. Stale(d) => owner'[server_fd[d]] = Free
        BY <1>5, <3>1 DEF OwnSocket, Stale
      <4>4. QED
        BY <1>1, <3>1, <4>1, <4>2, <4>3 DEF OwnSocket, Stale, Open
    <3>4. QED
      BY <3>2, <3>3
  <2>2. QED
    BY <1>1, <1>4, <2>1 DEF SocketsInv
<1>7. ResolverInv'
  <2>1. SUFFICES ASSUME AtResolver PROVE resolving[1] = current /\ Idle(current)' /\ ~connected
    BY <1>1 DEF ResolverInv, AtResolver
  <2>2. resolving[1] \in Conn
    BY <1>2, <2>1 DEF AtResolver
  <2>3. current \in Conn /\ Idle(current) /\ ~connected /\ resolving[1] = current
    BY <1>1, <2>1, <2>2 DEF ResolverInv
  <2>4. QED
    BY <1>1, <1>4, <2>3 DEF Idle
<1>8. FuncsInv'
  <2>1. ASSUME NEW n \in DOMAIN funcs
        PROVE  FuncInv(funcs[n])'
    <3>1. FuncInv(funcs[n]) /\ funcs[n] \in Func /\ funcs[n].conn # c
      BY <1>1, <1>2 DEF FuncsInv, Unreferenced, Range
    <3>2. funcs[n].f \in {"resolved", "write", "close"} =>
            /\ funcs[n].conn \in Conn
            /\ sock'[funcs[n].conn] = sock[funcs[n].conn]
            /\ server_fd'[funcs[n].conn] = server_fd[funcs[n].conn]
      BY <1>4, <3>1, FuncFields
    <3>3. QED
      BY <1>1, <3>1, <3>2 DEF FuncInv, Open, Idle, Upgrading
  <2>2. QED
    BY <1>1, <2>1 DEF FuncsInv, Touches
<1>9. ListInv'
  <2>1. SUFFICES ASSUME InList, NEW e, e = poll_list[1] PROVE EntryInv(e)'
    BY <1>3 DEF ListInv, InList
  <2>2. e \in Range(poll_list) /\ e \in Entry /\ EntryInv(e)
    BY <1>1, <1>2, <2>1 DEF InList, ListInv, Range
  <2>3. /\ e.conn \in Conn \ {c} /\ e.fd \in Fd
    BY <1>1, <2>2, EntryFields DEF EntryInv, Unreferenced
  <2>4. /\ sock'[e.conn] = sock[e.conn] /\ server_fd'[e.conn] = server_fd[e.conn]
        /\ owner[e.fd] = Free => owner'[e.fd] = Free
    BY <1>4, <1>5, <2>3
  <2>5. QED
    BY <1>1, <2>2, <2>4 DEF EntryInv, Open
<1>10. OnePlaceInv' /\ PassInv'
  BY <1>1, <1>3, PassKept DEF OnePlaceInv, AtResolver, InFuncs, InList, InCalls
<1>11. CallsInv' /\ QueuesInv'
  BY <1>1 DEF CallsInv, StackInv, QueuesInv, WriteCalled
<1>12. QED
  BY <1>1, <1>6, <1>7, <1>8, <1>9, <1>10, <1>11 DEF AttemptInv, Parts

-----------------------------------------------------------------------------
(* The loop's pass.                                                        *)

(* The pass moves on, and nothing else. *)
LEMMA PassMoves ==
  ASSUME AttemptInv, TInv', PassInv',
         UNCHANGED <<poll_list, funcs, calls>>, UNCHANGED streamVars, UNCHANGED <<clientVars, made, worldVars>>
  PROVE  AttemptInv'
<1>1. /\ SocketsInv /\ OnePlaceInv /\ ResolverInv /\ ListInv /\ FuncsInv /\ CallsInv /\ QueuesInv /\ ~crashed
  BY DEF AttemptInv, Parts
<1>2. /\ UNCHANGED <<poll_list, funcs, calls>>
      /\ UNCHANGED <<resolving, sock, server_fd, up, write_op_queue, owner>>
      /\ UNCHANGED <<current, connected, made, crashed, upgrading>>
  BY DEF streamVars, clientVars, worldVars
<1>3. SocketsInv' /\ ResolverInv' /\ ListInv' /\ FuncsInv'
  BY <1>1, <1>2, SocketsKept, ResolverKept, ListKept, FuncsKept
<1>4. OnePlaceInv'
  BY <1>1, <1>2 DEF OnePlaceInv, AtResolver, InFuncs, InList, InCalls, Aside
<1>5. CallsInv'
  <2>1. StackInv'
    BY <1>1, <1>2 DEF CallsInv, StackInv, Subscribing
  <2>2. ASSUME calls # <<>>
        PROVE  CallInv(calls[1])'
    BY <1>1, <1>2, <2>2 DEF CallsInv, CallInv, Open, Idle, Stale, Touches
  <2>3. QED
    BY <1>2, <2>1, <2>2 DEF CallsInv
<1>6. QueuesInv'
  BY <1>1, <1>2 DEF QueuesInv, WriteCalled
<1>7. QED
  BY <1>1, <1>2, <1>3, <1>4, <1>5, <1>6 DEF AttemptInv, Parts

LEMMA SelectAttempt ==
  ASSUME AttemptInv, TInv', Select \/ SelectTimeout, UNCHANGED <<clientVars, made, worldVars>>
  PROVE  AttemptInv'
<1>1. /\ todo' \subseteq DOMAIN poll_list /\ copy' = poll_list
      /\ ec' \in {"ok", "Timeout"} /\ phase' = "pass" /\ phase = "select"
      /\ UNCHANGED <<poll_list, funcs, calls>> /\ UNCHANGED streamVars
      /\ poll_list \in Seq(Entry) /\ OnePlaceInv /\ PassInv /\ funcs' = funcs
  BY DEF Select, SelectTimeout, Ready, AttemptInv, Parts, TInv, LInv, LoopTypes
<1>2. todo' \subseteq {1} /\ Len(copy') <= 1 /\ (todo' # {} => InList)
  <2>1. Len(poll_list) <= 1 /\ Len(poll_list) \in Nat /\ DOMAIN poll_list = 1..Len(poll_list)
    BY <1>1 DEF OnePlaceInv
  <2>2. DOMAIN poll_list \subseteq {1}
    BY <2>1
  <2>3. DOMAIN <<>> = {}
    OBVIOUS
  <2>4. QED
    BY <1>1, <2>1, <2>2, <2>3 DEF InList
<1>3. \A n \in 1..batch' : Carries(funcs'[n]) => copy' = <<>>
  <2>1. SUFFICES ASSUME NEW n \in 1..batch', Carries(funcs'[n]) PROVE poll_list = <<>>
    BY <1>1
  <2>2. n \in DOMAIN funcs
    <3>1. batch' \in 0..Len(funcs') /\ funcs' \in Seq(Func)
      BY DEF TInv, LInv, LoopTypes
    <3>2. DOMAIN funcs = 1..Len(funcs) /\ Len(funcs) \in Nat
      BY <1>1, <3>1
    <3>3. QED
      BY <1>1, <3>1, <3>2
  <2>3. InFuncs
    BY <1>1, <2>1, <2>2 DEF InFuncs
  <2>4. QED
    BY <1>1, <2>3 DEF OnePlaceInv, InList
<1>4. PassInv'
  BY <1>1, <1>2, <1>3 DEF PassInv, InList
<1>5. QED
  BY <1>1, <1>4, PassMoves

LEMMA PassDoneAttempt ==
  ASSUME AttemptInv, TInv', PassDone, UNCHANGED <<clientVars, made, worldVars>>
  PROVE  AttemptInv'
<1>1. /\ batch = 0 /\ todo = {} /\ phase' = "select" /\ copy' = <<>>
      /\ UNCHANGED <<todo, ec, batch>> /\ UNCHANGED <<poll_list, funcs, calls>> /\ UNCHANGED streamVars
  BY DEF PassDone
<1>2. PassInv'
  BY <1>1 DEF PassInv
<1>3. QED
  BY <1>1, <1>2, PassMoves

(* The loop makes one call. *)
LEMMA LoopCalls ==
  ASSUME NEW x, calls' = <<x>>, ~Subscribing(x), CallInv(x)'
  PROVE  CallsInv' /\ calls' # <<>> /\ calls'[1] = x /\ Len(calls') = 1 /\ DOMAIN calls' = {1}
<1>1. calls' # <<>> /\ calls'[1] = x /\ Len(calls') = 1 /\ DOMAIN calls' = {1}
  OBVIOUS
<1>2. StackInv'
  BY <1>1 DEF StackInv, Subscribing
<1>3. QED
  BY <1>1, <1>2 DEF CallsInv

(* Between calls nothing is queued. *)
LEMMA NothingQueued ==
  ASSUME AttemptInv, calls = <<>>
  PROVE  \A c \in Conn : write_op_queue[c] = <<>>
BY DEF AttemptInv, Parts, QueuesInv, WriteCalled

(* The first function is taken. *)
LEMMA FuncsTaken ==
  ASSUME AttemptInv, funcs # <<>>, funcs' = Tail(funcs), batch > 0, batch' = batch - 1,
         UNCHANGED <<phase, copy, todo, ec, poll_list, sock, server_fd, current, connected, upgrading>>
  PROVE  /\ funcs[1] \in Func /\ Head(funcs) = funcs[1] /\ FuncInv(funcs[1])
         /\ FuncsInv' /\ PassInv'
         /\ \A n \in DOMAIN funcs' : n \in Nat /\ n + 1 \in DOMAIN funcs /\ funcs'[n] = funcs[n + 1] /\ 1 < n + 1
         /\ InFuncs' => InFuncs
         /\ InFuncs => InFuncs' \/ Carries(funcs[1])
         /\ Carries(funcs[1]) => InFuncs /\ ~InFuncs'
         /\ \A m, n \in DOMAIN funcs' : Carries(funcs'[m]) /\ Carries(funcs'[n]) => m = n
<1>1. funcs \in Seq(Func) /\ FuncsInv /\ PassInv /\ OnePlaceInv /\ batch \in Nat
  BY DEF AttemptInv, Parts, TInv, LInv, LoopTypes
<1>2. /\ 1 \in DOMAIN funcs /\ Head(funcs) = funcs[1] /\ Head(funcs) \in Func
      /\ \A n \in DOMAIN funcs' : n \in Nat /\ n + 1 \in DOMAIN funcs /\ n + 1 # 1 /\ funcs'[n] = funcs[n + 1]
      /\ DOMAIN funcs = 1..Len(funcs) /\ Len(funcs) \in Nat
  BY <1>1, TailIs
<1>3. \A n \in DOMAIN funcs' : n \in Nat /\ n + 1 \in DOMAIN funcs /\ funcs'[n] = funcs[n + 1] /\ 1 < n + 1
  <2>1. ASSUME NEW n \in DOMAIN funcs'
        PROVE  1 < n + 1
    <3>1. n \in Nat /\ n + 1 \in 1..Len(funcs) /\ n + 1 # 1
      BY <1>2
    <3>2. QED
      BY <3>1
  <2>2. QED
    BY <1>2, <2>1
<1>4. \A n \in DOMAIN funcs : n = 1 \/ (n - 1 \in DOMAIN funcs' /\ funcs'[n - 1] = funcs[n])
  <2>1. /\ DOMAIN Tail(funcs) = 1..(Len(funcs) - 1)
        /\ \A n \in 1..(Len(funcs) - 1) : Tail(funcs)[n] = funcs[n + 1]
    BY <1>1, HeadTailProperties
  <2>2. ASSUME NEW n \in DOMAIN funcs, n # 1
        PROVE  n - 1 \in DOMAIN funcs' /\ funcs'[n - 1] = funcs[n]
    <3>1. n - 1 \in 1..(Len(funcs) - 1) /\ n - 1 + 1 = n
      BY <1>2, <2>2
    <3>2. QED
      BY <2>1, <3>1
  <2>3. QED
    BY <2>2
<1>5. FuncsInv'
  <2>1. ASSUME NEW n \in DOMAIN funcs'
        PROVE  FuncInv(funcs[n])'
    <3>1. PICK f : f = funcs[n + 1]
      OBVIOUS
    <3>2. FuncInv(f) /\ funcs'[n] = f
      BY <1>1, <1>3, <3>1 DEF FuncsInv
    <3>3. FuncInv(f)'
      BY <3>2 DEF FuncInv, Open, Idle, Upgrading
    <3>4. QED
      BY <3>2, <3>3
  <2>2. ASSUME NEW m \in DOMAIN funcs', NEW n \in DOMAIN funcs', m < n, funcs'[m].f = "close"
        PROVE  ~Touches(funcs'[n], funcs'[m].conn)
    <3>1. m + 1 < n + 1
      BY <1>3, <2>2
    <3>2. QED
      BY <1>1, <1>3, <2>2, <3>1 DEF FuncsInv
  <2>3. ASSUME NEW m \in DOMAIN funcs', NEW n \in DOMAIN funcs', funcs'[m] = Upgrading, funcs'[n] = Upgrading
        PROVE  m = n
    <3>1. m + 1 = n + 1 /\ m \in Nat /\ n \in Nat
      BY <1>1, <1>3, <2>3 DEF FuncsInv
    <3>2. QED
      BY <3>1
  <2>4. QED
    BY <2>1, <2>2, <2>3 DEF FuncsInv, Touches, Upgrading, Invoked
<1>6. \A m, n \in DOMAIN funcs' : Carries(funcs'[m]) /\ Carries(funcs'[n]) => m = n
  <2>1. ASSUME NEW m \in DOMAIN funcs', NEW n \in DOMAIN funcs', Carries(funcs'[m]), Carries(funcs'[n])
        PROVE  m = n
    <3>1. m + 1 = n + 1 /\ m \in Nat /\ n \in Nat
      BY <1>1, <1>3, <2>1 DEF OnePlaceInv
    <3>2. QED
      BY <3>1
  <2>2. QED
    BY <2>1
<1>7. InFuncs' => InFuncs
  BY <1>3 DEF InFuncs, Carries
<1>8. InFuncs => InFuncs' \/ Carries(funcs[1])
  BY <1>4 DEF InFuncs, Carries
<1>9. Carries(funcs[1]) => InFuncs /\ ~InFuncs'
  <2>1. ASSUME Carries(funcs[1]), NEW n \in DOMAIN funcs', Carries(funcs'[n])
        PROVE  FALSE
    BY <1>1, <1>2, <1>3, <2>1 DEF OnePlaceInv
  <2>2. QED
    BY <1>2, <2>1 DEF InFuncs, Carries
<1>10. PassInv'
  <2>1. ASSUME NEW n \in 1..batch', Carries(funcs'[n])
        PROVE  copy' = <<>>
    <3>1. n \in Nat /\ n + 1 \in 1..batch
      BY <1>1, <2>1
    <3>2. n \in DOMAIN funcs'
      <4>1. batch \in 0..Len(funcs)
        BY DEF AttemptInv, TInv, LInv, LoopTypes
      <4>2. n \in 1..(Len(funcs) - 1)
        BY <1>2, <3>1, <2>1, <4>1
      <4>3. QED
        BY <1>1, <4>2, HeadTailProperties
    <3>3. QED
      BY <1>1, <1>3, <2>1, <3>1, <3>2 DEF PassInv
  <2>2. phase' = "select" => FALSE
    BY <1>1 DEF PassInv
  <2>3. QED
    BY <1>1, <2>1, <2>2 DEF PassInv, InList, Carries
<1>11. FuncInv(funcs[1])
  BY <1>1, <1>2 DEF FuncsInv
<1>12. QED
  BY <1>2, <1>3, <1>5, <1>6, <1>7, <1>8, <1>9, <1>10, <1>11

(* When the resolver's answer is taken, no stream is stale: what refers to *)
(* none is destroyed first, and nothing else is on its way.                *)
LEMMA NoneIsStale ==
  ASSUME AttemptInv, funcs # <<>>, batch > 0, funcs[1].f = "resolved",
         \A c \in Conn : ~Doomed(c)
  PROVE  \A c \in Conn : ~Stale(c)
<1>1. /\ funcs \in Seq(Func) /\ FuncsInv /\ PassInv /\ OnePlaceInv /\ batch \in Nat
      /\ resolving \in Seq(Conn) /\ copy \in Seq(Entry) /\ poll_list \in Seq(Entry)
  BY DEF AttemptInv, Parts, TInv, LInv, LoopTypes, StreamTypes
<1>2. 1 \in DOMAIN funcs /\ Carries(funcs[1]) /\ InFuncs
  <2>1. 1 \in DOMAIN funcs
    BY <1>1, TailIs
  <2>2. QED
    BY <2>1 DEF Carries, InFuncs
<1>3. resolving = <<>> /\ poll_list = <<>> /\ copy = <<>>
  <2>1. 1 \in 1..batch
    BY <1>1
  <2>2. QED
    BY <1>1, <1>2, <2>1 DEF OnePlaceInv, AtResolver, InList, PassInv
<1>4. funcs[1].conn = current /\ Idle(current)
  BY <1>1, <1>2 DEF FuncsInv, FuncInv
<1>5. ASSUME NEW c \in Conn, Stale(c)
      PROVE  FALSE
  <2>1. c # current /\ c # Free
    BY <1>4, <1>5 DEF Stale, Idle, Conn, Free
  <2>2. \A f \in Range(funcs) : f.conn # c
    <3>1. SUFFICES ASSUME NEW n \in DOMAIN funcs PROVE funcs[n].conn # c
      BY DEF Range
    <3>2. FuncInv(funcs[n]) /\ funcs[n] \in Func
      BY <1>1 DEF FuncsInv
    <3>3. CASE funcs[n].f = "call"
      <4>1. funcs[n].conn = Free
        BY <3>2, <3>3 DEF FuncInv, Upgrading, Joining, Invoked
      <4>2. QED
        BY <2>1, <4>1
    <3>4. CASE funcs[n].f # "call"
      BY <1>5, <2>1, <3>2, <3>4, FuncFields DEF FuncInv, Open, Stale
    <3>5. QED
      BY <3>3, <3>4
  <2>3. Range(<<>>) = {}
    BY DEF Range
  <2>4. Unreferenced(c)
    BY <1>3, <2>2, <2>3 DEF Unreferenced
  <2>5. QED
    BY <1>5, <2>1, <2>4 DEF Doomed, Stale
<1>6. QED
  BY <1>5

LEMMA RunFuncAttempt ==
  ASSUME AttemptInv, TInv', RunFunc, UNCHANGED <<clientVars, made, worldVars>>,
         \A c \in Conn : ~Doomed(c)
  PROVE  AttemptInv'
<1>1. /\ UNCHANGED <<phase, copy, todo, ec, poll_list>> /\ UNCHANGED <<resolving, sock, server_fd, up, owner>>
      /\ UNCHANGED <<current, connected, made, crashed, upgrading>>
      /\ batch > 0 /\ batch' = batch - 1 /\ funcs' = Tail(funcs) /\ calls = <<>>
      /\ SocketsInv /\ OnePlaceInv /\ ResolverInv /\ ListInv /\ FuncsInv /\ QueuesInv /\ ~crashed
      /\ write_op_queue \in [Conn -> Seq(Op)]
  BY DEF RunFunc, AttemptInv, Parts, clientVars, worldVars, TInv, StreamTypes
<1>2. funcs # <<>>
  BY <1>1 DEF AttemptInv, TInv, LInv, LoopTypes
<1>3. PICK f : f = funcs[1]
  OBVIOUS
<1>4. /\ f \in Func /\ Head(funcs) = f /\ FuncInv(f)
      /\ FuncsInv' /\ PassInv'
      /\ \A n \in DOMAIN funcs' : n \in Nat /\ n + 1 \in DOMAIN funcs /\ funcs'[n] = funcs[n + 1] /\ 1 < n + 1
      /\ InFuncs' => InFuncs
      /\ InFuncs => InFuncs' \/ Carries(f)
      /\ Carries(f) => InFuncs /\ ~InFuncs'
      /\ \A m, n \in DOMAIN funcs' : Carries(funcs'[m]) /\ Carries(funcs'[n]) => m = n
  BY <1>1, <1>2, <1>3, FuncsTaken
<1>5. /\ f.f \in {"resolved", "close", "write", "call"} /\ ~InCalls
      /\ 1 \in DOMAIN funcs
      /\ \A c \in Conn : write_op_queue[c] = <<>>
  <2>1. 1 \in DOMAIN funcs
    BY <1>2, TailIs DEF AttemptInv, TInv, LInv, LoopTypes
  <2>2. QED
    BY <1>1, <1>2, <1>4, <2>1, FuncFields, NothingQueued DEF InCalls
<1>6. SocketsInv' /\ ListInv' /\ ResolverInv'
  BY <1>1, SocketsKept, ListKept, ResolverKept
<1>7. ASSUME CallsInv', QueuesInv', InCalls' <=> Carries(f)
      PROVE  AttemptInv'
  <2>1. AtResolver' = AtResolver /\ InList' = InList
    BY <1>1 DEF AtResolver, InList
  <2>2. OnePlaceInv'
    <3>1. /\ AtResolver' => ~InFuncs' /\ ~InList' /\ ~InCalls'
          /\ InFuncs' => ~InList' /\ ~InCalls'
          /\ InList' => ~InCalls'
      BY <1>1, <1>4, <1>7, <2>1 DEF OnePlaceInv
    <3>2. /\ made > 0 /\ ~upgrading =>
               current # NoConn /\ (AtResolver' \/ InFuncs' \/ InList' \/ InCalls')
          /\ current = NoConn /\ ~connected => ~AtResolver' /\ ~InFuncs' /\ ~InList' /\ ~InCalls'
      <4>1. /\ made > 0 /\ ~upgrading => current # NoConn /\ (AtResolver \/ InFuncs \/ InList)
            /\ current = NoConn /\ ~connected => ~AtResolver /\ ~InFuncs /\ ~InList
        BY <1>1, <1>5 DEF OnePlaceInv
      <4>2. QED
        BY <1>4, <1>7, <2>1, <4>1
    <3>3. Len(resolving') <= 1 /\ Len(poll_list') <= 1
      BY <1>1 DEF OnePlaceInv
    <3>4. QED
      BY <1>1, <1>4, <3>1, <3>2, <3>3 DEF OnePlaceInv, Carries
  <2>3. QED
    BY <1>1, <1>4, <1>6, <1>7, <2>2 DEF AttemptInv, Parts
<1>8. ASSUME UNCHANGED write_op_queue
      PROVE  QueuesInv'
  BY <1>5, <1>8 DEF QueuesInv
<1>9. CASE f.f = "resolved"
  <2>1. PICK x : x = [call |-> "on_resolved", conn |-> f.conn, found |-> f.found]
    OBVIOUS
  <2>2. calls' = <<x>> /\ UNCHANGED write_op_queue /\ x.call = "on_resolved" /\ x.conn = f.conn
    BY <1>4, <1>9, <2>1 DEF RunFunc
  <2>3. \A c \in Conn : ~Stale(c)
    BY <1>1, <1>2, <1>3, <1>9, NoneIsStale
  <2>4. CallInv(x)' /\ ~Subscribing(x)
    BY <1>1, <1>4, <1>9, <2>2, <2>3 DEF CallInv, FuncInv, Idle, Stale, Subscribing
  <2>5. CallsInv' /\ calls' # <<>> /\ calls'[1] = x
    BY <2>2, <2>4, LoopCalls
  <2>6. InCalls' /\ Carries(f)
    BY <1>9, <2>2, <2>5 DEF InCalls, Aside, Carries
  <2>7. QED
    BY <1>7, <1>8, <2>2, <2>5, <2>6
<1>10. CASE f.f = "close"
  <2>1. PICK x : x = [call |-> "socket_close", conn |-> f.conn]
    OBVIOUS
  <2>2. calls' = <<x>> /\ UNCHANGED write_op_queue /\ x.call = "socket_close" /\ x.conn = f.conn
    BY <1>4, <1>10, <2>1 DEF RunFunc
  <2>3. \A n \in DOMAIN funcs' : ~Touches(funcs'[n], f.conn)
    BY <1>1, <1>3, <1>4, <1>5, <1>10 DEF FuncsInv
  <2>4. CallInv(x)' /\ ~Subscribing(x)
    BY <1>1, <1>4, <1>10, <2>2, <2>3 DEF CallInv, FuncInv, Subscribing, Touches
  <2>5. CallsInv' /\ calls' # <<>> /\ calls'[1] = x
    BY <2>2, <2>4, LoopCalls
  <2>6. ~InCalls' /\ ~Carries(f)
    BY <1>10, <2>2, <2>5 DEF InCalls, Aside, Carries
  <2>7. QED
    BY <1>7, <1>8, <2>2, <2>5, <2>6
<1>11. CASE f.f = "call"
  <2>1. PICK x : x = f.then
    OBVIOUS
  <2>2. \/ f = Joining /\ x.call = "connect"
        \/ f = Upgrading /\ x.call = "upgrade" /\ ~upgrading
    BY <1>4, <1>11, <2>1 DEF FuncInv, Joining, Upgrading, Invoked
  <2>3. calls' = <<x>> /\ UNCHANGED write_op_queue
    BY <1>4, <1>11, <2>1 DEF RunFunc
  <2>4. ASSUME f = Upgrading, NEW n \in DOMAIN funcs'
        PROVE  funcs'[n] # Upgrading
    BY <1>1, <1>3, <1>4, <1>5, <2>4 DEF FuncsInv
  <2>5. CallInv(x)' /\ ~Subscribing(x)
    BY <1>1, <2>2, <2>4 DEF CallInv, Subscribing, Upgrading, Invoked
  <2>6. CallsInv' /\ calls' # <<>> /\ calls'[1] = x
    BY <2>3, <2>5, LoopCalls
  <2>7. ~InCalls' /\ ~Carries(f)
    BY <1>11, <2>2, <2>6 DEF InCalls, Aside, Carries
  <2>8. QED
    BY <1>7, <1>8, <2>3, <2>6, <2>7
<1>12. CASE f.f = "write"
  <2>1. PICK c \in Conn : c = f.conn
    BY <1>4, <1>12, FuncFields
  <2>2. PICK op \in {"connect", "subscribe"} : op = f.op
    BY <1>4, <1>12 DEF FuncInv
  <2>3. PICK x : x = [call |-> "do_write", conn |-> c]
    OBVIOUS
  <2>4. /\ calls' = <<x>> /\ x.call = "do_write" /\ x.conn = c
        /\ write_op_queue' = [write_op_queue EXCEPT ![c] = Append(@, op)]
    BY <1>4, <1>5, <1>12, <2>1, <2>2, <2>3 DEF RunFunc
  <2>5. write_op_queue'[c] = <<op>> /\ \A d \in Conn \ {c} : write_op_queue'[d] = <<>>
    <3>1. Append(<<>>, op) = <<op>>
      OBVIOUS
    <3>2. write_op_queue'[c] = Append(write_op_queue[c], op)
      BY <1>1, <2>4
    <3>3. QED
      BY <1>1, <1>5, <2>4, <3>1, <3>2
  <2>6. CallInv(x)' /\ ~Subscribing(x)
    BY <1>1, <1>4, <1>12, <2>1, <2>2, <2>4, <2>5 DEF CallInv, FuncInv, Open, Subscribing
  <2>7. CallsInv' /\ calls' # <<>> /\ calls'[1] = x /\ DOMAIN calls' = {1}
    BY <2>4, <2>6, LoopCalls
  <2>8. InCalls' <=> Carries(f)
    <3>1. Carries(f) <=> op = "connect"
      BY <1>12, <2>2 DEF Carries
    <3>2. <<"connect">> # <<"subscribe">>
      OBVIOUS
    <3>3. InCalls' <=> op = "connect"
      BY <2>4, <2>5, <2>7, <3>2 DEF InCalls, Aside
    <3>4. QED
      BY <3>1, <3>3
  <2>9. QueuesInv'
    <3>1. Len(<<op>>) = 1
      OBVIOUS
    <3>2. WriteCalled(c)'
      BY <2>4, <2>7 DEF WriteCalled, WriteCall
    <3>3. QED
      BY <2>5, <3>1, <3>2 DEF QueuesInv
  <2>10. QED
    BY <1>7, <2>7, <2>8, <2>9
<1>13. QED
  BY <1>5, <1>9, <1>10, <1>11, <1>12

(* The only entry leaves the list. *)
LEMMA UnnotifyOne ==
  ASSUME NEW list \in Seq(Entry), Len(list) <= 1, list # <<>>, NEW fd, NEW dir,
         list[1].fd = fd, list[1].dir = dir
  PROVE  Unnotify(list, fd, dir) = <<>>
<1>1. Len(list) = 1 /\ DOMAIN list = {1}
  BY EmptySeq, LenProperties
<1>2. Has(list, fd, dir)
  BY <1>1 DEF Has, Range
<1>3. /\ list[1].fd = fd /\ list[1].dir = dir
      /\ \A m \in 1..(1 - 1) : ~(list[m].fd = fd /\ list[m].dir = dir)
  OBVIOUS
<1>4. Find(list, fd, dir) = 1
  BY <1>1, <1>3 DEF Find
<1>5. RemoveAt(list, 1) = <<>>
  <2>1. SubSeq(list, 1, 0) = <<>> /\ SubSeq(list, 2, 1) = <<>>
    BY <1>1
  <2>2. RemoveAt(list, 1) = SubSeq(list, 1, 0) \o SubSeq(list, 2, 1)
    BY <1>1 DEF RemoveAt
  <2>3. QED
    BY <2>1, <2>2
<1>6. QED
  BY <1>2, <1>4, <1>5 DEF Unnotify

LEMMA AnswerAttempt ==
  ASSUME AttemptInv, TInv', Answer, UNCHANGED <<clientVars, made, worldVars>>
  PROVE  AttemptInv'
<1>1. PICK n \in todo :
        /\ ec' = (IF copy[n].cancelled /\ ec # "Timeout" THEN "Cancelled" ELSE ec)
        /\ poll_list' = Unnotify(poll_list, copy[n].fd, copy[n].dir)
        /\ calls' = Callback(copy[n], ec')
        /\ todo' = todo \ {n}
  BY DEF Answer
<1>2. /\ UNCHANGED <<phase, copy, batch, funcs>> /\ UNCHANGED streamVars /\ calls = <<>> /\ batch = 0 /\ phase = "pass"
      /\ UNCHANGED <<resolving, sock, server_fd, up, write_op_queue, owner>>
      /\ UNCHANGED <<current, connected, made, crashed, upgrading>>
      /\ SocketsInv /\ OnePlaceInv /\ ResolverInv /\ ListInv /\ FuncsInv /\ QueuesInv /\ PassInv /\ ~crashed
      /\ LoopTypes
  BY DEF Answer, AttemptInv, Parts, streamVars, clientVars, worldVars, TInv, LInv
<1>3. n = 1 /\ todo' = {} /\ InList /\ ec \in {"ok", "Timeout"}
  BY <1>1, <1>2 DEF PassInv, LoopTypes
<1>4. PICK e : e = copy[1]
  OBVIOUS
<1>5. PICK p : p = poll_list[1]
  OBVIOUS
<1>6. /\ e \in Entry /\ e.conn \in Conn /\ EntryInv(p)
      /\ p.fd = e.fd /\ p.dir = e.dir /\ p.cb = e.cb /\ p.conn = e.conn /\ (e.cancelled => p.cancelled)
      /\ poll_list \in Seq(Entry) /\ Len(poll_list) <= 1 /\ poll_list # <<>>
  BY <1>1, <1>2, <1>3, <1>4, <1>5, EntryFields DEF PassInv, ListInv, LoopTypes, InList, OnePlaceInv
<1>7. poll_list' = <<>>
  BY <1>1, <1>3, <1>4, <1>5, <1>6, UnnotifyOne
<1>8. ~AtResolver /\ ~InFuncs /\ made # 0
  BY <1>2, <1>3 DEF OnePlaceInv
<1>9. PICK code : code = ec'
  OBVIOUS
<1>10. /\ code = (IF e.cancelled /\ ec # "Timeout" THEN "Cancelled" ELSE ec)
       /\ calls' = Callback(e, code)
  BY <1>1, <1>3, <1>4, <1>9
<1>11. ASSUME NEW x, calls' = <<x>>, CallInv(x)', ~Aside(x)', ~Subscribing(x)
       PROVE  AttemptInv'
  <2>1. CallsInv' /\ calls' # <<>> /\ calls'[1] = x
    BY <1>11, LoopCalls
  <2>2. InCalls'
    BY <1>11, <2>1 DEF InCalls, Aside
  <2>3. ~AtResolver' /\ ~InFuncs' /\ ~InList' /\ Len(poll_list') <= 1
    BY <1>2, <1>7, <1>8 DEF AtResolver, InFuncs, InList
  <2>4. OnePlaceInv'
    BY <1>2, <1>3, <1>8, <2>2, <2>3 DEF OnePlaceInv
  <2>5. QueuesInv'
    BY <1>2, NothingQueued DEF QueuesInv
  <2>6. PassInv'
    BY <1>2, <1>3 DEF PassInv
  <2>7. SocketsInv' /\ ResolverInv' /\ FuncsInv' /\ ListInv'
    BY <1>2, <2>3, SocketsKept, ResolverKept, FuncsKept DEF ListInv
  <2>8. QED
    BY <1>2, <2>1, <2>4, <2>5, <2>6, <2>7 DEF AttemptInv, Parts
<1>12. CASE e.cb \in {"connect", "handshake"}
  <2>1. /\ current = e.conn /\ ~connected /\ ~p.cancelled /\ ~e.cancelled
        /\ sock[e.conn] = e.fd /\ e.fd # NoFd
        /\ e.cb = "handshake" => Secure /\ Open(e.conn)
    BY <1>6, <1>12 DEF EntryInv, Conn, NoConn
  <2>2. code \in {"ok", "Timeout"}
    BY <1>3, <1>10, <2>1
  <2>3. CASE e.cb = "connect" /\ code = "ok"
    <3>1. PICK x : x = [call |-> "socket_on_connected", conn |-> e.conn]
      OBVIOUS
    <3>2. calls' = <<x>> /\ x.call = "socket_on_connected" /\ x.conn = e.conn
      BY <1>10, <2>3, <3>1 DEF Callback
    <3>3. CallInv(x)' /\ ~Aside(x)' /\ ~Subscribing(x)
      BY <1>2, <2>1, <3>2 DEF CallInv, Aside, Subscribing
    <3>4. QED
      BY <1>11, <3>2, <3>3
  <2>4. CASE e.cb = "handshake" /\ code = "ok"
    <3>1. PICK x : x = [call |-> "on_handshake", conn |-> e.conn]
      OBVIOUS
    <3>2. calls' = <<x>> /\ x.call = "on_handshake" /\ x.conn = e.conn
      BY <1>10, <2>4, <3>1 DEF Callback
    <3>3. CallInv(x)' /\ ~Aside(x)' /\ ~Subscribing(x)
      BY <1>2, <2>1, <2>4, <3>2 DEF CallInv, Open, Aside, Subscribing
    <3>4. QED
      BY <1>11, <3>2, <3>3
  <2>5. CASE code = "Timeout"
    <3>1. PICK x : x = ConnectCb(e.conn, code)
      OBVIOUS
    <3>2. calls' = <<x>> /\ x.call = "connect_cb" /\ x.conn = e.conn /\ x.ec = "Timeout"
      BY <1>10, <1>12, <2>5, <3>1 DEF Callback, ConnectCb
    <3>3. CallInv(x)' /\ ~Aside(x)' /\ ~Subscribing(x)
      BY <1>2, <2>1, <3>2 DEF CallInv, Aside, Subscribing
    <3>4. QED
      BY <1>11, <3>2, <3>3
  <2>6. QED
    BY <1>12, <2>2, <2>3, <2>4, <2>5
<1>13. CASE e.cb = "read"
  <2>1. current \in {e.conn, NoConn} /\ (code = "Cancelled" => current = NoConn)
    BY <1>3, <1>6, <1>10 DEF EntryInv
  <2>2. CASE code = "ok"
    <3>1. PICK x : x = [call |-> "do_read", conn |-> e.conn]
      OBVIOUS
    <3>2. calls' = <<x>> /\ x.call = "do_read" /\ x.conn = e.conn
      BY <1>10, <1>13, <2>2, <3>1 DEF Callback
    <3>3. CallInv(x)' /\ ~Aside(x)' /\ ~Subscribing(x)
      BY <1>2, <2>1, <3>2 DEF CallInv, Aside, Subscribing
    <3>4. QED
      BY <1>11, <3>2, <3>3
  <2>3. CASE code # "ok"
    <3>1. PICK x : x = ReadCb(code)
      OBVIOUS
    <3>2. calls' = <<x>> /\ x.call = "read_cb" /\ x.ec = code
      BY <1>10, <1>13, <2>3, <3>1 DEF Callback, ReadCb
    <3>3. CallInv(x)' /\ ~Aside(x)' /\ ~Subscribing(x)
      BY <1>2, <2>1, <3>2 DEF CallInv, Aside, Subscribing
    <3>4. QED
      BY <1>11, <3>2, <3>3
  <2>4. QED
    BY <2>2, <2>3
<1>14. QED
  BY <1>6, <1>12, <1>13 DEF EntryInv

-----------------------------------------------------------------------------
(* All steps.                                                              *)

LEMMA LoopStepAttempt ==
  ASSUME OnlyConnectionsFail, AttemptInv, TInv', LoopStep
  PROVE  AttemptInv'
<1>1. ~PingDue
  BY DEF PingDue, OnlyConnectionsFail, AttemptInv, TInv, ClientTypes
<1>2. /\ \A c \in Conn : ~Doomed(c)
      /\ Select \/ SelectTimeout \/ RunFunc \/ Answer \/ PassDone
      /\ UNCHANGED <<clientVars, made, worldVars>>
  BY <1>1 DEF LoopStep
<1>3. QED
  BY <1>2, SelectAttempt, RunFuncAttempt, AnswerAttempt, PassDoneAttempt

LEMMA AttemptNext ==
  ASSUME OnlyConnectionsFail, AttemptInv, [Next]_vars, ~replaced'
  PROVE  AttemptInv'
<1>1. TInv'
  BY TypesNext DEF AttemptInv
<1>2. CASE Next
  <2>1. \/ Join \/ Connect \/ Publish \/ Resolver \/ StreamStep \/ ClientStep \/ LoopStep
        \/ \E c \in Conn : DestroyStream(c)
    BY <1>2 DEF Next
  <2>2. ~Publish
    BY DEF Publish, OnlyConnectionsFail, AttemptInv, TInv, ClientTypes
  <2>3. QED
    BY <1>1, <2>1, <2>2, JoinAttempt, ConnectAttempt, ResolverAttempt, StreamStepAttempt, ClientStepAttempt,
       LoopStepAttempt, DestroyAttempt
<1>3. CASE UNCHANGED vars
  <2>1. /\ UNCHANGED passVars /\ UNCHANGED <<poll_list, funcs, calls>>
        /\ UNCHANGED streamVars /\ UNCHANGED <<clientVars, made, worldVars>>
    BY <1>3 DEF vars, loopVars
  <2>2. PassInv'
    BY <2>1, PassKept DEF AttemptInv, Parts
  <2>3. QED
    BY <1>1, <2>1, <2>2, PassMoves
<1>4. QED
  BY <1>2, <1>3

LEMMA AttemptInit == Init => AttemptInv
<1> SUFFICES ASSUME Init PROVE AttemptInv
  OBVIOUS
<1>1. /\ phase = "select" /\ poll_list = <<>> /\ copy = <<>> /\ todo = {} /\ funcs = <<>> /\ calls = <<>>
      /\ batch = 0 /\ resolving = <<>> /\ ~connected /\ made = 0 /\ current = NoConn
      /\ ~crashed
      /\ \A c \in Conn : sock[c] = NoFd /\ server_fd[c] = NoFd /\ ~up[c] /\ write_op_queue[c] = <<>>
  BY DEF Init, StreamInit, NoSocket
<1>2. TInv
  BY TypesInit
<1>3. SocketsInv
  BY <1>1 DEF SocketsInv, OwnSocket, Stale, NoConn
<1>4. Len(<<>>) = 0 /\ DOMAIN <<>> = {}
  OBVIOUS
<1>5. OnePlaceInv
  BY <1>1, <1>4 DEF OnePlaceInv, AtResolver, InFuncs, InList, InCalls
<1>6. ResolverInv /\ ListInv /\ FuncsInv
  BY <1>1, <1>4 DEF ResolverInv, AtResolver, ListInv, InList, FuncsInv
<1>7. CallsInv /\ QueuesInv
  BY <1>1, <1>4 DEF CallsInv, StackInv, QueuesInv
<1>8. PassInv
  BY <1>1, <1>4 DEF PassInv
<1>9. QED
  BY <1>1, <1>2, <1>3, <1>5, <1>6, <1>7, <1>8 DEF AttemptInv, Parts

(* A stream that is replaced is attempted beside the one in its place.     *)
LEMMA AttemptAlways == ASSUME OnlyConnectionsFail PROVE Spec => [](replaced \/ AttemptInv)
<1>1. Init => JoinTypes /\ AttemptInv
  <2>1. 0 \in 0..MaxJoin
    BY ClientAssumption
  <2>2. QED
    BY <2>1, AttemptInit DEF Init, JoinTypes
<1>2. JoinTypes /\ (replaced \/ AttemptInv) /\ [Next]_vars => (JoinTypes /\ (replaced \/ AttemptInv))'
  BY JoinsNext, AttemptNext
<1> QED
  BY <1>1, <1>2, PTL DEF Spec

(* Which stream is being connected. *)
LEMMA ConnectingIsCurrent == ASSUME AttemptInv PROVE OneAttempt
<1>1. /\ OnePlaceInv /\ ResolverInv /\ ListInv /\ FuncsInv
      /\ resolving \in Seq(Conn) /\ poll_list \in Seq(Entry)
  BY DEF AttemptInv, Parts, TInv, LInv, LoopTypes, StreamTypes
<1>2. \A S : \A list \in Seq(S) : Len(list) <= 1 => \A n \in DOMAIN list : n = 1 /\ list # <<>>
  OBVIOUS
<1>3. SUFFICES ASSUME NEW c \in Conn, Connecting(c) PROVE c = current
  BY DEF OneAttempt
<1>4. CASE c \in Range(resolving)
  <2>1. PICK n \in DOMAIN resolving : c = resolving[n]
    BY <1>4 DEF Range
  <2>2. n = 1 /\ AtResolver
    BY <1>1, <1>2, <2>1 DEF OnePlaceInv, AtResolver
  <2>3. QED
    BY <1>1, <2>1, <2>2 DEF ResolverInv
<1>5. CASE \E f \in Range(funcs) : f.f = "resolved" /\ f.conn = c
  <2>1. PICK n \in DOMAIN funcs : funcs[n].f = "resolved" /\ funcs[n].conn = c
    BY <1>5 DEF Range
  <2>2. QED
    BY <1>1, <2>1 DEF FuncsInv, FuncInv
<1>6. CASE \E e \in Range(poll_list) : e.cb \in {"connect", "handshake"} /\ e.conn = c
  <2>1. PICK n \in DOMAIN poll_list : poll_list[n].cb \in {"connect", "handshake"} /\ poll_list[n].conn = c
    BY <1>6 DEF Range
  <2>2. n = 1 /\ InList
    BY <1>1, <1>2, <2>1 DEF OnePlaceInv, InList
  <2>3. QED
    BY <1>1, <2>1, <2>2 DEF ListInv, EntryInv
<1>7. QED
  BY <1>3, <1>4, <1>5, <1>6 DEF Connecting

LEMMA SomethingIsDue == ASSUME AttemptInv PROVE NeverStuck
<1>1. /\ OnePlaceInv /\ ResolverInv /\ ListInv /\ FuncsInv
      /\ resolving \in Seq(Conn) /\ poll_list \in Seq(Entry)
  BY DEF AttemptInv, Parts, TInv, LInv, LoopTypes, StreamTypes
<1>2. SUFFICES ASSUME calls = <<>>, made > 0, ~upgrading PROVE current # NoConn /\ Attended(current)
  BY DEF NeverStuck
<1>3. current # NoConn /\ (AtResolver \/ InFuncs \/ InList)
  BY <1>1, <1>2 DEF OnePlaceInv, InCalls
<1>4. CASE AtResolver
  <2>1. 1 \in DOMAIN resolving /\ resolving[1] = current
    BY <1>1, <1>4, TailIs DEF AtResolver, ResolverInv
  <2>2. QED
    BY <1>3, <2>1 DEF Attended, Connecting, Range
<1>5. CASE InFuncs
  <2>1. PICK n \in DOMAIN funcs : Carries(funcs[n])
    BY <1>5 DEF InFuncs
  <2>2. funcs[n].conn = current
    BY <1>1, <2>1 DEF FuncsInv, FuncInv, Carries
  <2>3. QED
    BY <1>3, <2>1, <2>2 DEF Attended, Range
<1>6. CASE InList
  <2>1. 1 \in DOMAIN poll_list
    BY <1>1, <1>6, TailIs DEF InList
  <2>2. poll_list[1].conn = current /\ poll_list[1].fd # NoFd
    BY <1>1, <1>3, <1>6 DEF ListInv, EntryInv
  <2>3. QED
    BY <1>3, <2>1, <2>2 DEF Attended, Range
<1>7. QED
  BY <1>3, <1>4, <1>5, <1>6

(* However many streams and descriptors there are, over TCP or TLS: when   *)
(* only connections fail, a failure begins one attempt, and the stream     *)
(* that is being connected is the client's and no other, unless connect    *)
(* took the place of a stream (MqttClient.cpp, connect, handle_error).     *)
THEOREM AttemptsOneByOne == ASSUME OnlyConnectionsFail PROVE Spec => []OneAttempt
<1>1. replaced \/ AttemptInv => OneAttempt
  BY ConnectingIsCurrent DEF OneAttempt
<1> QED
  BY <1>1, AttemptAlways, PTL

(* Then, as long as connect replaced none, the client does not fall        *)
(* silent: until an update takes over, the loop or the resolver will call  *)
(* it for the stream that it has (handle_error,                            *)
(* async_read_control_packet).                                             *)
THEOREM AlwaysAttended == ASSUME OnlyConnectionsFail PROVE Spec => []NeverStuck
<1>1. replaced \/ AttemptInv => NeverStuck
  BY SomethingIsDue DEF NeverStuck
<1> QED
  BY <1>1, AttemptAlways, PTL

(* Then, as long as connect replaced none, send_connect, send_subscribe    *)
(* and async_read_control_packet find the client's stream, although        *)
(* disconnect and handle_error drop it while callbacks are on their way.   *)
THEOREM StreamIsThere == ASSUME OnlyConnectionsFail PROVE Spec => []NeverUsesNullSock
<1>1. replaced \/ AttemptInv => NeverUsesNullSock
  BY DEF AttemptInv, Parts, NeverUsesNullSock
<1> QED
  BY <1>1, AttemptAlways, PTL

(* Then a stream has its descriptor to itself over TLS, too: no stream is  *)
(* given a number that the destructor of another will close once more      *)
(* (TLSStream.cpp, ~TLSStream), unless connect left a stream in its        *)
(* handshake beside the next one.                                          *)
THEOREM AttemptsOwnTheirDescriptors == ASSUME OnlyConnectionsFail PROVE Spec => [](~replaced => OwnsItsDescriptor)
<1>1. replaced \/ AttemptInv => (~replaced => OwnsItsDescriptor)
  BY DEF AttemptInv, Parts, SocketsInv, OwnSocket, OwnsItsDescriptor
<1> QED
  BY <1>1, AttemptAlways, PTL

-----------------------------------------------------------------------------
(* Completions.  Over TCP, when no write has to wait for its socket, what  *)
(* the loop watches for writing is a stream that connects, under the       *)
(* number of its socket.  So no answer for another stream, late or not,    *)
(* takes the registration away, no close cancels it, and its callback is   *)
(* called.  This holds however many streams connect at once.               *)

(* What is watched for a stream that connects, in the list itself.         *)
Listed(c) == \E e \in Range(poll_list) : Connects(e) /\ e.conn = c

(* What is watched is a read, or a stream that connects.                   *)
Matches(e) ==
  /\ e.cb \in {"connect", "read"}
  /\ e.cb = "connect" <=> e.dir = "write"
  /\ e.cb = "connect" => e.fd # NoFd /\ sock[e.conn] = e.fd
EntriesInv == \A e \in Watched : Matches(e)

(* What a pass has still to answer in its copy is still in the list. *)
CopyInv == \A n \in todo : copy[n].cb = "connect" => \E e \in Range(poll_list) : SameKey(e, copy[n])

(* Only a stream whose connecting is over is closed. *)
Settled(c) == c \in Conn /\ c <= made /\ ~Pending(c)
SettledInv ==
  /\ \A n \in DOMAIN funcs : funcs[n].f = "close" => Settled(funcs[n].conn)
  /\ Running("socket_close") => Settled(calls[1].conn)

WatchInv == RegInv /\ SessionInv /\ EntriesInv /\ CopyInv
CompletionInv == WatchInv /\ QueuesInv /\ SettledInv /\ ~Running("on_handshake")

(* The list says which streams wait for their sockets. *)
LEMMA ListedIs ==
  ASSUME WatchInv, NEW c \in Conn
  PROVE  Awaited(c) <=> Listed(c)
<1>1. Listed(c) => Awaited(c)
  BY DEF Listed, Awaited, Watched
<1>2. ASSUME Awaited(c) PROVE Listed(c)
  <2>1. PICK e \in Watched : Connects(e) /\ e.conn = c
    BY <1>2 DEF Awaited
  <2>2. Matches(e) /\ e.cb = "connect" /\ e.dir = "write" /\ e.fd # NoFd /\ sock[c] = e.fd
    BY <2>1 DEF WatchInv, EntriesInv, Matches, Connects
  <2>3. CASE e \in Range(poll_list)
    BY <2>1, <2>3 DEF Listed
  <2>4. CASE e \notin Range(poll_list)
    <3>1. PICK n \in todo : e = copy[n]
      BY <2>4 DEF Watched
    <3>2. PICK x \in Range(poll_list) : SameKey(x, e)
      BY <2>2, <3>1 DEF WatchInv, CopyInv
    <3>3. x \in Watched /\ x.dir = "write" /\ x.fd = e.fd
      BY <2>2, <3>2 DEF SameKey, Watched
    <3>4. x.cb = "connect" /\ sock[x.conn] = sock[c] /\ x.conn \in Conn
      BY <2>2, <3>3, SessionTypes DEF WatchInv, SessionInv, EntriesInv, Matches
    <3>5. x.conn = c
      BY <2>2, <3>4 DEF WatchInv, RegInv, OwnInv, OwnsItsDescriptor
    <3>6. QED
      BY <3>2, <3>4, <3>5 DEF Listed, Connects
  <2>5. QED
    BY <2>3, <2>4
<1>3. QED
  BY <1>1, <1>2

LEMMA ListedNext == ASSUME NEW c \in Conn PROVE WatchInv' => (Awaited(c)' <=> Listed(c)')
<1>1. WatchInv => (Awaited(c) <=> Listed(c))
  BY ListedIs
<1>2. QED
  BY <1>1, PTL

-----------------------------------------------------------------------------
(* What a step means for the connections: nothing, one more is asked for,  *)
(* one is completed, or its callback returns.                              *)

SamePending == \A c \in Conn : Pending(c)' <=> Pending(c)
Nothing == made' = made /\ Told' = Told /\ SamePending
Asks ==
  /\ made < MaxConn /\ made' = made + 1 /\ Told = NoConn /\ Told' = NoConn
  /\ \A c \in Conn : Pending(c)' <=> Pending(c) \/ c = made + 1
Tells(d) ==
  /\ made' = made /\ Told = NoConn /\ Told' = d /\ Pending(d)
  /\ \A c \in Conn : Pending(c)' <=> Pending(c) /\ c # d
Returns == made' = made /\ Told # NoConn /\ Told' = NoConn /\ SamePending
Effect == Nothing \/ Asks \/ Returns \/ \E d \in Conn : Tells(d)

LEMMA UnderwayIs ==
  ASSUME NEW c \in Conn
  PROVE  Underway(c) <=> Pending(c)
<1>1. (\E f \in Range(funcs) : f.f = "resolved" /\ f.conn = c) <=> Found(c)
  BY DEF Found, Range
<1>2. ((\E e \in Range(poll_list) : e.cb \in {"connect", "handshake"} /\ e.conn = c)
       \/ \E n \in todo : copy[n].cb \in {"connect", "handshake"} /\ copy[n].conn = c) <=> Awaited(c)
  BY DEF Awaited, Watched, Connects
<1>3. (\E name \in {"on_resolved", "socket_on_connected", "on_handshake"} : RunningFor(c, name)) <=> Begun(c)
  BY DEF RunningFor, Running, Begun, ConnectCall
<1>4. QED
  BY <1>1, <1>2, <1>3 DEF Underway, Connecting, Pending, Asked

LEMMA StagesAre ==
  Stages = [c \in Conn |-> IF c > made THEN "unmade" ELSE IF Pending(c) THEN "connecting" ELSE "completed"]
BY UnderwayIs DEF Stages

LEMMA StagesNext ==
  Stages' = [c \in Conn |-> IF c > made' THEN "unmade" ELSE IF Pending(c)' THEN "connecting" ELSE "completed"]
<1>1. Stages' = [c \in Conn |-> IF c > made' THEN "unmade" ELSE IF Underway(c)' THEN "connecting" ELSE "completed"]
  BY DEF Stages
<1>2. ASSUME NEW c \in Conn PROVE Underway(c)' <=> Pending(c)'
  <2>1. Underway(c) <=> Pending(c)
    BY UnderwayIs
  <2>2. QED
    BY <2>1, PTL
<1>3. QED
  BY <1>1, <1>2

(* Each of these is a step of Completion. *)
Step == [Streams!Next]_<<Stages, Told>>

LEMMA EffectIsStep ==
  ASSUME SessionInv, Effect
  PROVE  Step
<1>1. /\ made \in Nat /\ Conn \subseteq Nat \ {0} /\ MaxConn \in Nat
      /\ \A c \in Conn : Pending(c) => c <= made
  BY SessionTypes, StreamAssumption DEF SessionInv, Untouched
<1>2. /\ DOMAIN Stages = Conn /\ Stages = [c \in Conn |-> Stages[c]] /\ Stages' = [c \in Conn |-> Stages'[c]]
      /\ \A c \in Conn : Stages[c] = IF c > made THEN "unmade" ELSE IF Pending(c) THEN "connecting" ELSE "completed"
      /\ \A c \in Conn :
           Stages'[c] = IF c > made' THEN "unmade" ELSE IF Pending(c)' THEN "connecting" ELSE "completed"
  BY StagesAre, StagesNext
<1>3. CASE Nothing \/ Returns
  <2>1. Stages' = Stages
    BY <1>2, <1>3 DEF Nothing, Returns, SamePending
  <2>2. QED
    BY <1>3, <2>1 DEF Nothing, Returns, Step, Streams!Next, Streams!Return
<1>4. CASE Asks
  <2>1. made + 1 \in Conn /\ Stages[made + 1] = "unmade"
    <3>1. made + 1 \in Conn /\ made + 1 > made
      BY <1>1, <1>4 DEF Asks, Conn
    <3>2. QED
      BY <1>2, <3>1
  <2>2. ASSUME NEW c \in Conn
        PROVE  Stages'[c] = IF c = made + 1 THEN "connecting" ELSE Stages[c]
    <3>1. c \in Nat /\ (c > made' <=> c > made /\ c # made + 1)
      BY <1>1, <1>4 DEF Asks
    <3>2. Pending(c)' <=> Pending(c) \/ c = made + 1
      BY <1>4 DEF Asks
    <3>3. QED
      BY <1>2, <3>1, <3>2
  <2>3. Stages' = [Stages EXCEPT ![made + 1] = "connecting"]
    BY <1>2, <2>2
  <2>4. Streams!Connect(made + 1)
    BY <1>4, <2>1, <2>3 DEF Asks, Streams!Connect
  <2>5. QED
    BY <2>1, <2>4 DEF Step, Streams!Next
<1>5. ASSUME NEW d \in Conn, Tells(d)
      PROVE  Step
  <2>1. ~(d > made) /\ Stages[d] = "connecting"
    <3>1. Pending(d) /\ d <= made /\ d \in Nat
      BY <1>1, <1>5 DEF Tells
    <3>2. ~(d > made)
      BY <1>1, <3>1
    <3>3. QED
      BY <1>2, <3>1, <3>2
  <2>2. ASSUME NEW c \in Conn
        PROVE  Stages'[c] = IF c = d THEN "completed" ELSE Stages[c]
    BY <1>2, <1>5, <2>1 DEF Tells
  <2>3. Stages' = [Stages EXCEPT ![d] = "completed"]
    BY <1>2, <2>2
  <2>4. Streams!Complete(d)
    BY <1>5, <2>1, <2>3 DEF Tells, Streams!Complete
  <2>5. QED
    BY <2>4 DEF Step, Streams!Next
<1>6. QED
  BY <1>3, <1>4, <1>5 DEF Effect

(* None begins to connect again. *)
LEMMA SettledStays ==
  ASSUME SessionInv, Effect, NEW c, Settled(c)
  PROVE  Settled(c)'
<1>1. made \in Nat /\ Conn \subseteq Nat /\ c \in Conn /\ c <= made /\ ~Pending(c)
  BY SessionTypes DEF SessionInv, Settled
<1>2. c <= made' /\ (Asks => c # made + 1)
  BY <1>1 DEF Effect, Nothing, Asks, Returns, Tells
<1>3. ~Pending(c)'
  BY <1>1, <1>2 DEF Effect, Nothing, Asks, Returns, Tells, SamePending
<1>4. QED
  BY <1>1, <1>2, <1>3 DEF Settled

LEMMA SettledKept ==
  ASSUME SessionInv, SettledInv, Effect,
         \A n \in DOMAIN funcs' : funcs'[n].f = "close" =>
           Settled(funcs'[n].conn) \/ \E m \in DOMAIN funcs : funcs[m] = funcs'[n],
         Running("socket_close")' => Settled(calls'[1].conn)
  PROVE  SettledInv'
<1>1. ASSUME NEW n \in DOMAIN funcs', funcs'[n].f = "close"
      PROVE  (Settled(funcs[n].conn))'
  <2>1. Settled(funcs'[n].conn)
    BY <1>1 DEF SettledInv
  <2>2. PICK c : c = funcs'[n].conn
    OBVIOUS
  <2>3. Settled(c)'
    BY <2>1, <2>2, SettledStays
  <2>4. QED
    BY <2>2, <2>3
<1>2. Running("socket_close")' => (Settled(calls[1].conn))'
  <2>1. PICK c : c = calls'[1].conn
    OBVIOUS
  <2>2. Settled(c) => Settled(c)'
    BY SettledStays
  <2>3. QED
    BY <2>1, <2>2
<1>3. QED
  BY <1>1, <1>2 DEF SettledInv

-----------------------------------------------------------------------------
(* Lists.                                                                  *)

(* What is registered is in the list, with all that has another key. *)
LEMMA NotifyKeeps ==
  ASSUME NEW list \in Seq(Entry), NEW fd \in Fd \union {NoFd},
         NEW dir \in Dir, NEW cb \in Purpose, NEW c \in Conn
  PROVE  /\ \A e \in Range(list) : ~(e.fd = fd /\ e.dir = dir) => e \in Range(Notify(list, fd, dir, cb, c))
         /\ \E e \in Range(Notify(list, fd, dir, cb, c)) : e.fd = fd /\ e.dir = dir /\ e.cb = cb /\ e.conn = c
<1> DEFINE fresh == [fd |-> fd, dir |-> dir, cb |-> cb, conn |-> c, cancelled |-> FALSE]
           put(n) == IF list[n].fd = fd /\ list[n].dir = dir
                     THEN [list[n] EXCEPT !.cb = cb, !.conn = c] ELSE list[n]
<1>1. \A n \in DOMAIN list : list[n] \in Entry
  OBVIOUS
<1>2. CASE Has(list, fd, dir)
  <2>1. Notify(list, fd, dir, cb, c) = [n \in DOMAIN list |-> put(n)]
    BY <1>2 DEF Notify
  <2>2. ASSUME NEW n \in DOMAIN list, list[n].fd = fd, list[n].dir = dir
        PROVE  put(n).fd = fd /\ put(n).dir = dir /\ put(n).cb = cb /\ put(n).conn = c
    BY <1>1, <2>2 DEF Entry
  <2>3. \A n \in DOMAIN list : ~(list[n].fd = fd /\ list[n].dir = dir) => put(n) = list[n]
    OBVIOUS
  <2> HIDE DEF put
  <2>4. PICK k \in DOMAIN list : list[k].fd = fd /\ list[k].dir = dir
    BY <1>2 DEF Has, Range
  <2>5. QED
    BY <2>1, <2>2, <2>3, <2>4 DEF Range
<1>3. CASE ~Has(list, fd, dir)
  <2>1. PICK e \in Entry : e = fresh
    BY DEF Entry
  <2>2. e.fd = fd /\ e.dir = dir /\ e.cb = cb /\ e.conn = c
    BY <2>1
  <2>3. Notify(list, fd, dir, cb, c) = Append(list, e)
    BY <1>3, <2>1 DEF Notify
  <2>4. /\ DOMAIN Append(list, e) = 1..(Len(list) + 1) /\ Append(list, e)[Len(list) + 1] = e
        /\ \A n \in 1..Len(list) : Append(list, e)[n] = list[n]
        /\ Len(list) \in Nat /\ DOMAIN list = 1..Len(list)
    BY AppendedIs
  <2> HIDE DEF fresh
  <2>5. Len(list) + 1 \in 1..(Len(list) + 1) /\ \A n \in 1..Len(list) : n \in 1..(Len(list) + 1)
    BY <2>4
  <2>6. QED
    BY <2>2, <2>3, <2>4, <2>5 DEF Range
<1>4. QED
  BY <1>2, <1>3

(* All that is in the list stays in it, whether cancelled or not. *)
LEMMA CancelKeeps ==
  ASSUME NEW list \in Seq(Entry), NEW fd
  PROVE  \A old \in Range(list) : \E e \in Range(Cancel(list, fd)) :
           e.fd = old.fd /\ e.dir = old.dir /\ e.cb = old.cb /\ e.conn = old.conn
<1> DEFINE put(n) == IF list[n].fd = fd THEN [list[n] EXCEPT !.cancelled = TRUE] ELSE list[n]
<1>1. Cancel(list, fd) = [n \in DOMAIN list |-> put(n)]
  BY DEF Cancel
<1>2. ASSUME NEW n \in DOMAIN list
      PROVE  /\ put(n).fd = list[n].fd /\ put(n).dir = list[n].dir
             /\ put(n).cb = list[n].cb /\ put(n).conn = list[n].conn
  <2>1. list[n] \in Entry
    OBVIOUS
  <2>2. QED
    BY <2>1 DEF Entry
<1> HIDE DEF put
<1>3. QED
  BY <1>1, <1>2 DEF Range

(* Steps that leave the lists and the sockets alone. *)
LEMMA ListsKept ==
  ASSUME EntriesInv, CopyInv, UNCHANGED <<passVars, poll_list, sock>>
  PROVE  EntriesInv' /\ CopyInv' /\ \A c \in Conn : Listed(c)' <=> Listed(c)
<1>1. Watched' = Watched
  BY WatchedSame
<1>2. QED
  BY <1>1 DEF passVars, EntriesInv, Matches, CopyInv, SameKey, Listed

(* What connects has a socket, so that the next number is not its.         *)
LEMMA ConnectsOwn ==
  ASSUME WatchInv, NEW e \in Watched, e.cb = "connect"
  PROVE  e.conn \in Conn /\ e.fd \in Fd /\ sock[e.conn] = e.fd /\ owner[e.fd] = e.conn /\ e.dir = "write"
<1>1. e.conn \in Conn /\ e.fd # NoFd /\ sock[e.conn] = e.fd /\ e.dir = "write"
  BY SessionTypes DEF WatchInv, SessionInv, EntriesInv, Matches
<1>2. sock[e.conn] \in Fd \union {NoFd} /\ owner[sock[e.conn]] = e.conn
  BY <1>1 DEF WatchInv, RegInv, OwnInv, FdTypes, OwnsItsDescriptor
<1>3. QED
  BY <1>1, <1>2

-----------------------------------------------------------------------------
(* The calls.                                                              *)

(* What runs next neither connects, nor tells, nor closes. *)
Plain(x) == x.call \notin ConnectCall \union {"connect_cb", "socket_close"}
CallsPlain == Calling(<<>>) \/ \E x : Plain(x) /\ (Calling(<<x>>) \/ \E y : Calling(<<x, y>>))

LEMMA NextIsPlain ==
  ASSUME TInv, calls # <<>>, CallsPlain
  PROVE  calls' # <<>> => Plain(calls'[1])
<1>1. CASE Calling(<<>>)
  BY <1>1, RunsBehind DEF Plain, ConnectCall
<1>2. CASE \E x : Plain(x) /\ (Calling(<<x>>) \/ \E y : Calling(<<x, y>>))
  BY <1>2, RunsFirst
<1>3. QED
  BY <1>1, <1>2 DEF CallsPlain

(* Only functions that carry no answer of the resolver come, and close     *)
(* only what is connected.                                                 *)
FuncsPlain ==
  \/ funcs' = funcs
  \/ \E f \in Func : f.f # "resolved" /\ (f.f = "close" => Settled(f.conn)) /\ funcs' = Append(funcs, f)

LEMMA FuncsStay ==
  ASSUME TInv, FuncsPlain
  PROVE  /\ \A c \in Conn : Found(c)' <=> Found(c)
         /\ \A n \in DOMAIN funcs' : funcs'[n].f = "close" =>
              Settled(funcs'[n].conn) \/ \E m \in DOMAIN funcs : funcs[m] = funcs'[n]
<1>1. CASE funcs' = funcs
  BY <1>1 DEF Found
<1>2. ASSUME NEW f \in Func, f.f # "resolved", f.f = "close" => Settled(f.conn), funcs' = Append(funcs, f)
      PROVE  /\ \A c \in Conn : Found(c)' <=> Found(c)
             /\ \A n \in DOMAIN funcs' : funcs'[n].f = "close" =>
                  Settled(funcs'[n].conn) \/ \E m \in DOMAIN funcs : funcs[m] = funcs'[n]
  <2>1. /\ \A n \in DOMAIN funcs : n \in DOMAIN funcs' /\ funcs'[n] = funcs[n]
        /\ \A n \in DOMAIN funcs' : n \in DOMAIN funcs \/ funcs'[n] = f
    BY <1>2, FuncsOne
  <2>2. QED
    BY <1>2, <2>1 DEF Found
<1>3. QED
  BY <1>1, <1>2 DEF FuncsPlain

LEMMA PlainIs ==
  ASSUME calls # <<>> => Plain(calls[1])
  PROVE  /\ Told = NoConn /\ ~Running("socket_close") /\ ~Running("on_handshake")
         /\ \A c \in Conn : ~Begun(c)
BY DEF Told, Running, Begun, Plain, ConnectCall

LEMMA PlainNext ==
  ASSUME calls' # <<>> => Plain(calls'[1])
  PROVE  /\ Told' = NoConn /\ ~Running("socket_close")' /\ ~Running("on_handshake")'
         /\ \A c \in Conn : ~Begun(c)'
BY DEF Told, Running, Begun, Plain, ConnectCall

(* A call that has nothing to do with connecting, or connect's callback. *)
LEMMA CallCompletes ==
  ASSUME CompletionInv, RegInv', SessionInv', EntriesInv', CopyInv', QueuesInv',
         calls # <<>>, calls[1].call \notin ConnectCall, CallsPlain, FuncsPlain, UNCHANGED <<resolving, made>>,
         \A c \in Conn : Listed(c)' <=> Listed(c)
  PROVE  CompletionInv' /\ Effect
<1>1. WatchInv /\ WatchInv' /\ TInv /\ SessionInv /\ SettledInv
  BY DEF CompletionInv, WatchInv, RegInv
<1>2. calls' # <<>> => Plain(calls'[1])
  BY <1>1, NextIsPlain
<1>3. Told' = NoConn /\ ~Running("socket_close")' /\ ~Running("on_handshake")' /\ \A c \in Conn : ~Begun(c)'
  BY <1>2, PlainNext
<1>4. /\ \A c \in Conn : Found(c)' <=> Found(c)
      /\ \A n \in DOMAIN funcs' : funcs'[n].f = "close" =>
           Settled(funcs'[n].conn) \/ \E m \in DOMAIN funcs : funcs[m] = funcs'[n]
  BY <1>1, FuncsStay
<1>5. ASSUME NEW c \in Conn PROVE Pending(c)' <=> Pending(c)
  <2>1. (Awaited(c) <=> Listed(c)) /\ (Awaited(c)' <=> Listed(c)')
    BY <1>1, ListedIs, ListedNext
  <2>2. ~Begun(c) /\ ~Begun(c)' /\ (Asked(c)' <=> Asked(c))
    BY <1>3 DEF Begun, Asked
  <2>3. QED
    BY <1>4, <2>1, <2>2 DEF Pending
<1>6. Effect
  BY <1>3, <1>5 DEF Effect, Nothing, Returns, SamePending
<1>7. SettledInv'
  BY <1>1, <1>3, <1>4, <1>6, SettledKept
<1>8. QED
  BY <1>1, <1>3, <1>6, <1>7 DEF CompletionInv

(* The call leaves the lists alone, too. *)
LEMMA CallBeside ==
  ASSUME CompletionInv, RegInv', SessionInv', UNCHANGED <<passVars, poll_list, sock, resolving, made, write_op_queue>>,
         calls # <<>>, calls[1].call \notin ConnectCall \union WriteCall, FuncsPlain, CallsPlain,
         \E s : Quiet(s) /\ Calling(s)
  PROVE  CompletionInv' /\ Effect
<1>1. TInv /\ QueuesInv /\ EntriesInv /\ CopyInv
  BY DEF CompletionInv, WatchInv, RegInv
<1>2. EntriesInv' /\ CopyInv' /\ \A c \in Conn : Listed(c)' <=> Listed(c)
  BY <1>1, ListsKept
<1>3. QueuesInv'
  BY <1>1, QueuesKept
<1>4. QED
  BY <1>2, <1>3, CallCompletes

(* The client makes another stream. *)
LEMMA StreamMade ==
  ASSUME CompletionInv, RegInv', SessionInv', UNCHANGED <<passVars, poll_list, sock, write_op_queue>>,
         calls # <<>>, Plain(calls[1]), calls[1].call \notin WriteCall, FuncsPlain, Calling(<<>>), NewStream
  PROVE  CompletionInv' /\ Effect
<1>1. /\ WatchInv /\ TInv /\ SessionInv /\ SettledInv /\ QueuesInv /\ EntriesInv /\ CopyInv
      /\ made \in Nat /\ resolving \in Seq(Conn)
  BY SessionTypes DEF CompletionInv, WatchInv, RegInv
<1>2. EntriesInv' /\ CopyInv' /\ \A c \in Conn : Listed(c)' <=> Listed(c)
  BY <1>1, ListsKept
<1>3. QueuesInv'
  BY <1>1, QuietCalls, QueuesKept
<1>4. Told = NoConn /\ \A c \in Conn : ~Begun(c)
  BY PlainIs
<1>5. calls' # <<>> => Plain(calls'[1])
  BY <1>1, NextIsPlain DEF CallsPlain
<1>6. Told' = NoConn /\ ~Running("socket_close")' /\ ~Running("on_handshake")' /\ \A c \in Conn : ~Begun(c)'
  BY <1>5, PlainNext
<1>7. /\ \A c \in Conn : Found(c)' <=> Found(c)
      /\ \A n \in DOMAIN funcs' : funcs'[n].f = "close" =>
           Settled(funcs'[n].conn) \/ \E m \in DOMAIN funcs : funcs[m] = funcs'[n]
  BY <1>1, FuncsStay
<1>8. made < MaxConn /\ made' = made + 1 /\ made + 1 \in Conn
  BY <1>1, StreamAssumption DEF NewStream, Conn
<1>9. \A c \in Conn : Asked(c)' <=> Asked(c) \/ c = made + 1
  <2>1. resolving' = Append(resolving, made + 1)
    BY DEF NewStream
  <2>2. /\ DOMAIN resolving' = 1..(Len(resolving) + 1) /\ resolving'[Len(resolving) + 1] = made + 1
        /\ \A n \in 1..Len(resolving) : resolving'[n] = resolving[n]
        /\ Len(resolving) \in Nat /\ DOMAIN resolving = 1..Len(resolving)
    <3>1. /\ DOMAIN Append(resolving, made + 1) = 1..(Len(resolving) + 1)
          /\ Append(resolving, made + 1)[Len(resolving) + 1] = made + 1
          /\ \A n \in 1..Len(resolving) : Append(resolving, made + 1)[n] = resolving[n]
          /\ Len(resolving) \in Nat /\ DOMAIN resolving = 1..Len(resolving)
      BY <1>1, <1>8, AppendedIs
    <3>2. QED
      BY <2>1, <3>1, Zenon
  <2>3. /\ Len(resolving) + 1 \in DOMAIN resolving'
        /\ \A n \in DOMAIN resolving : n \in DOMAIN resolving' /\ resolving'[n] = resolving[n]
        /\ \A n \in DOMAIN resolving' : n \in DOMAIN resolving \/ n = Len(resolving) + 1
    BY <2>2
  <2>4. QED
    BY <2>2, <2>3 DEF Asked, Range
<1>10. ASSUME NEW c \in Conn PROVE Pending(c)' <=> Pending(c) \/ c = made + 1
  <2>1. WatchInv'
    BY <1>2 DEF WatchInv
  <2>2. (Awaited(c) <=> Listed(c)) /\ (Awaited(c)' <=> Listed(c)')
    BY <1>1, <2>1, ListedIs, ListedNext
  <2>3. QED
    BY <1>2, <1>4, <1>6, <1>7, <1>9, <2>2 DEF Pending
<1>11. Effect
  BY <1>4, <1>6, <1>8, <1>10 DEF Effect, Asks
<1>12. SettledInv'
  BY <1>1, <1>6, <1>7, <1>11, SettledKept
<1>13. QED
  BY <1>2, <1>3, <1>6, <1>11, <1>12 DEF CompletionInv, WatchInv

-----------------------------------------------------------------------------
(* Steps of the client.                                                    *)

(* What a client's call is known to be. *)
LEMMA ClientCallIs ==
  ASSUME CompletionInv
  PROVE  TInv /\ (calls # <<>> => calls[1] \in Call)
<1>1. TInv
  BY DEF CompletionInv, WatchInv, RegInv
<1>2. QED
  BY <1>1, StackPositions

LEMMA ConnectDoneCompletes ==
  ASSUME CompletionInv, RegInv', SessionInv', ConnectDone
  PROVE  CompletionInv' /\ Effect
<1>1. /\ calls # <<>> /\ calls[1].call = "connect_cb"
      /\ UNCHANGED <<passVars, poll_list, sock, resolving, made, write_op_queue, funcs>>
  BY DEF ConnectDone, Running, streamVars
<1>2. calls[1] \in Call /\ calls[1].ec \in Code
  BY <1>1, ClientCallIs, CallFields
<1>3. PICK x \in Call : x.call \in {"send", "handle_error"} /\ Calling(<<x>>)
  <2>1. [call |-> "send", op |-> "connect"] \in Call /\ Fail(calls[1].ec) \in Call
    BY <1>2, CallForms DEF Op
  <2>2. Fail(calls[1].ec).call = "handle_error"
    BY DEF Fail
  <2>3. QED
    BY <2>1, <2>2 DEF ConnectDone
<1>4. Quiet(<<x>>) /\ Plain(x)
  BY <1>3, QuietCalls DEF Plain, ConnectCall, WriteCall
<1>5. CallsPlain /\ FuncsPlain /\ \E s : Quiet(s) /\ Calling(s)
  BY <1>1, <1>3, <1>4 DEF CallsPlain, FuncsPlain
<1>6. QED
  BY <1>1, <1>5, CallBeside DEF ConnectCall, WriteCall

LEMMA SendCompletes ==
  ASSUME CompletionInv, RegInv', SessionInv', Send
  PROVE  CompletionInv' /\ Effect
<1>1. /\ calls # <<>> /\ calls[1].call = "send" /\ calls[1] \in Call
      /\ UNCHANGED <<passVars, poll_list, sock, resolving, made, write_op_queue>>
      /\ current \in Conn \union {NoConn}
  BY ClientCallIs DEF Send, Running, streamVars, TInv, ClientTypes
<1>2. calls[1].op \in Op
  BY <1>1, CallFields
<1>3. PICK x \in Call : x = WriteCb(calls[1].op, "ConnectionClosed")
  <2>1. WriteCb(calls[1].op, "ConnectionClosed") \in Call
    BY <1>2 DEF WriteCb, Call, Code
  <2>2. QED
    BY <2>1
<1>4. x.call = "write_cb" /\ (Calling(<<x>>) \/ Calling(<<>>))
  BY <1>3 DEF Send, WriteCb
<1>5. Quiet(<<x>>) /\ Quiet(<<>>) /\ Plain(x)
  BY <1>4, QuietCalls DEF Plain, ConnectCall, WriteCall
<1>6. FuncsPlain
  <2>1. CASE funcs' = funcs
    BY <2>1 DEF FuncsPlain
  <2>2. CASE funcs' # funcs
    <3>1. current # NoConn /\ funcs' = Append(funcs, Write(current, calls[1].op))
      BY <2>2 DEF Send
    <3>2. PICK f \in Func : f = Write(current, calls[1].op)
      BY <1>1, <1>2, <3>1, FuncMembers
    <3>3. f.f = "write"
      BY <3>2 DEF Write
    <3>4. QED
      BY <3>1, <3>2, <3>3 DEF FuncsPlain
  <2>3. QED
    BY <2>1, <2>2
<1>7. CallsPlain /\ \E s : Quiet(s) /\ Calling(s)
  BY <1>4, <1>5 DEF CallsPlain
<1>8. QED
  BY <1>1, <1>6, <1>7, CallBeside DEF ConnectCall, WriteCall

LEMMA WriteDoneCompletes ==
  ASSUME CompletionInv, RegInv', SessionInv', WriteDone
  PROVE  CompletionInv' /\ Effect
<1>1. /\ calls # <<>> /\ calls[1].call = "write_cb" /\ calls[1] \in Call
      /\ UNCHANGED <<passVars, poll_list, sock, resolving, made, write_op_queue, funcs>>
  BY ClientCallIs DEF WriteDone, Running, streamVars
<1>2. calls[1].ec \in Code /\ "Timeout" \in Code
  BY <1>1, CallFields DEF Code
<1>3. PICK x \in Call : x = Fail(calls[1].ec)
  BY <1>2, CallForms
<1>4. PICK y \in Call : y = Fail("Timeout")
  BY <1>2, CallForms
<1>5. PICK z \in Call : z = [call |-> "read_packet"]
  BY CallForms
<1>6. Calling(<<>>) \/ Calling(<<x>>) \/ Calling(<<y>>) \/ Calling(<<x, y>>) \/ Calling(<<z>>)
  BY <1>3, <1>4, <1>5, WriteDoneCalls
<1>7. x.call = "handle_error" /\ y.call = "handle_error" /\ z.call = "read_packet"
  BY <1>3, <1>4, <1>5 DEF Fail
<1>8. /\ Quiet(<<>>) /\ Quiet(<<x>>) /\ Quiet(<<y>>) /\ Quiet(<<x, y>>) /\ Quiet(<<z>>)
      /\ Plain(x) /\ Plain(y) /\ Plain(z)
  BY <1>7, QuietCalls DEF Plain, ConnectCall, WriteCall
<1>9. CallsPlain /\ FuncsPlain /\ \E s : Quiet(s) /\ Calling(s)
  BY <1>1, <1>6, <1>8 DEF CallsPlain, FuncsPlain
<1>10. QED
  BY <1>1, <1>9, CallBeside DEF ConnectCall, WriteCall

LEMMA ReadPacketCompletes ==
  ASSUME CompletionInv, RegInv', SessionInv', ReadPacket
  PROVE  CompletionInv' /\ Effect
<1>1. /\ calls # <<>> /\ calls[1].call = "read_packet" /\ current \in Conn \union {NoConn}
      /\ UNCHANGED <<passVars, poll_list, sock, resolving, made, write_op_queue, funcs>>
  BY ClientCallIs DEF ReadPacket, Running, streamVars, TInv, ClientTypes
<1>2. CASE current = NoConn
  <2>1. Calling(<<>>)
    BY <1>2 DEF ReadPacket
  <2>2. CallsPlain /\ FuncsPlain /\ \E s : Quiet(s) /\ Calling(s)
    BY <1>1, <2>1, QuietCalls DEF CallsPlain, FuncsPlain
  <2>3. QED
    BY <1>1, <2>2, CallBeside DEF ConnectCall, WriteCall
<1>3. CASE current # NoConn
  <2>1. PICK x \in Call : x = [call |-> "do_read", conn |-> current]
    BY <1>1, <1>3, CallForms
  <2>2. x.call = "do_read" /\ Calling(<<x>>)
    BY <1>3, <2>1 DEF ReadPacket
  <2>3. Quiet(<<x>>) /\ Plain(x)
    BY <2>2, QuietCalls DEF Plain, ConnectCall, WriteCall
  <2>4. CallsPlain /\ FuncsPlain /\ \E s : Quiet(s) /\ Calling(s)
    BY <1>1, <2>2, <2>3 DEF CallsPlain, FuncsPlain
  <2>5. QED
    BY <1>1, <2>4, CallBeside DEF ConnectCall, WriteCall
<1>4. QED
  BY <1>2, <1>3

LEMMA ReadFailedCompletes ==
  ASSUME CompletionInv, RegInv', SessionInv', ReadFailed
  PROVE  CompletionInv' /\ Effect
<1>1. /\ calls # <<>> /\ calls[1].call = "read_cb" /\ calls[1] \in Call
      /\ UNCHANGED <<passVars, poll_list, sock, resolving, made, write_op_queue, funcs>>
  BY ClientCallIs DEF ReadFailed, Running, streamVars
<1>2. PICK x \in Call : x = Fail(calls[1].ec)
  BY <1>1, CallFields, CallForms
<1>3. x.call = "handle_error" /\ Calling(<<x>>)
  BY <1>2 DEF ReadFailed, Fail
<1>4. Quiet(<<x>>) /\ Plain(x)
  BY <1>3, QuietCalls DEF Plain, ConnectCall, WriteCall
<1>5. CallsPlain /\ FuncsPlain /\ \E s : Quiet(s) /\ Calling(s)
  BY <1>1, <1>3, <1>4 DEF CallsPlain, FuncsPlain
<1>6. QED
  BY <1>1, <1>5, CallBeside DEF ConnectCall, WriteCall

(* The stream that is dropped is closed if it is up, and then it does not  *)
(* connect any more.                                                       *)
LEMMA DropsSettled ==
  ASSUME SessionInv, DropStream
  PROVE  FuncsPlain
<1>1. CASE funcs' = funcs
  BY <1>1 DEF FuncsPlain
<1>2. CASE funcs' # funcs
  <2>1. current # NoConn /\ up[current] /\ funcs' = Append(funcs, [f |-> "close", conn |-> current])
    BY <1>2 DEF DropStream, Closing
  <2>2. current \in Conn /\ current <= made
    BY <2>1, SessionTypes DEF SessionInv, Untouched
  <2>3. Settled(current)
    BY <2>1, <2>2 DEF SessionInv, Untouched, Unread, Settled
  <2>4. PICK f \in Func : f = [f |-> "close", conn |-> current]
    BY <2>2, FuncMembers
  <2>5. f.f = "close" /\ f.conn = current
    BY <2>4
  <2>6. QED
    BY <2>1, <2>3, <2>4, <2>5 DEF FuncsPlain
<1>3. QED
  BY <1>1, <1>2

LEMMA HandleErrorCompletes ==
  ASSUME CompletionInv, RegInv', SessionInv', HandleError
  PROVE  CompletionInv' /\ Effect
<1>1. /\ calls # <<>> /\ calls[1].call = "handle_error" /\ Calling(<<>>) /\ DropStream
      /\ UNCHANGED <<passVars, poll_list, sock, write_op_queue>>
      /\ NewStream \/ UNCHANGED <<made, resolving>>
  BY DEF HandleError, Running
<1>2. FuncsPlain
  BY <1>1, DropsSettled DEF CompletionInv, WatchInv
<1>3. Plain(calls[1]) /\ calls[1].call \notin ConnectCall \union WriteCall
  BY <1>1 DEF Plain, ConnectCall, WriteCall
<1>4. CallsPlain /\ \E s : Quiet(s) /\ Calling(s)
  BY <1>1, QuietCalls DEF CallsPlain
<1>5. QED
  BY <1>1, <1>2, <1>3, <1>4, StreamMade, CallBeside

LEMMA UpgradeCompletes ==
  ASSUME CompletionInv, RegInv', SessionInv', Upgrade
  PROVE  CompletionInv' /\ Effect
<1>1. /\ calls # <<>> /\ calls[1].call = "upgrade" /\ Calling(<<>>) /\ (DropStream \/ funcs' = funcs)
      /\ UNCHANGED <<passVars, poll_list, sock, write_op_queue, made, resolving>>
  BY DEF Upgrade, Running
<1>2. FuncsPlain
  BY <1>1, DropsSettled DEF CompletionInv, WatchInv, FuncsPlain
<1>3. CallsPlain /\ \E s : Quiet(s) /\ Calling(s)
  BY <1>1, QuietCalls DEF CallsPlain
<1>4. QED
  BY <1>1, <1>2, <1>3, CallBeside DEF ConnectCall, WriteCall

LEMMA ConnectCompletes ==
  ASSUME CompletionInv, RegInv', SessionInv', Connect
  PROVE  CompletionInv' /\ Effect
<1>1. /\ calls # <<>> /\ calls[1].call = "connect" /\ Calling(<<>>)
      /\ UNCHANGED <<passVars, poll_list, funcs, sock, write_op_queue>>
      /\ NewStream \/ UNCHANGED <<made, resolving>>
  BY DEF Connect, Running
<1>2. Plain(calls[1]) /\ calls[1].call \notin ConnectCall \union WriteCall
  BY <1>1 DEF Plain, ConnectCall, WriteCall
<1>3. FuncsPlain /\ CallsPlain /\ \E s : Quiet(s) /\ Calling(s)
  BY <1>1, QuietCalls DEF CallsPlain, FuncsPlain
<1>4. QED
  BY <1>1, <1>2, <1>3, StreamMade, CallBeside

LEMMA ReceivingCompletes ==
  ASSUME CompletionInv, RegInv', SessionInv', NEW c \in Conn, Receiving(c)
  PROVE  CompletionInv' /\ Effect
<1>1. /\ calls # <<>> /\ calls[1].call = "do_read"
      /\ UNCHANGED <<passVars, poll_list, sock, resolving, made, write_op_queue>>
  BY DEF Receiving, ConnAck, Refused, SubAck, PingResp, Command, Malformed, Receive, RunningFor, Running, streamVars
<1>2. PICK x \in Call : x = [call |-> "read_packet"]
  BY CallForms
<1>3. PICK y \in Call : y = Fail("ProtocolError")
  BY CallForms DEF Code
<1>4. PICK z \in Call : z = [call |-> "send", op |-> "subscribe"]
  BY CallForms DEF Op
<1>5. Calling(<<x>>) \/ Calling(<<y>>) \/ Calling(<<y, x>>) \/ Calling(<<z, x>>)
  <2>1. /\ <<Fail("ProtocolError")>> \o ReadNext = <<y, x>>
        /\ <<[call |-> "send", op |-> "subscribe"]>> \o ReadNext = <<z, x>>
        /\ ReadNext = <<x>> /\ <<Fail("ProtocolError")>> = <<y>>
    BY <1>2, <1>3, <1>4, Joined DEF ReadNext
  <2>2. \/ Calling(ReadNext) \/ Calling(<<Fail("ProtocolError")>>)
        \/ Calling(<<Fail("ProtocolError")>> \o ReadNext)
        \/ Calling(<<[call |-> "send", op |-> "subscribe"]>> \o ReadNext)
    BY DEF Receiving, ConnAck, Refused, SubAck, PingResp, Command, Malformed
  <2>3. QED
    BY <2>1, <2>2
<1>6. x.call = "read_packet" /\ y.call = "handle_error" /\ z.call = "send"
  BY <1>2, <1>3, <1>4 DEF Fail
<1>7. /\ Quiet(<<x>>) /\ Quiet(<<y>>) /\ Quiet(<<y, x>>) /\ Quiet(<<z, x>>)
      /\ Plain(x) /\ Plain(y) /\ Plain(z)
  BY <1>6, QuietCalls DEF Plain, ConnectCall, WriteCall
<1>8. CallsPlain /\ \E s : Quiet(s) /\ Calling(s)
  BY <1>5, <1>7 DEF CallsPlain
<1>9. FuncsPlain
  <2>1. PICK f \in Func : f = Invoked([call |-> "upgrade"])
    BY FuncMembers, CallForms
  <2>2. f.f = "call"
    BY <2>1 DEF Invoked
  <2>3. funcs' = funcs \/ funcs' = Append(funcs, f)
    BY <2>1 DEF Receiving, ConnAck, Refused, SubAck, PingResp, Command, Malformed
  <2>4. QED
    BY <2>2, <2>3 DEF FuncsPlain
<1>10. QED
  BY <1>1, <1>8, <1>9, CallBeside DEF ConnectCall, WriteCall

(* A read waits for its socket, or ends. *)
LEMMA ReadingCompletes ==
  ASSUME CompletionInv, RegInv', SessionInv', NEW c \in Conn, Reading(c)
  PROVE  CompletionInv' /\ Effect
<1>1. /\ TInv /\ WatchInv /\ calls # <<>> /\ calls[1].call = "do_read"
      /\ UNCHANGED <<passVars, sock, resolving, made, write_op_queue, funcs>>
  BY ClientCallIs DEF Reading, ReadClosed, ReadError, ReadAgain, RunningFor, Running, streamVars, CompletionInv
<1>2. CASE ReadClosed(c, Leaves(c)) \/ ReadError(c)
  <2>1. PICK x \in Call : x.call = "read_cb" /\ Calling(<<x>>)
    <3>1. ReadCb("ConnectionClosed") \in Call /\ ReadCb("ReadError") \in Call
      BY CallForms DEF Code
    <3>2. ReadCb("ConnectionClosed").call = "read_cb" /\ ReadCb("ReadError").call = "read_cb"
      BY DEF ReadCb
    <3>3. QED
      BY <1>2, <3>1, <3>2 DEF ReadClosed, ReadError
  <2>2. Quiet(<<x>>) /\ Plain(x) /\ poll_list' = poll_list
    BY <1>2, <2>1, QuietCalls DEF Plain, ConnectCall, WriteCall, ReadClosed, ReadError
  <2>3. CallsPlain /\ FuncsPlain /\ \E s : Quiet(s) /\ Calling(s)
    BY <1>1, <2>1, <2>2 DEF CallsPlain, FuncsPlain
  <2>4. QED
    BY <1>1, <2>2, <2>3, CallBeside DEF ConnectCall, WriteCall
<1>3. CASE ReadAgain(c)
  <2>1. /\ poll_list' = Notify(poll_list, sock[c], "read", "read", c) /\ Calling(<<>>)
        /\ sock[c] \in Fd \union {NoFd} /\ "read" \in Dir /\ "read" \in Purpose
        /\ poll_list \in Seq(Entry) /\ Unique(poll_list) /\ UNCHANGED <<copy, todo>>
    BY <1>1, <1>3, SessionTypes DEF ReadAgain, TInv, StreamTypes, Dir, Purpose, passVars
  <2>2. /\ \A e \in Watched' : e \in Watched \/ (e.dir = "read" /\ e.cb = "read")
        /\ \A e \in Range(poll_list) : e.dir # "read" => e \in Range(poll_list')
    BY <2>1, WatchedNotify, NotifyKeeps
  <2>3. EntriesInv'
    BY <1>1, <2>2 DEF EntriesInv, Matches, WatchInv
  <2>4. CopyInv'
    <3>1. ASSUME NEW n \in todo, copy[n].cb = "connect"
          PROVE  \E e \in Range(poll_list') : SameKey(e, copy[n])
      <4>1. PICK e \in Range(poll_list) : SameKey(e, copy[n])
        BY <1>1, <3>1 DEF WatchInv, CopyInv
      <4>2. copy[n].dir = "write"
        BY <1>1, <3>1 DEF WatchInv, EntriesInv, Matches, Watched
      <4>3. QED
        BY <2>2, <4>1, <4>2 DEF SameKey
    <3>2. QED
      BY <2>1, <3>1 DEF CopyInv, SameKey
  <2>5. ASSUME NEW d \in Conn PROVE Listed(d)' <=> Listed(d)
    <3>1. \A e \in Range(poll_list') : Connects(e) => e \in Range(poll_list)
      <4>1. \A e \in Range(poll_list') : e \in Range(poll_list) \/ e.cb = "read"
        BY <2>1, NotifyIs
      <4>2. QED
        BY <4>1 DEF Connects
    <3>2. \A e \in Range(poll_list) : Connects(e) => e.dir # "read"
      BY <1>1 DEF WatchInv, EntriesInv, Matches, Watched, Connects
    <3>3. QED
      BY <2>2, <3>1, <3>2 DEF Listed, Connects
  <2>6. QueuesInv'
    BY <1>1, <2>1, QuietCalls, QueuesKept DEF CompletionInv, WriteCall
  <2>7. QED
    BY <1>1, <2>1, <2>3, <2>4, <2>5, <2>6, CallCompletes DEF ConnectCall, CallsPlain, FuncsPlain
<1>4. QED
  BY <1>2, <1>3 DEF Reading

-----------------------------------------------------------------------------
(* Steps of the streams.                                                   *)

(* What is written is written at once. *)
LEMMA WritingCompletes ==
  ASSUME ~Secure, "again" \notin Faults, CompletionInv, RegInv', SessionInv', NEW c \in Conn, Writing(c)
  PROVE  CompletionInv' /\ Effect
<1>1. PICK result \in WriteResult(c) : DoWrite(c, result)
  BY DEF Writing, DoWrite
<1>2. /\ TInv /\ QueuesInv /\ OneWriteCall /\ calls # <<>> /\ calls[1].call = "do_write" /\ calls[1].conn = c
      /\ UNCHANGED <<passVars, sock, resolving, made, write_op_queue, funcs>>
      /\ EntriesInv /\ CopyInv
  BY <1>1, ClientCallIs DEF Writing, DoWrite, RunningFor, Running, streamVars, CompletionInv, WatchInv,
                            TInv, LInv, OneWrite
<1>3. result \in {"done", "write_error"}
  BY DEF WriteResult
<1>4. /\ calls \in Seq(Call) /\ Behind /\ 1 \in DOMAIN calls
  BY <1>2, StackPositions, SessionTypes
<1>5. write_op_queue[c] # <<>> /\ write_op_queue[c] \in Seq(Op)
  <2>1. WriteCalled(c)
    BY <1>2, <1>4 DEF WriteCalled, WriteCall
  <2>2. QED
    BY <1>2, <2>1 DEF TInv, LInv, OneWrite, StreamTypes
<1>6. PICK x \in Call : x = WriteCb(Head(write_op_queue[c]), IF result = "done" THEN "ok" ELSE "WriteError")
  <2>1. PICK op \in Op : op = Head(write_op_queue[c])
    BY <1>5, HeadTailProperties
  <2>2. PICK e \in Code : e = IF result = "done" THEN "ok" ELSE "WriteError"
    BY DEF Code
  <2>3. WriteCb(op, e) \in Call
    BY DEF WriteCb, Call
  <2>4. QED
    BY <2>1, <2>2, <2>3
<1>7. PICK y \in Call : y = [call |-> "written", conn |-> c]
  BY DEF Call
<1>8. x.call = "write_cb" /\ y.call = "written" /\ y.conn = c /\ Calling(<<x, y>>) /\ poll_list' = poll_list
  BY <1>1, <1>3, <1>6, <1>7 DEF DoWrite, WriteCb
<1>9. QueuesInv'
  <2>1. \A d \in Conn : WriteCalled(d) => d = c
    BY <1>2, <1>4 DEF OneWriteCall, WriteCalled, WriteCall
  <2>2. WriteCalled(c)'
    <3> DEFINE s == <<x, y>>
    <3>1. s \in Seq(Call) /\ Len(s) = 2 /\ s[2] = y /\ Calling(s)
          /\ \A n \in 2..Len(s) : s[n].call \in {"written", "handle_error", "read_packet"}
      BY <1>8
    <3>2. DOMAIN s = 1..2
      BY <3>1
    <3> HIDE DEF s
    <3>3. \A n \in DOMAIN s : n \in DOMAIN calls' /\ calls'[n] = s[n]
      BY <1>2, <1>4, <3>1, CallingIs
    <3>4. 2 \in DOMAIN calls' /\ calls'[2] = y
      BY <3>1, <3>2, <3>3
    <3>5. QED
      BY <1>8, <3>4 DEF WriteCalled, WriteCall
  <2>3. QED
    BY <1>2, <2>1, <2>2 DEF QueuesInv
<1>10. EntriesInv' /\ CopyInv' /\ \A d \in Conn : Listed(d)' <=> Listed(d)
  BY <1>2, <1>8, ListsKept
<1>11. CallsPlain /\ FuncsPlain
  <2>1. Plain(x)
    BY <1>8 DEF Plain, ConnectCall
  <2>2. QED
    BY <1>2, <1>8, <2>1 DEF CallsPlain, FuncsPlain
<1>12. QED
  BY <1>2, <1>9, <1>10, <1>11, CallCompletes DEF ConnectCall

(* Nothing more is to be written. *)
LEMMA WrittenCompletes ==
  ASSUME CompletionInv, RegInv', SessionInv', NEW c \in Conn, Written(c), UNCHANGED <<clientVars, made, worldVars>>
  PROVE  CompletionInv' /\ Effect
<1>1. /\ TInv /\ QueuesInv /\ OneWrite /\ OneWriteCall /\ calls # <<>> /\ calls[1].call = "written" /\ calls[1].conn = c
      /\ Calling(<<>>) /\ UNCHANGED <<passVars, sock, resolving, made, funcs>>
      /\ write_op_queue' = [write_op_queue EXCEPT ![c] = Tail(@)]
      /\ write_op_queue \in [Conn -> Seq(Op)] /\ EntriesInv /\ CopyInv
  BY ClientCallIs DEF Written, RunningFor, Running, CompletionInv, WatchInv, TInv, LInv, StreamTypes, OneWrite
<1>2. WriteCalled(c) /\ \A d \in Conn : WriteCalled(d) => d = c
  BY <1>1, StackPositions DEF WriteCalled, WriteCall, OneWriteCall
<1>3. write_op_queue[c] # <<>> /\ Len(write_op_queue[c]) = 1 /\ write_op_queue[c] \in Seq(Op)
  BY <1>1, <1>2 DEF QueuesInv, OneWrite
<1>4. Tail(write_op_queue[c]) \in Seq(Op) /\ Len(Tail(write_op_queue[c])) = 0
  BY <1>3, HeadTailProperties
<1>5. write_op_queue'[c] = <<>>
  BY <1>1, <1>4, EmptySeq
<1>6. poll_list' = poll_list
  BY <1>5 DEF Written
<1>7. QueuesInv'
  <2>1. \A d \in Conn : write_op_queue'[d] = <<>>
    BY <1>1, <1>2, <1>5 DEF QueuesInv
  <2>2. QED
    BY <2>1 DEF QueuesInv
<1>8. EntriesInv' /\ CopyInv' /\ \A d \in Conn : Listed(d)' <=> Listed(d)
  BY <1>1, <1>6, ListsKept
<1>9. QED
  BY <1>1, <1>7, <1>8, CallCompletes DEF ConnectCall, CallsPlain, FuncsPlain

(* The socket of a stream that does not connect is closed. *)
LEMMA SocketCloseCompletes ==
  ASSUME CompletionInv, RegInv', SessionInv', NEW c \in Conn, SocketClose(c), UNCHANGED <<clientVars, made, worldVars>>
  PROVE  CompletionInv' /\ Effect
<1>1. /\ TInv /\ WatchInv /\ QueuesInv /\ calls # <<>> /\ calls[1].call = "socket_close" /\ calls[1].conn = c
      /\ Calling(<<>>) /\ UNCHANGED <<passVars, copy, todo, resolving, made, funcs, write_op_queue>>
      /\ sock' = [sock EXCEPT ![c] = NoFd] /\ sock \in [Conn -> Fd \union {NoFd}]
      /\ poll_list \in Seq(Entry) /\ Unique(poll_list)
      /\ poll_list' = Cancel(poll_list, sock[c])
  BY ClientCallIs, SessionTypes DEF SocketClose, RunningFor, Running, CompletionInv, passVars, TInv, StreamTypes
<1>2. ~Pending(c)
  BY <1>1 DEF CompletionInv, SettledInv, Settled, Running
<1>3. \A e \in Watched : e.cb = "connect" => e.conn # c
  BY <1>2 DEF Pending, Awaited, Connects
<1>4. /\ \A e \in Range(poll_list') : \E old \in Range(poll_list) :
           SameKey(e, old) /\ e.cb = old.cb /\ e.conn = old.conn
      /\ \A old \in Range(poll_list) : \E e \in Range(poll_list') :
           SameKey(e, old) /\ e.cb = old.cb /\ e.conn = old.conn
  BY <1>1, CancelIs, CancelKeeps DEF SameKey
<1>5. \A e \in Watched' : \E old \in Watched : SameKey(e, old) /\ e.cb = old.cb /\ e.conn = old.conn
  BY <1>1, <1>4 DEF Watched, SameKey
<1>6. EntriesInv'
  <2>1. ASSUME NEW e \in Watched' PROVE Matches(e)'
    <3>1. PICK old \in Watched : SameKey(e, old) /\ e.cb = old.cb /\ e.conn = old.conn
      BY <1>5
    <3>2. Matches(old) /\ old.conn \in Conn /\ (old.cb = "connect" => old.conn # c)
      BY <1>1, <1>3, SessionTypes DEF WatchInv, EntriesInv
    <3>3. old.cb = "connect" => sock'[old.conn] = sock[old.conn]
      BY <1>1, <3>2
    <3>4. QED
      BY <3>1, <3>2, <3>3 DEF Matches, SameKey
  <2>2. QED
    BY <2>1 DEF EntriesInv
<1>7. CopyInv'
  <2>1. ASSUME NEW n \in todo, copy[n].cb = "connect"
        PROVE  \E e \in Range(poll_list') : SameKey(e, copy[n])
    BY <1>1, <1>4, <2>1 DEF WatchInv, CopyInv, SameKey
  <2>2. QED
    BY <1>1, <2>1 DEF CopyInv, SameKey
<1>8. \A d \in Conn : Listed(d)' <=> Listed(d)
  BY <1>4 DEF Listed, Connects
<1>9. QueuesInv'
  BY <1>1, QuietCalls, QueuesKept DEF WriteCall
<1>10. QED
  BY <1>1, <1>6, <1>7, <1>8, <1>9, CallCompletes DEF ConnectCall, CallsPlain, FuncsPlain


(* A step of connecting that ends it: the callback of connect is next. *)
LEMMA EndCompletes ==
  ASSUME CompletionInv, RegInv', SessionInv', EntriesInv', CopyInv', \A d \in Conn : Listed(d)' <=> Listed(d),
         NEW c \in Conn, calls # <<>>, calls[1].call \in ConnectCall, calls[1].conn = c,
         NEW x \in Call, x.call = "connect_cb", x.conn = c, Calling(<<x>>),
         UNCHANGED <<resolving, made, funcs, write_op_queue>>
  PROVE  CompletionInv' /\ Effect
<1>1. /\ WatchInv /\ WatchInv' /\ TInv /\ SessionInv /\ SettledInv /\ QueuesInv /\ OneConnect
  BY DEF CompletionInv, WatchInv, RegInv, SessionInv
<1>2. calls' # <<>> /\ calls'[1] = x
  BY <1>1, RunsFirst
<1>3. /\ Told = NoConn /\ Told' = c /\ ~Running("socket_close")' /\ ~Running("on_handshake")'
      /\ \A d \in Conn : ~Begun(d)' /\ (Begun(d) <=> d = c)
  BY <1>2 DEF Told, Running, Begun, ConnectCall
<1>4. ~Asked(c) /\ ~Found(c) /\ ~Awaited(c) /\ Pending(c)
  BY <1>1, <1>3 DEF OneConnect, OnePlace, Pending
<1>5. ASSUME NEW d \in Conn PROVE Pending(d)' <=> Pending(d) /\ d # c
  <2>1. (Awaited(d) <=> Listed(d)) /\ (Awaited(d)' <=> Listed(d)')
    BY <1>1, ListedIs, ListedNext
  <2>2. (Asked(d)' <=> Asked(d)) /\ (Found(d)' <=> Found(d))
    BY DEF Asked, Found
  <2>3. QED
    BY <1>3, <1>4, <2>1, <2>2 DEF Pending
<1>6. Effect
  BY <1>3, <1>4, <1>5 DEF Effect, Tells
<1>7. SettledInv'
  BY <1>1, <1>3, <1>6, SettledKept
<1>8. QueuesInv'
  <2>1. Quiet(<<x>>) /\ calls[1].call \notin WriteCall
    BY QuietCalls DEF WriteCall, ConnectCall
  <2>2. QED
    BY <1>1, <2>1, QueuesKept
<1>9. QED
  BY <1>1, <1>3, <1>6, <1>7, <1>8 DEF CompletionInv

LEMMA OnResolvedCompletes ==
  ASSUME CompletionInv, RegInv', SessionInv', NEW c \in Conn, OnResolved(c), UNCHANGED <<clientVars, made, worldVars>>
  PROVE  CompletionInv' /\ Effect
<1>1. /\ TInv /\ WatchInv /\ OneConnect /\ QueuesInv /\ SettledInv /\ SessionInv
      /\ calls # <<>> /\ calls[1].call \in ConnectCall /\ calls[1].conn = c
      /\ UNCHANGED <<passVars, copy, todo, resolving, made, funcs, write_op_queue>>
      /\ sock \in [Conn -> Fd \union {NoFd}] /\ owner \in [Fd -> Conn \union {Free}]
      /\ poll_list \in Seq(Entry) /\ Unique(poll_list)
  BY ClientCallIs, SessionTypes DEF OnResolved, RunningFor, Running, CompletionInv, passVars, TInv, StreamTypes,
                                    WatchInv, SessionInv, ConnectCall
<1>2. Begun(c) /\ ~Awaited(c) /\ ~Asked(c) /\ ~Found(c)
  BY <1>1 DEF Begun, OneConnect, OnePlace
<1>3. \A e \in Watched : e.cb = "connect" => e.conn # c
  BY <1>2 DEF Awaited, Connects
<1>4. ASSUME NEW e \in {"NameResolutionFailed", "InternalError"}, Calling(<<ConnectCb(c, e)>>), UNCHANGED poll_list,
             \A d \in Conn \ {c} : sock'[d] = sock[d]
      PROVE  CompletionInv' /\ Effect
  <2>1. PICK x \in Call : x = ConnectCb(c, e)
    BY CallForms DEF Code
  <2>2. x.call = "connect_cb" /\ x.conn = c
    BY <2>1 DEF ConnectCb
  <2>3. Watched' = Watched
    BY <1>1, <1>4, WatchedSame
  <2>4. EntriesInv'
    <3>1. ASSUME NEW w \in Watched PROVE Matches(w)'
      <4>1. Matches(w) /\ w.conn \in Conn /\ (w.cb = "connect" => w.conn # c)
        BY <1>1, <1>3, SessionTypes DEF WatchInv, EntriesInv
      <4>2. w.cb = "connect" => sock'[w.conn] = sock[w.conn]
        BY <1>4, <4>1
      <4>3. QED
        BY <4>1, <4>2 DEF Matches
    <3>2. QED
      BY <2>3, <3>1 DEF EntriesInv
  <2>5. CopyInv' /\ \A d \in Conn : Listed(d)' <=> Listed(d)
    BY <1>1, <1>4 DEF WatchInv, CopyInv, SameKey, Listed
  <2>6. QED
    BY <1>1, <1>4, <2>1, <2>2, <2>4, <2>5, EndCompletes
<1>5. ASSUME NEW fd \in Fd, Lowest(fd), sock' = [sock EXCEPT ![c] = fd],
             poll_list' = Notify(poll_list, fd, "write", "connect", c), Calling(<<>>)
      PROVE  CompletionInv' /\ Effect
  <2>1. /\ owner[fd] = Free /\ Free \notin Conn /\ fd # NoFd /\ sock'[c] = fd
        /\ \A d \in Conn \ {c} : sock'[d] = sock[d]
    BY <1>1, <1>5 DEF Lowest, FreeFds, Fd, NoFd, Free, Conn
  <2>2. /\ \A e \in Watched' : e \in Watched \/ (e.fd = fd /\ e.dir = "write" /\ e.cb = "connect" /\ e.conn = c)
        /\ \A e \in Range(poll_list) : ~(e.fd = fd /\ e.dir = "write") => e \in Range(poll_list')
        /\ \E e \in Range(poll_list') : e.fd = fd /\ e.dir = "write" /\ e.cb = "connect" /\ e.conn = c
        /\ \A e \in Range(poll_list') :
             e \in Range(poll_list) \/ (e.fd = fd /\ e.dir = "write" /\ e.cb = "connect" /\ e.conn = c)
    <3>1. "write" \in Dir /\ "connect" \in Purpose
      BY DEF Dir, Purpose
    <3>2. QED
      BY <1>1, <1>5, <3>1, WatchedNotify, NotifyKeeps, NotifyIs
  <2>3. EntriesInv'
    <3>1. ASSUME NEW w \in Watched' PROVE Matches(w)'
      <4>1. CASE w \in Watched
        <5>1. Matches(w) /\ w.conn \in Conn /\ (w.cb = "connect" => w.conn # c)
          BY <1>1, <1>3, <4>1, SessionTypes DEF WatchInv, EntriesInv
        <5>2. w.cb = "connect" => sock'[w.conn] = sock[w.conn]
          BY <2>1, <5>1
        <5>3. QED
          BY <5>1, <5>2 DEF Matches
      <4>2. CASE w.fd = fd /\ w.dir = "write" /\ w.cb = "connect" /\ w.conn = c
        BY <2>1, <4>2 DEF Matches
      <4>3. QED
        BY <2>2, <4>1, <4>2
    <3>2. QED
      BY <3>1 DEF EntriesInv
  <2>4. CopyInv'
    <3>1. ASSUME NEW n \in todo, copy[n].cb = "connect"
          PROVE  \E e \in Range(poll_list') : SameKey(e, copy[n])
      <4>1. PICK e \in Range(poll_list) : SameKey(e, copy[n])
        BY <1>1, <3>1 DEF WatchInv, CopyInv
      <4>2. QED
        BY <2>2, <4>1 DEF SameKey
    <3>2. QED
      BY <1>1, <3>1 DEF CopyInv, SameKey
  <2>5. ASSUME NEW d \in Conn PROVE Listed(d)' <=> Listed(d) \/ d = c
    <3>1. ASSUME NEW e \in Range(poll_list), Connects(e) PROVE e \in Range(poll_list')
      <4>1. e \in Watched /\ Matches(e) /\ e.cb = "connect"
        BY <1>1, <3>1 DEF Watched, WatchInv, EntriesInv, Matches, Connects
      <4>2. owner[e.fd] \in Conn
        BY <1>1, <4>1, ConnectsOwn
      <4>3. QED
        BY <2>1, <2>2, <4>2
    <3>2. QED
      BY <2>2, <3>1 DEF Listed, Connects
  <2>6. calls' # <<>> => Plain(calls'[1])
    BY <1>1, <1>5, NextIsPlain DEF CallsPlain
  <2>7. Told' = NoConn /\ ~Running("socket_close")' /\ ~Running("on_handshake")' /\ \A d \in Conn : ~Begun(d)'
    BY <2>6, PlainNext
  <2>8. Told = NoConn /\ \A d \in Conn : Begun(d) <=> d = c
    BY <1>1 DEF Told, Running, Begun, ConnectCall
  <2>9. WatchInv'
    BY <2>3, <2>4 DEF WatchInv
  <2>10. ASSUME NEW d \in Conn PROVE Pending(d)' <=> Pending(d)
    <3>1. (Awaited(d) <=> Listed(d)) /\ (Awaited(d)' <=> Listed(d)')
      BY <1>1, <2>9, ListedIs, ListedNext
    <3>2. (Asked(d)' <=> Asked(d)) /\ (Found(d)' <=> Found(d))
      BY <1>1 DEF Asked, Found
    <3>3. QED
      BY <2>5, <2>7, <2>8, <3>1, <3>2 DEF Pending
  <2>11. Effect
    BY <1>1, <2>7, <2>8, <2>10 DEF Effect, Nothing, SamePending
  <2>12. SettledInv'
    BY <1>1, <2>7, <2>11, SettledKept
  <2>13. QueuesInv'
    BY <1>1, <1>5, QuietCalls, QueuesKept DEF WriteCall, ConnectCall
  <2>14. QED
    BY <2>7, <2>9, <2>11, <2>12, <2>13 DEF CompletionInv
<1>6. QED
  <2>1. \/ \E e \in {"NameResolutionFailed", "InternalError"} :
             Calling(<<ConnectCb(c, e)>>) /\ UNCHANGED poll_list /\ \A d \in Conn \ {c} : sock'[d] = sock[d]
        \/ \E fd \in Fd : /\ Lowest(fd) /\ sock' = [sock EXCEPT ![c] = fd]
                          /\ poll_list' = Notify(poll_list, fd, "write", "connect", c) /\ Calling(<<>>)
    BY <1>1 DEF OnResolved
  <2>2. QED
    BY <1>4, <1>5, <2>1

LEMMA SocketOnConnectedCompletes ==
  ASSUME ~Secure, CompletionInv, RegInv', SessionInv', NEW c \in Conn, SocketOnConnected(c),
         UNCHANGED <<clientVars, made, worldVars>>
  PROVE  CompletionInv' /\ Effect
<1>1. /\ calls # <<>> /\ calls[1].call \in ConnectCall /\ calls[1].conn = c /\ EntriesInv /\ CopyInv
      /\ UNCHANGED <<passVars, poll_list, sock, resolving, made, funcs, write_op_queue>>
      /\ Calling(<<ConnectCb(c, "ok")>>)
  BY DEF SocketOnConnected, RunningFor, Running, CompletionInv, WatchInv, ConnectCall
<1>2. PICK x \in Call : x = ConnectCb(c, "ok")
  BY CallForms DEF Code
<1>3. x.call = "connect_cb" /\ x.conn = c
  BY <1>2 DEF ConnectCb
<1>4. EntriesInv' /\ CopyInv' /\ \A d \in Conn : Listed(d)' <=> Listed(d)
  BY <1>1, ListsKept
<1>5. QED
  BY <1>1, <1>2, <1>3, <1>4, EndCompletes

LEMMA StreamStepCompletes ==
  ASSUME ~Secure, CompletionInv, RegInv', SessionInv', StreamStep
  PROVE  CompletionInv' /\ Effect
<1>1. /\ UNCHANGED <<clientVars, made, worldVars>>
      /\ \E c \in Conn : OnResolved(c) \/ SocketOnConnected(c) \/ OnHandshake(c) \/ Written(c) \/ SocketClose(c)
  BY DEF StreamStep
<1>2. \A c \in Conn : ~OnHandshake(c)
  BY DEF OnHandshake, RunningFor, CompletionInv
<1>3. QED
  BY <1>1, <1>2, OnResolvedCompletes, SocketOnConnectedCompletes, WrittenCompletes, SocketCloseCompletes

LEMMA ClientStepCompletes ==
  ASSUME ~Secure, "again" \notin Faults, CompletionInv, RegInv', SessionInv', ClientStep
  PROVE  CompletionInv' /\ Effect
<1>1. \/ HandleError \/ ConnectDone \/ Send \/ WriteDone \/ ReadPacket \/ ReadFailed \/ Upgrade
      \/ \E c \in Conn : Writing(c) \/ Reading(c) \/ Receiving(c)
  BY DEF ClientStep
<1>2. QED
  BY <1>1, HandleErrorCompletes, ConnectDoneCompletes, SendCompletes, WriteDoneCompletes, ReadPacketCompletes,
     ReadFailedCompletes, UpgradeCompletes, WritingCompletes, ReadingCompletes, ReceivingCompletes

-----------------------------------------------------------------------------
(* Steps of the loop, and of what is outside of it.                        *)

LEMMA TailCovers ==
  ASSUME NEW S, NEW seq \in Seq(S), seq # <<>>
  PROVE  \A n \in DOMAIN seq : n = 1 \/ (n - 1 \in DOMAIN Tail(seq) /\ Tail(seq)[n - 1] = seq[n])
<1>1. /\ Len(seq) \in Nat /\ DOMAIN seq = 1..Len(seq) /\ Len(seq) # 0
      /\ DOMAIN Tail(seq) = 1..(Len(seq) - 1)
      /\ \A n \in 1..(Len(seq) - 1) : Tail(seq)[n] = seq[n + 1]
  OBVIOUS
<1>2. ASSUME NEW n \in 1..Len(seq), n # 1
      PROVE  n - 1 \in 1..(Len(seq) - 1) /\ (n - 1) + 1 = n
  BY <1>1, <1>2
<1>3. QED
  BY <1>1, <1>2

(* Nothing is called, and who connects does so in the same places, or goes *)
(* on to the next one. *)
LEMMA CallsSame ==
  ASSUME CompletionInv, RegInv', SessionInv', EntriesInv', CopyInv', \A d \in Conn : Listed(d)' <=> Listed(d),
         UNCHANGED <<calls, made, write_op_queue>>,
         \A d \in Conn : Asked(d)' \/ Found(d)' <=> Asked(d) \/ Found(d),
         \A n \in DOMAIN funcs' : funcs'[n].f = "close" => \E m \in DOMAIN funcs : funcs[m] = funcs'[n]
  PROVE  CompletionInv' /\ Effect
<1>1. /\ WatchInv /\ WatchInv' /\ TInv /\ SessionInv /\ SettledInv /\ QueuesInv
      /\ ~Running("on_handshake")
  BY DEF CompletionInv, WatchInv, RegInv
<1>2. /\ Told' = Told /\ \A d \in Conn : Begun(d)' <=> Begun(d)
      /\ Running("socket_close")' => Settled(calls'[1].conn)
      /\ ~Running("on_handshake")' /\ QueuesInv'
  BY <1>1 DEF Told, Running, Begun, SettledInv, QueuesInv, WriteCalled
<1>3. ASSUME NEW d \in Conn PROVE Pending(d)' <=> Pending(d)
  <2>1. (Awaited(d) <=> Listed(d)) /\ (Awaited(d)' <=> Listed(d)')
    BY <1>1, ListedIs, ListedNext
  <2>2. QED
    BY <1>2, <2>1 DEF Pending
<1>4. Effect
  BY <1>2, <1>3 DEF Effect, Nothing, SamePending
<1>5. SettledInv'
  BY <1>1, <1>2, <1>4, SettledKept
<1>6. QED
  BY <1>1, <1>2, <1>4, <1>5 DEF CompletionInv

(* The loop calls something that is not connect's callback. *)
LEMMA LoopCallCompletes ==
  ASSUME CompletionInv, RegInv', SessionInv', EntriesInv', CopyInv', QueuesInv', calls = <<>>, made' = made,
         calls' # <<>> => calls'[1].call \notin {"connect_cb", "on_handshake"},
         \A d \in Conn : Pending(d)' <=> Pending(d),
         \A n \in DOMAIN funcs' : funcs'[n].f = "close" => \E m \in DOMAIN funcs : funcs[m] = funcs'[n],
         Running("socket_close")' => Settled(calls'[1].conn)
  PROVE  CompletionInv' /\ Effect
<1>1. SessionInv /\ SettledInv
  BY DEF CompletionInv, WatchInv
<1>2. Told = NoConn /\ Told' = NoConn /\ ~Running("on_handshake")'
  BY DEF Told, Running
<1>3. Effect
  BY <1>2 DEF Effect, Nothing, SamePending
<1>4. SettledInv'
  BY <1>1, <1>3, SettledKept
<1>5. QED
  BY <1>2, <1>3, <1>4 DEF CompletionInv, WatchInv

LEMMA JoinCompletes ==
  ASSUME CompletionInv, RegInv', SessionInv', Join \/ Publish
  PROVE  CompletionInv' /\ Effect
<1>1. /\ TInv /\ EntriesInv /\ CopyInv
      /\ UNCHANGED <<passVars, poll_list, sock, calls, made, resolving, write_op_queue>>
  BY ClientCallIs DEF Join, Publish, streamVars, CompletionInv, WatchInv
<1>2. PICK f \in Func : f.f = "call" /\ funcs' = Append(funcs, f)
  <2>1. PICK x \in Call : x.call \in {"send", "connect"} /\ funcs' = Append(funcs, Invoked(x))
    <3>1. [call |-> "send", op |-> "publish"] \in Call
      BY CallForms DEF Op
    <3>2. [call |-> "connect"] \in Call
      BY DEF Call
    <3>3. QED
      BY <3>1, <3>2 DEF Join, Publish
  <2>2. PICK f \in Func : f = Invoked(x)
    BY <2>1, FuncMembers
  <2>3. f.f = "call"
    BY <2>2 DEF Invoked
  <2>4. QED
    BY <2>1, <2>2, <2>3
<1>3. /\ \A n \in DOMAIN funcs : n \in DOMAIN funcs' /\ funcs'[n] = funcs[n]
      /\ \A n \in DOMAIN funcs' : n \in DOMAIN funcs \/ funcs'[n] = f
  BY <1>1, <1>2, FuncsOne
<1>4. /\ \A d \in Conn : Asked(d)' \/ Found(d)' <=> Asked(d) \/ Found(d)
      /\ \A n \in DOMAIN funcs' : funcs'[n].f = "close" => \E m \in DOMAIN funcs : funcs[m] = funcs'[n]
  BY <1>1, <1>2, <1>3 DEF Asked, Found
<1>5. EntriesInv' /\ CopyInv' /\ \A d \in Conn : Listed(d)' <=> Listed(d)
  BY <1>1, ListsKept
<1>6. QED
  BY <1>1, <1>4, <1>5, CallsSame

LEMMA ResolverCompletes ==
  ASSUME CompletionInv, RegInv', SessionInv', Resolver
  PROVE  CompletionInv' /\ Effect
<1>1. /\ TInv /\ EntriesInv /\ CopyInv /\ resolving \in Seq(Conn) /\ resolving # <<>> /\ resolving' = Tail(resolving)
      /\ UNCHANGED <<passVars, poll_list, sock, calls, made, write_op_queue>>
  BY ClientCallIs, SessionTypes DEF Resolver, Resolved, CompletionInv, WatchInv
<1>2. PICK c \in Conn : c = Head(resolving)
  BY <1>1, TailIs
<1>3. PICK f \in Func : f.f = "resolved" /\ f.conn = c /\ funcs' = Append(funcs, f)
  <2>1. PICK found \in BOOLEAN : funcs' = Append(funcs, [f |-> "resolved", conn |-> c, found |-> found])
    BY <1>2 DEF Resolver, Resolved
  <2>2. PICK f \in Func : f = [f |-> "resolved", conn |-> c, found |-> found]
    BY FuncMembers
  <2>3. f.f = "resolved" /\ f.conn = c
    BY <2>2
  <2>4. QED
    BY <2>1, <2>2, <2>3
<1>4. /\ \A n \in DOMAIN funcs : n \in DOMAIN funcs' /\ funcs'[n] = funcs[n]
      /\ \A n \in DOMAIN funcs' : n \in DOMAIN funcs \/ funcs'[n] = f
      /\ \E n \in DOMAIN funcs' : funcs'[n] = f
  BY <1>1, <1>3, FuncsOne
<1>5. \A d \in Conn : Found(d)' <=> Found(d) \/ d = c
  BY <1>3, <1>4 DEF Found
<1>6. \A d \in Conn : Asked(d) <=> Asked(d)' \/ d = c
  <2>1. /\ c = resolving[1] /\ 1 \in DOMAIN resolving
        /\ \A n \in DOMAIN resolving' : \E m \in DOMAIN resolving : resolving[m] = resolving'[n]
    BY <1>1, <1>2, TailIs
  <2>2. \A n \in DOMAIN resolving : n = 1 \/ \E m \in DOMAIN resolving' : resolving[n] = resolving'[m]
    BY <1>1, TailCovers
  <2>3. QED
    BY <2>1, <2>2 DEF Asked, Range
<1>7. \A n \in DOMAIN funcs' : funcs'[n].f = "close" => \E m \in DOMAIN funcs : funcs[m] = funcs'[n]
  BY <1>3, <1>4
<1>8. EntriesInv' /\ CopyInv' /\ \A d \in Conn : Listed(d)' <=> Listed(d)
  BY <1>1, ListsKept
<1>9. QED
  BY <1>1, <1>5, <1>6, <1>7, <1>8, CallsSame

(* A pass begins with a copy of the whole list, and ends with none of it.  *)
LEMMA SelectCompletes ==
  ASSUME CompletionInv, RegInv', SessionInv', Select \/ SelectTimeout \/ PassDone,
         UNCHANGED <<clientVars, made, worldVars>>
  PROVE  CompletionInv' /\ Effect
<1>1. /\ TInv /\ EntriesInv
      /\ UNCHANGED <<poll_list, sock, funcs, calls, made, resolving, write_op_queue>>
  BY ClientCallIs DEF Select, SelectTimeout, PassDone, streamVars, CompletionInv, WatchInv
<1>2. \A n \in todo' : n \in DOMAIN poll_list' /\ copy'[n] = poll_list'[n]
  BY DEF Select, SelectTimeout, PassDone, Ready
<1>3. Watched' \subseteq Watched
  BY <1>1, <1>2 DEF Watched, Range
<1>4. EntriesInv'
  BY <1>1, <1>3 DEF EntriesInv, Matches
<1>5. CopyInv'
  BY <1>2 DEF CopyInv, SameKey, Range
<1>6. \A d \in Conn : (Listed(d)' <=> Listed(d)) /\ (Asked(d)' <=> Asked(d)) /\ (Found(d)' <=> Found(d))
  BY <1>1 DEF Listed, Asked, Found
<1>7. QED
  BY <1>1, <1>4, <1>5, <1>6, CallsSame

(* Nothing is written between the calls. *)
LEMMA NoneWritten ==
  ASSUME CompletionInv, calls = <<>>
  PROVE  \A d \in Conn : write_op_queue[d] = <<>>
BY DEF CompletionInv, QueuesInv, WriteCalled

LEMMA PingDueCompletes ==
  ASSUME CompletionInv, RegInv', SessionInv', PingDue
  PROVE  CompletionInv' /\ Effect
<1>1. /\ WatchInv /\ WatchInv' /\ EntriesInv /\ CopyInv
      /\ calls = <<>> /\ calls' # <<>> /\ calls'[1].call = "send"
      /\ UNCHANGED <<passVars, poll_list, sock, funcs, made, resolving, write_op_queue>>
  <2>1. /\ calls = <<>> /\ calls' # <<>> /\ calls'[1].call = "send"
        /\ UNCHANGED <<passVars, poll_list, sock, funcs, made, resolving, write_op_queue>>
    BY DEF PingDue, streamVars
  <2>2. WatchInv /\ EntriesInv /\ CopyInv
    BY DEF CompletionInv, WatchInv
  <2>3. QED
    BY <2>1, <2>2, ListsKept DEF WatchInv
<1>2. EntriesInv' /\ CopyInv' /\ Watched' = Watched
  BY <1>1, ListsKept, WatchedSame
<1>3. \A d \in Conn : Pending(d)' <=> Pending(d)
  BY <1>1, <1>2 DEF Pending, Asked, Found, Begun, Awaited, ConnectCall
<1>4. QueuesInv' /\ ~Running("socket_close")'
  BY <1>1, NoneWritten DEF QueuesInv, Running
<1>5. QED
  BY <1>1, <1>2, <1>3, <1>4, LoopCallCompletes

LEMMA RunFuncCompletes ==
  ASSUME CompletionInv, RegInv', SessionInv', RunFunc, UNCHANGED <<clientVars, made, worldVars>>
  PROVE  CompletionInv' /\ Effect
<1>1. /\ TInv /\ WatchInv /\ OneConnect /\ SettledInv /\ EntriesInv /\ CopyInv
      /\ calls = <<>> /\ funcs' = Tail(funcs) /\ funcs \in Seq(Func) /\ write_op_queue \in [Conn -> Seq(Op)]
      /\ UNCHANGED <<copy, todo, poll_list, sock, made, resolving>>
  BY ClientCallIs DEF RunFunc, CompletionInv, WatchInv, SessionInv, TInv, LInv, LoopTypes, StreamTypes
<1>2. /\ funcs # <<>> /\ Head(funcs) = funcs[1] /\ 1 \in DOMAIN funcs
      /\ \A d \in Conn : Found(d)' => Found(d)
      /\ funcs[1].f = "resolved" => \A d \in Conn : Found(d)' => d # funcs[1].conn
  BY <1>1, FuncTaken DEF OneConnect
<1>f. PICK f \in Func : f = funcs[1]
  BY <1>1, <1>2
<1>3. /\ \A n \in DOMAIN funcs' : \E m \in DOMAIN funcs : funcs[m] = funcs'[n]
      /\ \A n \in DOMAIN funcs : funcs[n] = f \/ \E m \in DOMAIN funcs' : funcs'[m] = funcs[n]
  <2>1. \A n \in DOMAIN funcs' : n + 1 \in DOMAIN funcs /\ funcs'[n] = funcs[n + 1]
    BY <1>1, <1>2, TailIs
  <2>2. \A n \in DOMAIN funcs : n = 1 \/ (n - 1 \in DOMAIN funcs' /\ funcs'[n - 1] = funcs[n])
    BY <1>1, <1>2, TailCovers
  <2>3. QED
    BY <1>f, <2>1, <2>2
<1>4. \A d \in Conn : Found(d)' <=> Found(d) /\ ~(f.f = "resolved" /\ f.conn = d)
  BY <1>2, <1>f, <1>3 DEF Found
<1>5. Watched' = Watched /\ EntriesInv' /\ CopyInv'
  BY <1>1 DEF Watched, EntriesInv, Matches, CopyInv, SameKey
<1>6. \A d \in Conn : ~Begun(d) /\ (Asked(d)' <=> Asked(d)) /\ (Awaited(d)' <=> Awaited(d))
  BY <1>1, <1>5 DEF Begun, Asked, Awaited
<1>7. f.f \in {"resolved", "close", "write", "call"}
  BY FuncFields
<1>8. f.f # "write" => QueuesInv'
  <2>1. f.f # "write" => UNCHANGED write_op_queue
    BY <1>2, <1>f, <1>7 DEF RunFunc
  <2>2. QED
    BY <1>1, <2>1, NoneWritten DEF QueuesInv
<1>9. CASE f.f = "resolved"
  <2>1. calls' = <<[call |-> "on_resolved", conn |-> f.conn, found |-> f.found]>>
    BY <1>2, <1>9, <1>f DEF RunFunc
  <2>2. /\ calls' # <<>> /\ calls'[1].call = "on_resolved" /\ calls'[1].conn = f.conn
        /\ f.conn \in Conn /\ Found(f.conn)
    BY <1>2, <1>9, <1>f, <2>1, FuncFields DEF Found
  <2>3. \A d \in Conn : Pending(d)' <=> Pending(d)
    <3>1. \A d \in Conn : Begun(d)' <=> d = f.conn
      BY <2>2 DEF Begun, ConnectCall
    <3>2. QED
      BY <1>4, <1>6, <1>9, <2>2, <3>1 DEF Pending
  <2>4. QED
    BY <1>1, <1>3, <1>5, <1>8, <1>9, <2>2, <2>3, LoopCallCompletes DEF Running
<1>10. CASE f.f # "resolved"
  <2>1. ASSUME calls' # <<>>
        PROVE  /\ calls'[1].call \notin ConnectCall \union {"connect_cb"}
               /\ calls'[1].call = "socket_close" => f.f = "close" /\ calls'[1].conn = f.conn
    <3>1. CASE f.f = "close"
      <4>1. calls' = <<[call |-> "socket_close", conn |-> f.conn]>>
        BY <1>2, <1>f, <3>1 DEF RunFunc
      <4>2. QED
        BY <3>1, <4>1 DEF ConnectCall
    <3>2. CASE f.f = "write"
      <4>1. calls' = <<[call |-> "do_write", conn |-> f.conn]>>
        BY <1>2, <1>f, <2>1, <3>2 DEF RunFunc
      <4>2. QED
        BY <4>1 DEF ConnectCall
    <3>3. CASE f.f = "call"
      <4>1. calls' = <<f.then>> /\ f.then.call \in {"send", "upgrade", "connect"}
        BY <1>2, <1>f, <3>3, FuncFields DEF RunFunc
      <4>2. QED
        BY <4>1 DEF ConnectCall
    <3>4. QED
      BY <1>7, <1>10, <3>1, <3>2, <3>3
  <2>2. \A d \in Conn : Pending(d)' <=> Pending(d)
    <3>1. \A d \in Conn : ~Begun(d)'
      BY <2>1 DEF Begun
    <3>2. QED
      BY <1>4, <1>6, <1>10, <3>1 DEF Pending
  <2>3. Running("socket_close")' => Settled(calls'[1].conn)
    BY <1>1, <1>2, <1>f, <2>1 DEF Running, SettledInv
  <2>4. QueuesInv'
    <3>1. CASE f.f = "write"
      <4>1. /\ write_op_queue' = [write_op_queue EXCEPT ![f.conn] = Append(@, f.op)]
            /\ calls' = IF write_op_queue[f.conn] = <<>>
                        THEN <<[call |-> "do_write", conn |-> f.conn]>> ELSE <<>>
        BY <1>2, <1>f, <3>1 DEF RunFunc
      <4>2. f.conn \in Conn /\ f.op \in Op /\ \A d \in Conn : write_op_queue[d] = <<>>
        BY <1>1, <3>1, FuncFields, NoneWritten
      <4>3. /\ write_op_queue'[f.conn] = <<f.op>>
            /\ \A d \in Conn : d # f.conn => write_op_queue'[d] = <<>>
        <5>1. Append(<<>>, f.op) = <<f.op>>
          OBVIOUS
        <5>2. /\ write_op_queue'[f.conn] = Append(write_op_queue[f.conn], f.op)
              /\ \A d \in Conn : d # f.conn => write_op_queue'[d] = write_op_queue[d]
          BY <1>1, <4>1, <4>2
        <5>3. QED
          BY <4>2, <5>1, <5>2
      <4>4. Len(<<f.op>>) = 1
        OBVIOUS
      <4>5. WriteCalled(f.conn)'
        <5>1. calls' = <<[call |-> "do_write", conn |-> f.conn]>>
          BY <4>1, <4>2
        <5>2. 1 \in DOMAIN calls' /\ calls'[1].call = "do_write" /\ calls'[1].conn = f.conn
          BY <5>1
        <5>3. QED
          BY <5>2 DEF WriteCalled, WriteCall
      <4>6. QED
        BY <4>3, <4>4, <4>5 DEF QueuesInv
    <3>2. QED
      BY <1>8, <3>1
  <2>5. \A n \in DOMAIN funcs' : funcs'[n].f = "close" => \E m \in DOMAIN funcs : funcs[m] = funcs'[n]
    BY <1>3
  <2>6. calls' # <<>> => calls'[1].call \notin {"connect_cb", "on_handshake"}
    BY <2>1 DEF ConnectCall
  <2>7. QED
    BY <1>1, <1>5, <2>2, <2>3, <2>4, <2>5, <2>6, LoopCallCompletes
<1>11. QED
  BY <1>9, <1>10

(* The answer takes away the registration that it is the answer of, and no *)
(* other: its number is still that stream's. *)
LEMMA AnswerTakes ==
  ASSUME CompletionInv, NEW n \in todo, todo' = todo \ {n},
         poll_list' = Unnotify(poll_list, copy[n].fd, copy[n].dir), UNCHANGED <<copy, sock>>
  PROVE  /\ EntriesInv' /\ CopyInv'
         /\ copy[n].cb = "read" => \A d \in Conn : Listed(d)' <=> Listed(d)
         /\ copy[n].cb = "connect" => \A d \in Conn : Listed(d)' <=> Listed(d) /\ d # copy[n].conn
<1>1. /\ TInv /\ WatchInv /\ EntriesInv /\ CopyInv /\ RegInv /\ SessionInv
  BY DEF CompletionInv, WatchInv, RegInv
<1>2. /\ poll_list \in Seq(Entry) /\ Unique(poll_list) /\ Unique(copy) /\ todo \subseteq DOMAIN copy
  BY <1>1, SessionTypes DEF TInv, LInv, LoopTypes
<1> DEFINE e == copy[n]
<1>3. e \in Watched /\ Matches(e)
  BY <1>1 DEF Watched, EntriesInv
<1>4. /\ \A x \in Range(poll_list') : x \in Range(poll_list) /\ ~SameKey(x, e)
      /\ \A x \in Range(poll_list) : ~SameKey(x, e) => x \in Range(poll_list')
  BY <1>2, UnnotifyIs DEF SameKey
<1> HIDE DEF e
<1>5. EntriesInv'
  <2>1. Watched' \subseteq Watched
    BY <1>4 DEF Watched
  <2>2. QED
    BY <1>1, <2>1 DEF EntriesInv, Matches
<1>6. CopyInv'
  <2>1. ASSUME NEW m \in todo', copy[m].cb = "connect"
        PROVE  \E x \in Range(poll_list') : SameKey(x, copy[m])
    <3>1. PICK x \in Range(poll_list) : SameKey(x, copy[m])
      BY <1>1, <2>1 DEF CopyInv
    <3>2. ~SameKey(copy[m], e)
      BY <1>2, <2>1 DEF SameKey, Unique, e
    <3>3. QED
      BY <1>4, <3>1, <3>2 DEF SameKey
  <2>2. QED
    BY <2>1 DEF CopyInv, SameKey
<1>7. \A x \in Range(poll_list) : Connects(x) => x \in Watched /\ x.cb = "connect" /\ x.dir = "write"
  BY <1>1 DEF Watched, EntriesInv, Matches, Connects
<1>8. e.cb = "read" => \A d \in Conn : Listed(d)' <=> Listed(d)
  <2>1. e.cb = "read" => e.dir # "write"
    BY <1>3 DEF Matches
  <2>2. QED
    BY <1>4, <1>7, <2>1 DEF Listed, SameKey
<1>9. ASSUME e.cb = "connect", NEW x \in Range(poll_list), Connects(x)
      PROVE  SameKey(x, e) <=> x.conn = e.conn
  <2>1. x \in Watched /\ x.cb = "connect"
    BY <1>7, <1>9
  <2>2. x.fd = sock[x.conn] /\ owner[x.fd] = x.conn /\ x.dir = "write"
    BY <1>1, <2>1, ConnectsOwn
  <2>3. e.fd = sock[e.conn] /\ owner[e.fd] = e.conn /\ e.dir = "write"
    BY <1>1, <1>3, <1>9, ConnectsOwn
  <2>4. QED
    BY <2>2, <2>3 DEF SameKey
<1>10. e.cb = "connect" => \A d \in Conn : Listed(d)' <=> Listed(d) /\ d # e.conn
  BY <1>4, <1>9 DEF Listed
<1>11. QED
  BY <1>5, <1>6, <1>8, <1>10 DEF e

LEMMA AnswerCompletes ==
  ASSUME CompletionInv, RegInv', SessionInv', Answer, UNCHANGED <<clientVars, made, worldVars>>
  PROVE  CompletionInv' /\ Effect
<1>1. /\ TInv /\ WatchInv /\ EntriesInv /\ OneConnect /\ SessionInv /\ SettledInv
      /\ calls = <<>> /\ ec \in {"ok", "Cancelled", "Timeout"}
      /\ UNCHANGED <<copy, sock, made, resolving, funcs, write_op_queue>>
  BY ClientCallIs DEF Answer, streamVars, CompletionInv, WatchInv, SessionInv, TInv, LInv, LoopTypes
<1>2. PICK n \in todo :
        /\ poll_list' = Unnotify(poll_list, copy[n].fd, copy[n].dir) /\ todo' = todo \ {n}
        /\ ec' \in {ec, "Cancelled"} /\ calls' = Callback(copy[n], ec')
  BY DEF Answer
<1>3. /\ EntriesInv' /\ CopyInv'
      /\ copy[n].cb = "read" => \A d \in Conn : Listed(d)' <=> Listed(d)
      /\ copy[n].cb = "connect" => \A d \in Conn : Listed(d)' <=> Listed(d) /\ d # copy[n].conn
  BY <1>1, <1>2, AnswerTakes
<1>e. PICK e \in Watched : e = copy[n]
  BY DEF Watched
<1>4. e.conn \in Conn /\ e.cb \in {"connect", "read"}
  BY <1>1, SessionTypes DEF EntriesInv, Matches
<1>5. WatchInv'
  BY <1>3 DEF WatchInv
<1>6. \A d \in Conn : (Awaited(d) <=> Listed(d)) /\ (Awaited(d)' <=> Listed(d)')
  BY <1>1, <1>5, ListedIs, ListedNext
<1>7. \A d \in Conn : ~Begun(d) /\ (Asked(d)' <=> Asked(d)) /\ (Found(d)' <=> Found(d))
  BY <1>1 DEF Begun, Asked, Found
<1>8. QueuesInv'
  BY <1>1, NoneWritten DEF QueuesInv
<1>9. CASE e.cb = "read"
  <2>1. calls' = <<[call |-> "do_read", conn |-> e.conn]>> \/ calls' = <<ReadCb(ec')>>
    BY <1>2, <1>e, <1>9 DEF Callback
  <2>2. calls' # <<>> /\ calls'[1].call \in {"do_read", "read_cb"}
    BY <2>1 DEF ReadCb
  <2>3. \A d \in Conn : Pending(d)' <=> Pending(d)
    <3>1. \A d \in Conn : ~Begun(d)'
      BY <2>2 DEF Begun, ConnectCall
    <3>2. QED
      BY <1>3, <1>6, <1>7, <1>9, <1>e, <3>1 DEF Pending
  <2>4. QED
    BY <1>1, <1>3, <1>8, <2>2, <2>3, LoopCallCompletes DEF Running
<1>10. CASE e.cb = "connect"
  <2>1. Awaited(e.conn) /\ Pending(e.conn) /\ ~Asked(e.conn) /\ ~Found(e.conn)
    BY <1>1, <1>4, <1>10 DEF Awaited, Connects, OneConnect, OnePlace, Pending
  <2>2. CASE ec' = "ok"
    <3>1. calls' = <<[call |-> "socket_on_connected", conn |-> e.conn]>>
      BY <1>2, <1>e, <1>10, <2>2 DEF Callback
    <3>2. calls' # <<>> /\ calls'[1].call = "socket_on_connected" /\ calls'[1].conn = e.conn
      BY <3>1
    <3>3. \A d \in Conn : Pending(d)' <=> Pending(d)
      <4>1. \A d \in Conn : Begun(d)' <=> d = e.conn
        BY <3>2 DEF Begun, ConnectCall
      <4>2. QED
        BY <1>3, <1>6, <1>7, <1>10, <1>e, <2>1, <4>1 DEF Pending
    <3>4. QED
      BY <1>1, <1>3, <1>8, <3>2, <3>3, LoopCallCompletes DEF Running
  <2>3. CASE ec' # "ok"
    <3>1. calls' = <<ConnectCb(e.conn, ec')>>
      BY <1>2, <1>e, <1>10, <2>3 DEF Callback
    <3>2. calls' # <<>> /\ calls'[1].call = "connect_cb" /\ calls'[1].conn = e.conn
      BY <3>1 DEF ConnectCb
    <3>3. \A d \in Conn : Pending(d)' <=> Pending(d) /\ d # e.conn
      <4>1. \A d \in Conn : ~Begun(d)'
        BY <3>2 DEF Begun, ConnectCall
      <4>2. QED
        BY <1>3, <1>6, <1>7, <1>10, <1>e, <2>1, <4>1 DEF Pending
    <3>4. /\ Told = NoConn /\ Told' = e.conn
          /\ ~Running("socket_close")' /\ ~Running("on_handshake")'
      BY <1>1, <3>2 DEF Told, Running
    <3>5. Effect
      BY <1>1, <1>4, <2>1, <3>3, <3>4 DEF Effect, Tells
    <3>6. SettledInv'
      BY <1>1, <3>4, <3>5, SettledKept
    <3>7. QED
      BY <1>5, <1>8, <3>4, <3>5, <3>6 DEF CompletionInv
  <2>4. QED
    BY <2>2, <2>3
<1>11. QED
  BY <1>4, <1>9, <1>10

(* No stream that connects is destroyed, and none has the number of one    *)
(* that is. *)
LEMMA DestroyCompletes ==
  ASSUME ~Secure, CompletionInv, RegInv', SessionInv', NEW c \in Conn, DestroyStream(c)
  PROVE  CompletionInv' /\ Effect
<1>1. /\ TInv /\ WatchInv /\ EntriesInv /\ CopyInv /\ RegInv /\ SessionInv /\ OwnInv
      /\ UNCHANGED <<copy, todo, funcs, calls, made, resolving, write_op_queue>>
      /\ Unreferenced(c) /\ todo \subseteq DOMAIN copy
      /\ poll_list \in Seq(Entry) /\ Unique(poll_list)
  BY ClientCallIs, SessionTypes DEF DestroyStream, Destroy, Doomed, passVars, CompletionInv, WatchInv, RegInv,
                                    TInv, LInv, LoopTypes
<1>2. server_fd[c] = NoFd /\ sock \in [Conn -> Fd \union {NoFd}]
  BY <1>1 DEF OwnInv, FdTypes
<1>3. poll_list' = UnnotifyFd(poll_list, sock[c]) /\ sock' = [sock EXCEPT ![c] = NoFd]
  BY <1>2 DEF DestroyStream, Destroy, UnnotifyFd
<1>4. /\ \A e \in Range(poll_list') : e \in Range(poll_list)
      /\ \A e \in Range(poll_list) : e.fd # sock[c] => e \in Range(poll_list')
  <2>1. CASE sock[c] = NoFd
    BY <1>3, <2>1 DEF UnnotifyFd
  <2>2. CASE sock[c] # NoFd
    <3>1. PICK half \in Seq(Entry) : half = Unnotify(poll_list, sock[c], "read") /\ Unique(half)
      BY <1>1, UnnotifyIs
    <3>2. poll_list' = Unnotify(half, sock[c], "write")
      BY <1>3, <2>2, <3>1 DEF UnnotifyFd
    <3>3. /\ \A e \in Range(half) : e \in Range(poll_list)
          /\ \A e \in Range(poll_list) : e.fd # sock[c] => e \in Range(half)
      BY <1>1, <3>1, UnnotifyIs
    <3>4. /\ \A e \in Range(poll_list') : e \in Range(half)
          /\ \A e \in Range(half) : e.fd # sock[c] => e \in Range(poll_list')
      BY <3>1, <3>2, UnnotifyIs
    <3>5. QED
      BY <3>3, <3>4
  <2>3. QED
    BY <2>1, <2>2
<1>5. \A e \in Watched : e.conn # c
  BY <1>1 DEF Unreferenced, Watched, Range
<1>6. \A e \in Watched : e.cb = "connect" => e.fd # sock[c]
  BY <1>1, <1>5, ConnectsOwn DEF OwnInv, OwnsItsDescriptor, NoFd, Fd
<1>7. EntriesInv'
  <2>1. Watched' \subseteq Watched
    BY <1>1, <1>4 DEF Watched
  <2>2. ASSUME NEW e \in Watched' PROVE Matches(e)'
    <3>1. Matches(e) /\ e.conn \in Conn /\ e.conn # c
      BY <1>1, <1>5, <2>1, SessionTypes DEF EntriesInv
    <3>2. sock'[e.conn] = sock[e.conn]
      BY <1>2, <1>3, <3>1
    <3>3. QED
      BY <3>1, <3>2 DEF Matches
  <2>3. QED
    BY <2>2 DEF EntriesInv
<1>8. CopyInv'
  <2>1. ASSUME NEW n \in todo, copy[n].cb = "connect"
        PROVE  \E e \in Range(poll_list') : SameKey(e, copy[n])
    <3>1. PICK e \in Range(poll_list) : SameKey(e, copy[n])
      BY <1>1, <2>1 DEF CopyInv
    <3>2. copy[n] \in Watched
      BY DEF Watched
    <3>3. e.fd # sock[c]
      BY <1>6, <2>1, <3>1, <3>2 DEF SameKey
    <3>4. QED
      BY <1>4, <3>1, <3>3
  <2>2. QED
    BY <1>1, <2>1 DEF CopyInv, SameKey
<1>9. ASSUME NEW d \in Conn PROVE Listed(d)' <=> Listed(d)
  <2>1. \A e \in Range(poll_list) : Connects(e) => e \in Watched /\ e.cb = "connect"
    BY <1>1 DEF Watched, EntriesInv, Matches, Connects
  <2>2. QED
    BY <1>4, <1>6, <2>1 DEF Listed
<1>10. \A d \in Conn : (Asked(d)' <=> Asked(d)) /\ (Found(d)' <=> Found(d))
  BY <1>1 DEF Asked, Found
<1>11. QED
  BY <1>1, <1>7, <1>8, <1>9, <1>10, CallsSame

LEMMA LoopStepCompletes ==
  ASSUME CompletionInv, RegInv', SessionInv', LoopStep
  PROVE  CompletionInv' /\ Effect
<1>1. \/ PingDue
      \/ (Select \/ SelectTimeout \/ RunFunc \/ Answer \/ PassDone) /\ UNCHANGED <<clientVars, made, worldVars>>
  BY DEF LoopStep
<1>2. QED
  BY <1>1, PingDueCompletes, SelectCompletes, RunFuncCompletes, AnswerCompletes

LEMMA CompletionNext ==
  ASSUME ~Secure, "again" \notin Faults, CompletionInv, [Next]_vars
  PROVE  CompletionInv' /\ Effect
<1>1. RegInv' /\ SessionInv'
  BY RegNext, SessionNext DEF CompletionInv, WatchInv
<1>2. CASE Next
  <2>1. \/ Join \/ Connect \/ Publish \/ Resolver \/ StreamStep \/ ClientStep \/ LoopStep
        \/ \E c \in Conn : DestroyStream(c)
    BY <1>2 DEF Next
  <2>2. QED
    BY <1>1, <2>1, JoinCompletes, ConnectCompletes, ResolverCompletes, StreamStepCompletes, ClientStepCompletes,
       LoopStepCompletes, DestroyCompletes
<1>3. CASE UNCHANGED vars
  <2>1. /\ UNCHANGED <<passVars, poll_list, sock>> /\ UNCHANGED <<calls, made, write_op_queue, resolving, funcs>>
        /\ EntriesInv /\ CopyInv
    BY <1>3 DEF vars, loopVars, streamVars, CompletionInv, WatchInv
  <2>2. EntriesInv' /\ CopyInv' /\ \A c \in Conn : Listed(c)' <=> Listed(c)
    BY <2>1, ListsKept
  <2>3. \A c \in Conn : (Asked(c)' <=> Asked(c)) /\ (Found(c)' <=> Found(c))
    BY <2>1 DEF Asked, Found
  <2>4. QED
    BY <1>1, <2>1, <2>2, <2>3, CallsSame
<1>4. QED
  BY <1>2, <1>3

LEMMA CompletionInit == ASSUME ~Secure PROVE Init => CompletionInv /\ Streams!Init
<1> SUFFICES ASSUME Init PROVE CompletionInv /\ Streams!Init
  OBVIOUS
<1>1. /\ poll_list = <<>> /\ todo = {} /\ funcs = <<>> /\ calls = <<>> /\ made = 0
      /\ \A c \in Conn : write_op_queue[c] = <<>>
  BY DEF Init, StreamInit
<1>2. DOMAIN <<>> = {} /\ Range(<<>>) = {}
  BY DEF Range
<1>3. RegInv /\ SessionInv
  BY RegInit, SessionInit
<1>4. EntriesInv /\ CopyInv
  BY <1>1, <1>2 DEF EntriesInv, CopyInv, Watched
<1>5. QueuesInv /\ SettledInv /\ ~Running("on_handshake")
  BY <1>1, <1>2 DEF QueuesInv, SettledInv, Running
<1>6. Streams!Init
  <2>1. \A c \in Conn : c > made
    BY <1>1 DEF Conn
  <2>2. QED
    BY <1>1, <2>1 DEF Streams!Init, Stages, Told, Running
<1>7. QED
  BY <1>3, <1>4, <1>5, <1>6 DEF CompletionInv, WatchInv

(* Over TCP, when no write has to wait for its socket, every stream that   *)
(* is made completes its connecting once, by one call of connect's         *)
(* callback: however many streams and descriptors there are, whatever      *)
(* fails and however often the Wi-Fi comes back and connect makes another  *)
(* stream beside those that connect.  It is handed on between the          *)
(* resolver's task, the loop's functions, the list and the copy of a pass, *)
(* no answer for another stream takes it away, and nothing completes it a  *)
(* second time (Stream::connect, on_resolved, socket_close, ~Stream,       *)
(* handle_io, and connect and handle_error of the client).                 *)
THEOREM ConnectsCompleteOnce ==
  ASSUME ~Secure, "again" \notin Faults
  PROVE  Spec => CompletesOnce
<1>1. Init => CompletionInv /\ Streams!Init
  BY CompletionInit
<1>2. CompletionInv /\ [Next]_vars => CompletionInv' /\ [Streams!Next]_<<Stages, Told>>
  BY CompletionNext, EffectIsStep DEF CompletionInv, WatchInv, Step
<1>3. QED
  BY <1>1, <1>2, PTL DEF Spec, CompletesOnce, Streams!Spec

=============================================================================
