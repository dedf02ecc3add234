------------------------------- MODULE Update -------------------------------
(***************************************************************************)
(* A firmware update: L/src/ota/OTA.cpp over L/src/http/HttpClient.cpp,    *)
(* from upgrade_async to the restart, with the callback that main.cpp      *)
(* gives it.  A response is some header bytes, the last of which stands    *)
(* for the empty line, and the bytes of the body.                          *)
(***************************************************************************)
EXTENDS ByteStream

CONSTANTS
  Chunk,      (* 512: what read_until_async asks for                       *)
  Piece,      (* 2048: what retrieve_body asks for                         *)
  Responses,  (* what a server may answer: [header, body, declared, status, *)
              (* malformed, arrives]: the number of bytes of both parts,   *)
              (* whether the body's is declared, the status, whether a     *)
              (* number does not parse, and how many bytes ever arrive     *)
  Timeouts    (* whether the command sets a time-out: a set of BOOLEANs    *)

VARIABLES
  phase,      (* where the update is                                       *)
  response,   (* what the server answers                                   *)
  timer,      (* the time-out's timer is armed                             *)
  body_length, body_length_left,
  asked,      (* bytes_to_read of the pending read_body_async              *)
  flash,      (* what was written to the partition                         *)
  result      (* what the callback of main.cpp is called with              *)

updateVars == <<phase, response, timer, body_length, body_length_left, asked, flash, result>>

Larger(m, n) == IF m >= n THEN m ELSE n

-----------------------------------------------------------------------------

Cell(part, i) == [part |-> part, conn |-> 0, of |-> 0, at |-> i, val |-> 0]

EmptyLine == Cell("empty line", 0)

Body(r) == [i \in 1..r.body |-> Cell("body", i)]

Answer(r) ==
  SubSeq([i \in 1..r.header |-> IF i = r.header THEN EmptyLine ELSE Cell("header", i)] \o Body(r),
         1, Smaller(r.arrives, r.header + r.body))

ASSUME UpdateAssumption ==
  /\ Chunk \in Nat \ {0} /\ Piece \in Nat \ {0}
  /\ Responses \subseteq [header : Nat, body : Nat, declared : BOOLEAN, status : Nat,
                          malformed : BOOLEAN, arrives : Nat]
  /\ \A r \in Responses : Answer(r) \in Seq(Byte)

NoResponse == [header |-> 0, body |-> 0]

UpdateInit ==
  /\ response = NoResponse
  /\ timer = FALSE
  /\ body_length = 0 /\ body_length_left = 0 /\ asked = 0
  /\ flash = <<>>
  /\ result = "none"

-----------------------------------------------------------------------------
(* upgrade_async and execute. *)

(* The callback is a bound function: what it does is Restart. *)
Result(r) == phase' = "result" /\ result' = r

(* esp_ota_begin may fail, which is a result too. *)
UpgradeAsync ==
  /\ phase = "idle"
  /\ timer' \in Timeouts
  /\ \/ phase' = "connecting" /\ UNCHANGED result
     \/ Result("error")
  /\ UNCHANGED <<bufferVars, wire, missing, response, body_length, body_length_left, asked, flash>>

(* The stream is connected, then the request is written, then answered. *)
Proceed ==
  /\ \/ phase = "connecting" /\ phase' = "sending" /\ UNCHANGED <<wire, response>>
     \/ /\ phase = "sending" /\ phase' = "head"
        /\ \E r \in Responses : response' = r /\ wire' = Answer(r)
  /\ UNCHANGED <<bufferVars, missing, timer, body_length, body_length_left, asked, flash, result>>

(* handle_error: connecting fails or times out, writing or reading fails,  *)
(* or the server closes the connection.                                    *)
Fails ==
  /\ phase \in {"connecting", "sending", "head", "body"}
  /\ Result("error")
  /\ UNCHANGED <<bufferVars, wire, missing, response, timer, body_length, body_length_left, asked, flash>>

-----------------------------------------------------------------------------
(* The response. *)

HeadIsComplete == \E i \in 1..consume_size : content[i] = EmptyLine

HeadSize == CHOOSE i \in 1..consume_size : content[i] = EmptyLine

ReadHead ==
  /\ phase = "head" /\ ~HeadIsComplete
  /\ Receive(Chunk)
  /\ UNCHANGED <<missing, updateVars>>

(* The exception of reserve, or of a number that does not parse, is caught *)
(* by the main loop: no callback is called.                                *)
HeadTooLarge ==
  /\ phase = "head" /\ ~HeadIsComplete
  /\ Throw(Chunk)
  /\ phase' = "dead"
  /\ UNCHANGED <<wire, missing, response, timer, body_length, body_length_left, asked, flash, result>>

HandleMalformed ==
  /\ phase = "head" /\ HeadIsComplete
  /\ response.malformed
  /\ Take(HeadSize)
  /\ phase' = "dead"
  /\ UNCHANGED <<wire, missing, response, timer, body_length, body_length_left, asked, flash, result>>

(* Slip: the empty line counts for the body. *)
LeftLess(size) == Larger(0, response.body - size - 1)

(* What is still to come once the header is consumed. *)
Left(size) == Larger(0, response.body - size)

(* read_body_async(2048), with so much left and so much in the buffer. *)
ReadBodyAsync(left, size) ==
  /\ phase' = "body"
  /\ asked' = Smaller(left, Larger(0, Piece - size))
  /\ missing' = asked'

HandleResponse ==
  /\ phase = "head" /\ HeadIsComplete
  /\ ~response.malformed
  /\ Take(HeadSize)
  /\ LET size == consume_size - HeadSize IN
     /\ IF response.declared
        THEN body_length' = response.body /\ body_length_left' = Left(size)
        ELSE UNCHANGED <<body_length, body_length_left>>
     /\ \/ /\ response.status # 200
           /\ Result("error")
           /\ UNCHANGED <<missing, asked>>
        \/ /\ response.status = 200
           /\ ReadBodyAsync(body_length_left', size)
           /\ UNCHANGED result
  /\ UNCHANGED <<wire, response, timer, flash>>

-----------------------------------------------------------------------------
(* The body. *)

ReadBody == phase = "body" /\ ReadMissing /\ UNCHANGED updateVars

(* The callback of read_body_async is a bound function. *)
BodyRead ==
  /\ phase = "body" /\ missing = 0
  /\ body_length_left' = body_length_left - asked
  /\ phase' = "write"
  /\ UNCHANGED <<bufferVars, wire, missing, response, timer, body_length, asked, flash, result>>

(* Slip: what follows a piece is not asked for. *)
WrittenOnce == phase' = "written" /\ UNCHANGED <<asked, missing>>

(* The progress divides by the length of the body. *)
Written ==
  IF body_length = 0
  THEN phase' = "restarted" /\ UNCHANGED <<asked, missing>>
  ELSE ReadBodyAsync(body_length_left, 0)

Write ==
  /\ phase = "write" /\ consume_size > 0
  /\ flash' = flash \o content
  /\ Take(consume_size)
  /\ Written
  /\ UNCHANGED <<wire, response, timer, body_length, body_length_left, result>>

WriteFails ==
  /\ phase = "write" /\ consume_size > 0
  /\ Result("error")
  /\ UNCHANGED <<bufferVars, wire, missing, response, timer, body_length, body_length_left, asked, flash>>

BodyIsOver ==
  /\ phase = "write" /\ consume_size = 0
  /\ Result("ok")
  /\ UNCHANGED <<bufferVars, wire, missing, response, timer, body_length, body_length_left, asked, flash>>

-----------------------------------------------------------------------------

(* The callback of firmware_update: commit and restart, or only restart. *)
Restart ==
  /\ phase = "result"
  /\ timer' = (timer /\ result # "ok")
  /\ phase' = "restarted"
  /\ UNCHANGED <<bufferVars, wire, missing, response, body_length, body_length_left, asked, flash, result>>

(* The time-out of the update. *)
TimedOut ==
  /\ timer /\ phase \notin {"none", "restarted"}
  /\ phase' = "restarted"
  /\ UNCHANGED <<bufferVars, wire, missing, response, timer, body_length, body_length_left, asked, flash, result>>

Updating ==
  \/ UpgradeAsync \/ Proceed \/ Fails
  \/ ReadHead \/ HeadTooLarge \/ HandleMalformed \/ HandleResponse
  \/ ReadBody \/ BodyRead \/ Write \/ WriteFails \/ BodyIsOver
  \/ Restart \/ TimedOut

(* Callbacks and functions run, and a time-out comes; connecting has one   *)
(* of its own.  Bytes that arrive are read in the end.                     *)
UpdateFairness ==
  /\ WF_updateVars(UpgradeAsync)
  /\ WF_updateVars(phase = "connecting" /\ (Proceed \/ Fails))
  /\ WF_wire(ReadHead) /\ WF_wire(ReadBody)
  /\ WF_updateVars(HeadTooLarge \/ HandleMalformed \/ HandleResponse)
  /\ WF_updateVars(BodyRead \/ Write \/ WriteFails \/ BodyIsOver \/ Restart)
  /\ WF_updateVars(TimedOut)

-----------------------------------------------------------------------------

(* However the response arrives and however it is split, the update is     *)
(* committed only when the partition holds the whole body and nothing      *)
(* else, or when the server sent none with the header and declared no      *)
(* length (handle_response, read_body_async, retrieve_body).               *)
CommitsWholeBody ==
  result = "ok" =>
    \/ flash = Body(response)
    \/ ~response.declared /\ flash = <<>>

Stalled == phase \in {"dead", "sending"} \/ (wire = <<>> /\ phase \in {"head", "body"})

(* An update that has begun, with MQTT disconnected for it, ends in a      *)
(* restart; without a time-out of its own it may also stay for ever where  *)
(* the server falls silent, or where an exception has left no callback     *)
(* (handle_error, handle_response, retrieve_body).                         *)
UpdateEnds ==
  \/ [](phase = "none")
  \/ <>(phase = "restarted")
  \/ <>[](~timer /\ Stalled)

=============================================================================
