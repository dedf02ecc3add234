--------------------------- MODULE ReadingProofs ---------------------------
(***************************************************************************)
(* Proofs about StreamBuffer, for any sizes of the buffer and any bytes:   *)
(* its offsets stay within the vector, and what a reader sees of it is a   *)
(* queue of bytes.  And about the two readers of it.  Update: for any set  *)
(* of responses, however one arrives, what is committed is its whole body. *)
(* Framing: for any packets, however their bytes arrive, those that are    *)
(* handled are those that were sent.                                       *)
(***************************************************************************)
EXTENDS Reading, SequenceTheorems, WellFoundedInduction, TLAPS

(* The vector, and the bytes that are not consumed. *)
LEMMA BufferTypes ==
  ASSUME BufferTypeOK
  PROVE  /\ Len(buffer) \in Nat /\ buffer \in [1..Len(buffer) -> Byte]
         /\ gptr \in Nat /\ pptr \in Nat /\ gptr <= pptr /\ pptr <= Len(buffer)
         /\ consume_size \in 0..Len(buffer) - gptr
         /\ room \in 0..Len(buffer) /\ room = Len(buffer) - consume_size
         /\ available \in 0..room /\ available = Len(buffer) - gptr - consume_size
         /\ pptr = gptr + consume_size
BY LenProperties DEF BufferTypeOK, consume_size, available, room

LEMMA Cells ==
  ASSUME NEW S, NEW n \in Nat, NEW f \in [1..n -> S]
  PROVE  f \in Seq(S) /\ Len(f) = n
<1>1. f \in Seq(S)
  BY SeqDef
<1>2. QED
  BY <1>1, LenProperties

LEMMA Between ==
  ASSUME NEW b \in Seq(Byte), NEW g \in Nat, NEW p \in Nat, g <= p, p <= Len(b)
  PROVE  /\ SubSeq(b, g + 1, p) \in Seq(Byte) /\ Len(SubSeq(b, g + 1, p)) = p - g
         /\ \A i \in 1..p - g : SubSeq(b, g + 1, p)[i] = b[g + i]
<1> DEFINE m == g + 1
<1>1. \A i \in m..p : b[i] \in Byte
  <2>1. \A i \in m..p : i \in 1..Len(b)
    BY LenProperties
  <2>2. QED
    BY <2>1, ElementOfSeq
<1>2. m \in Int /\ p \in Int
  OBVIOUS
<1> HIDE DEF m
<1>3. /\ SubSeq(b, m, p) \in Seq(Byte)
      /\ Len(SubSeq(b, m, p)) = IF m <= p THEN p - m + 1 ELSE 0
      /\ \A i \in 1..p - m + 1 : SubSeq(b, m, p)[i] = b[m + i - 1]
  BY <1>1, <1>2, SubSeqProperties
<1>4. /\ p - m + 1 = p - g
      /\ (IF m <= p THEN p - m + 1 ELSE 0) = p - g
      /\ \A i \in 1..p - g : m + i - 1 = g + i
  BY DEF m
<1>5. QED
  BY <1>3, <1>4 DEF m

LEMMA Content ==
  ASSUME BufferTypeOK
  PROVE  /\ content \in Seq(Byte) /\ Len(content) = consume_size
         /\ \A i \in 1..consume_size : content[i] = buffer[gptr + i]
<1>1. buffer \in Seq(Byte) /\ gptr \in Nat /\ pptr \in Nat /\ gptr <= pptr /\ pptr <= Len(buffer)
  BY BufferTypes DEF BufferTypeOK
<1>2. QED
  BY <1>1, Between DEF content, consume_size

LEMMA NextContent ==
  ASSUME BufferTypeOK'
  PROVE  /\ content' \in Seq(Byte) /\ Len(content') = consume_size'
         /\ \A i \in 1..consume_size' : content'[i] = buffer'[gptr' + i]
<1>1. /\ buffer' \in Seq(Byte) /\ gptr' \in Nat /\ pptr' \in Nat
      /\ gptr' <= pptr' /\ pptr' <= Len(buffer')
  BY LenProperties DEF BufferTypeOK
<1>2. QED
  BY <1>1, Between DEF content, consume_size

(* reserve keeps the bytes that are not consumed, and makes room for n.    *)
LEMMA MovedBytes ==
  ASSUME BufferTypeOK
  PROVE  /\ Moved \in [1..Len(buffer) -> Byte] /\ Moved \in Seq(Byte)
         /\ Len(Moved) = Len(buffer)
         /\ \A i \in 1..consume_size : Moved[i] = buffer[gptr + i]
<1>1. /\ Moved \in [1..Len(buffer) -> Byte]
      /\ \A i \in 1..consume_size : Moved[i] = buffer[gptr + i]
  BY BufferTypes, SMTT(30) DEF Moved
<1>2. QED
  BY <1>1, Cells, BufferTypes

LEMMA GrownBytes ==
  ASSUME BufferTypeOK, NEW m \in Nat, Len(buffer) <= m
  PROVE  /\ Grown(Moved, m) \in [1..m -> Byte]
         /\ \A i \in 1..consume_size : Grown(Moved, m)[i] = buffer[gptr + i]
BY BufferTypes, MovedBytes, BufferAssumption DEF Grown

LEMMA ReservedBytes ==
  ASSUME BufferTypeOK, NEW n \in Nat
  PROVE  /\ Len(Reserved(n)) \in Nat /\ Reserved(n) \in [1..Len(Reserved(n)) -> Byte]
         /\ ReservedAt(n) \in Nat
         /\ ReservedAt(n) + consume_size + n <= Len(Reserved(n))
         /\ \A i \in 1..consume_size : Reserved(n)[ReservedAt(n) + i] = buffer[gptr + i]
<1>1. CASE ~Moves(n)
  BY <1>1, BufferTypes DEF Moves, Reserved, ReservedAt
<1>2. CASE Moves(n) /\ room >= n
  BY <1>2, BufferTypes, MovedBytes DEF Reserved, ReservedAt
<1>3. CASE Moves(n) /\ ~(room >= n)
  <2> DEFINE m == Len(buffer) + n - room
  <2>1. m \in Nat /\ Len(buffer) <= m /\ consume_size + n = m
    BY <1>3, BufferTypes, SMTT(30)
  <2>2. Reserved(n) = Grown(Moved, m) /\ ReservedAt(n) = 0
    BY <1>3 DEF Reserved, ReservedAt
  <2>3. Len(Reserved(n)) = m
    BY <2>1, <2>2, GrownBytes, Cells
  <2>4. /\ Reserved(n) \in [1..Len(Reserved(n)) -> Byte]
        /\ \A i \in 1..consume_size : Reserved(n)[i] = buffer[gptr + i]
    BY <2>1, <2>2, <2>3, GrownBytes
  <2>5. \A i \in 1..consume_size : 0 + i = i
    BY BufferTypes
  <2>6. QED
    BY <2>1, <2>2, <2>3, <2>4, <2>5, BufferTypes, SMTT(30)
<1>4. QED
  BY <1>1, <1>2, <1>3

-----------------------------------------------------------------------------

(* What a fill leaves: the old bytes, and the new ones behind them. *)
LEMMA FillBytes ==
  ASSUME BufferTypeOK, NEW n \in Nat, NEW bytes \in Seq(Byte), Fill(n, bytes)
  PROVE  /\ BufferTypeOK'
         /\ consume_size' = consume_size + Len(bytes)
         /\ \A i \in 1..consume_size : buffer'[gptr' + i] = buffer[gptr + i]
<1> DEFINE R == Reserved(n)
           at == ReservedAt(n) + consume_size
<1>1. /\ at \in Nat /\ Len(bytes) \in 0..n /\ at + Len(bytes) <= Len(R) /\ Len(R) \in Nat
      /\ gptr' \in Nat /\ gptr' = ReservedAt(n) /\ pptr' = at + Len(bytes)
      /\ consume_size \in Nat /\ gptr' <= pptr'
  <2>1. Len(bytes) \in 0..n
    BY LenProperties DEF Fill
  <2>2. gptr' = ReservedAt(n) /\ pptr' = at + Len(bytes)
    BY DEF Fill
  <2>3. /\ consume_size \in Nat /\ ReservedAt(n) \in Nat /\ Len(R) \in Nat
        /\ at + n <= Len(R)
    BY BufferTypes, ReservedBytes
  <2>4. QED
    BY <2>1, <2>2, <2>3
<1>2. \A i \in 1..Len(R) : i > at /\ i <= pptr' => bytes[i - at] \in Byte
  BY <1>1, ElementOfSeq, SMTT(30)
<1>3. buffer' = [i \in 1..Len(R) |->
        IF i > at /\ i <= pptr' THEN bytes[i - at] ELSE R[i]]
  <2>1. \A i \in 1..Len(R) : i - at = i - ReservedAt(n) - consume_size
    BY <1>1, ReservedBytes
  <2>2. QED
    BY <2>1 DEF Fill
<1>4. buffer' \in [1..Len(R) -> Byte]
  BY <1>2, <1>3, ReservedBytes
<1>5. buffer' \in Seq(Byte) /\ Len(buffer') = Len(R)
  BY <1>1, <1>4, Cells
<1>6. BufferTypeOK'
  BY <1>1, <1>5, SMTT(30) DEF BufferTypeOK, Fill
<1>7. consume_size' = consume_size + Len(bytes)
  <2>1. consume_size' = pptr' - gptr'
    BY DEF consume_size
  <2>2. QED
    BY <1>1, <2>1
<1>8. \A i \in 1..consume_size : buffer'[gptr' + i] = buffer[gptr + i]
  <2> SUFFICES ASSUME NEW i \in 1..consume_size
               PROVE  buffer'[gptr' + i] = buffer[gptr + i]
    OBVIOUS
  <2>1. gptr' + i \in 1..Len(R) /\ ~(gptr' + i > at)
    BY <1>1, SMTT(30)
  <2>2. buffer'[gptr' + i] = R[gptr' + i]
    BY <1>3, <2>1
  <2>3. R[ReservedAt(n) + i] = buffer[gptr + i]
    BY ReservedBytes
  <2>4. QED
    BY <1>1, <2>2, <2>3
<1>9. QED
  BY <1>6, <1>7, <1>8

LEMMA TakeBytes ==
  ASSUME BufferTypeOK, NEW n \in Nat, Take(n)
  PROVE  /\ BufferTypeOK' /\ buffer' = buffer
         /\ Smaller(n, consume_size) \in 0..consume_size
         /\ gptr' = gptr + Smaller(n, consume_size)
         /\ consume_size' = consume_size - Smaller(n, consume_size)
<1>1. /\ Smaller(n, consume_size) \in 0..consume_size
      /\ gptr' = gptr + Smaller(n, consume_size) /\ pptr' = pptr
      /\ buffer' = buffer /\ broken' = broken
  BY BufferTypes DEF Take, Smaller
<1>2. consume_size' = consume_size - Smaller(n, consume_size)
  <2>1. consume_size' = pptr' - gptr' /\ consume_size = pptr - gptr
    BY DEF consume_size
  <2>2. QED
    BY <1>1, <2>1, BufferTypes
<1>3. BufferTypeOK'
  BY <1>1, BufferTypes DEF BufferTypeOK
<1>4. QED
  BY <1>1, <1>2, <1>3

LEMMA ThrowBytes ==
  ASSUME BufferTypeOK, NEW n \in Nat, Throw(n)
  PROVE  /\ BufferTypeOK' /\ consume_size' = consume_size
         /\ ~broken' => ~broken /\ \A i \in 1..consume_size : buffer'[gptr' + i] = buffer[gptr + i]
<1>1. buffer' = Moved /\ gptr' = gptr /\ pptr' = pptr
  BY DEF Throw
<1>2. BufferTypeOK' /\ consume_size' = consume_size
  BY <1>1, MovedBytes DEF BufferTypeOK, consume_size, Throw
<1>3. ASSUME ~broken' PROVE ~broken /\ (gptr = 0 \/ consume_size = 0)
  <2>1. broken \in BOOLEAN /\ broken' = (broken \/ (gptr > 0 /\ consume_size > 0))
    BY DEF Throw, BufferTypeOK
  <2>2. ~broken /\ ~(gptr > 0 /\ consume_size > 0)
    BY <1>3, <2>1, Zenon
  <2>3. QED
    BY <2>2, BufferTypes
<1>4. ASSUME ~broken', NEW i \in 1..consume_size
      PROVE  buffer'[gptr' + i] = buffer[gptr + i]
  <2>1. gptr = 0
    BY <1>3, <1>4, BufferTypes
  <2>2. gptr' + i = i
    BY <1>1, <2>1, BufferTypes
  <2>3. QED
    BY <1>1, <2>2, MovedBytes
<1>5. QED
  BY <1>2, <1>3, <1>4

-----------------------------------------------------------------------------

LEMMA InitBuffer == BufferInit => BufferTypeOK
<1> SUFFICES ASSUME BufferInit
             PROVE  BufferTypeOK
  OBVIOUS
<1> DEFINE n == Smaller(MaxBuffer, Increase)
<1>1. n \in Nat
  BY BufferAssumption DEF Smaller
<1>2. buffer \in [1..n -> Byte]
  BY BufferAssumption DEF BufferInit
<1>3. buffer \in Seq(Byte) /\ Len(buffer) = n
  BY <1>1, <1>2, Cells
<1>4. gptr = 0 /\ pptr = 0 /\ broken \in BOOLEAN
  BY DEF BufferInit
<1> HIDE DEF n
<1>5. QED
  BY <1>1, <1>3, <1>4 DEF BufferTypeOK

LEMMA BufferStep == BufferTypeOK /\ [BufferNext]_bufferVars => BufferTypeOK'
<1> SUFFICES ASSUME BufferTypeOK, [BufferNext]_bufferVars
             PROVE  BufferTypeOK'
  OBVIOUS
<1>1. CASE BufferNext
  BY <1>1, FillBytes, TakeBytes, ThrowBytes DEF BufferNext
<1>2. CASE UNCHANGED bufferVars
  BY <1>2 DEF bufferVars, BufferTypeOK
<1>3. QED
  BY <1>1, <1>2

(* Whatever is asked of it, the offsets of the buffer stay in order and    *)
(* within the vector (reserve, produce_commit, consume_commit), also after *)
(* reserve has thrown.                                                     *)
THEOREM OffsetsStayInside == BufferSpec => []BufferTypeOK
BY InitBuffer, BufferStep, PTL DEF BufferSpec

-----------------------------------------------------------------------------

LEMMA FillProduces ==
  ASSUME BufferTypeOK, NEW n \in Nat, NEW bytes \in Seq(Byte), Fill(n, bytes)
  PROVE  Q!Produce
<1>1. /\ content \in Seq(Byte) /\ Len(content) = consume_size
      /\ \A i \in 1..consume_size : content[i] = buffer[gptr + i]
  BY Content
<1>2. BufferTypeOK'
  BY FillBytes
<1>3. /\ content' \in Seq(Byte) /\ Len(content') = consume_size'
      /\ \A i \in 1..consume_size' : content'[i] = buffer'[gptr' + i]
  BY <1>2, NextContent
<1>4. /\ consume_size' = consume_size + Len(bytes) /\ Len(bytes) \in Nat /\ consume_size \in Nat
      /\ \A i \in 1..consume_size : buffer'[gptr' + i] = buffer[gptr + i]
  BY FillBytes, BufferTypes, LenProperties
<1>5. \A i \in 1..consume_size : content'[i] = content[i]
  BY <1>1, <1>3, <1>4, SMTT(30)
<1> DEFINE prefix == SubSeq(content', 1, consume_size)
<1>6. /\ prefix \in Seq(Byte) /\ Len(prefix) = consume_size
      /\ \A i \in 1..consume_size : prefix[i] = content'[i]
  <2>1. \A i \in 1..consume_size : content'[i] \in Byte
    BY <1>1, <1>5, ElementOfSeq
  <2>2. /\ prefix \in Seq(Byte)
        /\ Len(prefix) = IF 1 <= consume_size THEN consume_size - 1 + 1 ELSE 0
        /\ \A i \in 1..consume_size - 1 + 1 : prefix[i] = content'[1 + i - 1]
    BY <1>4, <2>1, SubSeqProperties
  <2>3. QED
    BY <1>4, <2>2
<1>7. prefix = content
  BY <1>1, <1>5, <1>6, SeqEqual
<1>8. broken' = broken
  BY DEF Fill
<1>9. QED
  BY <1>1, <1>3, <1>4, <1>7, <1>8 DEF Q!Produce

LEMMA TakeConsumes ==
  ASSUME BufferTypeOK, NEW n \in Nat, Take(n)
  PROVE  Q!Consume
<1> DEFINE m == Smaller(n, consume_size)
           rest == SubSeq(content, m + 1, Len(content))
<1>1. /\ content \in Seq(Byte) /\ Len(content) = consume_size
      /\ \A i \in 1..consume_size : content[i] = buffer[gptr + i]
  BY Content
<1>2. /\ BufferTypeOK' /\ m \in 0..consume_size /\ consume_size \in Nat /\ gptr \in Nat
      /\ buffer' = buffer /\ gptr' = gptr + m /\ consume_size' = consume_size - m
  BY TakeBytes, BufferTypes
<1>3. /\ content' \in Seq(Byte) /\ Len(content') = consume_size - m
      /\ \A i \in 1..consume_size - m : content'[i] = buffer[(gptr + m) + i]
  BY <1>2, NextContent
<1> HIDE DEF m
<1>4. /\ rest \in Seq(Byte) /\ Len(rest) = consume_size - m
      /\ \A i \in 1..consume_size - m : rest[i] = content[m + i]
  <2>1. m \in Nat /\ Len(content) \in Nat /\ m <= Len(content)
    BY <1>1, <1>2
  <2>2. QED
    BY <1>1, <2>1, Between
<1>5. \A i \in 1..consume_size - m : content'[i] = rest[i]
  <2> SUFFICES ASSUME NEW i \in 1..consume_size - m
               PROVE  content'[i] = rest[i]
    OBVIOUS
  <2>1. m + i \in 1..consume_size /\ (gptr + m) + i = gptr + (m + i)
    BY <1>2
  <2>2. content[m + i] = buffer[gptr + (m + i)]
    BY <1>1, <2>1
  <2>3. QED
    BY <1>3, <1>4, <2>1, <2>2
<1>6. content' = rest
  BY <1>3, <1>4, <1>5, SeqEqual
<1>7. broken' = broken
  BY DEF Take
<1>8. QED
  BY <1>1, <1>2, <1>6, <1>7 DEF Q!Consume

LEMMA ThrowBreaks ==
  ASSUME BufferTypeOK, NEW n \in Nat, Throw(n)
  PROVE  Q!Break \/ UNCHANGED <<content, broken>>
<1>1. CASE broken'
  BY <1>1 DEF Q!Break, Throw
<1>2. CASE ~broken'
  <2>1. /\ content \in Seq(Byte) /\ Len(content) = consume_size
        /\ \A i \in 1..consume_size : content[i] = buffer[gptr + i]
    BY Content
  <2>2. /\ BufferTypeOK' /\ consume_size' = consume_size /\ ~broken
        /\ \A i \in 1..consume_size : buffer'[gptr' + i] = buffer[gptr + i]
    BY <1>2, ThrowBytes
  <2>3. /\ content' \in Seq(Byte) /\ Len(content') = consume_size
        /\ \A i \in 1..consume_size : content'[i] = buffer'[gptr' + i]
    BY <2>2, NextContent
  <2>4. content' = content
    BY <2>1, <2>2, <2>3, SeqEqual
  <2>5. broken = FALSE /\ broken' = FALSE
    BY <1>2, <2>2 DEF BufferTypeOK
  <2>6. QED
    BY <2>4, <2>5
<1>3. QED
  BY <1>1, <1>2

(* A broken buffer stays broken, and each other step is one of the queue.  *)
LEMMA StepOfQueue ==
  ASSUME BufferTypeOK, [BufferNext]_bufferVars
  PROVE  [Q!Next]_<<content, broken>>
<1>1. ASSUME NEW n \in Nat, NEW bytes \in Seq(Byte), Fill(n, bytes)
      PROVE  [Q!Next]_<<content, broken>>
  <2>1. Q!Produce /\ broken' = broken
    BY <1>1, FillProduces DEF Fill
  <2>2. QED
    BY <2>1 DEF Q!Next, Q!Broken
<1>2. ASSUME NEW n \in Nat, Take(n)
      PROVE  [Q!Next]_<<content, broken>>
  <2>1. Q!Consume /\ broken' = broken
    BY <1>2, TakeConsumes DEF Take
  <2>2. QED
    BY <2>1 DEF Q!Next, Q!Broken
<1>3. ASSUME NEW n \in Nat, Throw(n)
      PROVE  [Q!Next]_<<content, broken>>
  <2>1. Q!Break \/ UNCHANGED <<content, broken>>
    BY <1>3, ThrowBreaks
  <2>2. QED
    BY <2>1 DEF Q!Next, Q!Broken, Q!Break
<1>4. CASE UNCHANGED bufferVars
  BY <1>4 DEF bufferVars, content
<1>5. QED
  BY <1>1, <1>2, <1>3, <1>4 DEF BufferNext

LEMMA StartOfQueue == BufferInit => Q!Init
<1> SUFFICES ASSUME BufferInit
             PROVE  Q!Init
  OBVIOUS
<1>1. BufferTypeOK /\ consume_size = 0
  BY InitBuffer DEF BufferInit, consume_size
<1>2. content \in Seq(Byte) /\ Len(content) = 0
  BY <1>1, Content
<1>3. content = <<>>
  BY <1>2, EmptySeq
<1>4. QED
  BY <1>3 DEF Q!Init, BufferInit

(* What is consumed is what was produced, in order and once, for any       *)
(* vector, any requests and any moves of the bytes by reserve, until an    *)
(* exception breaks the buffer.                                            *)
THEOREM BufferImplementsByteQueue == BufferSpec => BufferIsByteQueue
<1>1. BufferInit => Q!Init
  BY StartOfQueue
<1>2. BufferTypeOK /\ [BufferNext]_bufferVars => [Q!Next]_<<content, broken>>
  BY StepOfQueue
<1>3. QED
  BY <1>1, <1>2, OffsetsStayInside, PTL DEF BufferSpec, BufferIsByteQueue, Q!Spec

-----------------------------------------------------------------------------

(* What a reader sees after a fill and after a take.                       *)
LEMMA FillIs ==
  ASSUME BufferTypeOK, NEW n \in Nat, NEW bytes \in Seq(Byte), Fill(n, bytes)
  PROVE  /\ BufferTypeOK' /\ consume_size' = consume_size + Len(bytes)
         /\ \A i \in 1..consume_size : content'[i] = content[i]
         /\ \A i \in 1..Len(bytes) : content'[consume_size + i] = bytes[i]
<1>1. /\ consume_size \in Nat /\ Len(bytes) \in Nat
      /\ \A i \in 1..consume_size : content[i] = buffer[gptr + i]
  BY Content, BufferTypes, LenProperties
<1>2. /\ BufferTypeOK' /\ consume_size' = consume_size + Len(bytes)
      /\ \A i \in 1..consume_size : buffer'[gptr' + i] = buffer[gptr + i]
  BY FillBytes
<1>3. \A i \in 1..consume_size' : content'[i] = buffer'[gptr' + i]
  BY <1>2, NextContent
<1>4. \A i \in 1..consume_size : content'[i] = content[i]
  BY <1>1, <1>2, <1>3, SMTT(30)
<1>5. ASSUME NEW i \in 1..Len(bytes)
      PROVE  content'[consume_size + i] = bytes[i]
  <2> DEFINE at == ReservedAt(n) + consume_size
             R == Reserved(n)
  <2>1. /\ ReservedAt(n) \in Nat /\ Len(R) \in Nat /\ at + n <= Len(R) /\ Len(bytes) <= n
        /\ gptr' = ReservedAt(n) /\ pptr' = at + Len(bytes)
    BY ReservedBytes DEF Fill
  <2>2. gptr' + (consume_size + i) = at + i /\ at + i \in 1..Len(R) /\ at + i > at /\ at + i <= pptr'
        /\ at + i - ReservedAt(n) - consume_size = i /\ consume_size + i \in 1..consume_size'
    BY <1>1, <1>2, <2>1, SMTT(30)
  <2>3. buffer' = [k \in 1..Len(R) |->
          IF k > at /\ k <= pptr' THEN bytes[k - ReservedAt(n) - consume_size] ELSE R[k]]
    BY DEF Fill
  <2> HIDE DEF at, R
  <2>j. PICK j \in 1..Len(R) : j = at + i
    BY <2>2
  <2>4. buffer'[j] = bytes[j - ReservedAt(n) - consume_size]
    <3>1. j \in 1..Len(R) /\ j > at /\ j <= pptr'
      BY <2>2, <2>j
    <3>2. QED
      BY <2>3, <3>1
  <2>5. j - ReservedAt(n) - consume_size = i
    BY <1>1, <2>1, <2>j, SMTT(30) DEF at
  <2>a. gptr' + (consume_size + i) = j
    BY <2>2, <2>j, Zenon
  <2>6. content'[consume_size + i] = buffer'[gptr' + (consume_size + i)]
    BY <1>3, <2>2
  <2>7. QED
    BY <2>4, <2>5, <2>a, <2>6, Zenon
<1>6. QED
  BY <1>2, <1>4, <1>5

LEMMA TakeIs ==
  ASSUME BufferTypeOK, NEW n \in 0..consume_size, Take(n)
  PROVE  /\ BufferTypeOK' /\ consume_size \in Nat /\ consume_size' = consume_size - n
         /\ \A i \in 1..consume_size - n : content'[i] = content[n + i]
<1>1. /\ consume_size \in Nat /\ gptr \in Nat /\ n \in Nat
      /\ \A i \in 1..consume_size : content[i] = buffer[gptr + i]
  BY Content, BufferTypes
<1>2. Smaller(n, consume_size) = n
  BY <1>1 DEF Smaller
<1>3. /\ BufferTypeOK' /\ buffer' = buffer
      /\ gptr' = gptr + n /\ consume_size' = consume_size - n
  BY <1>1, <1>2, TakeBytes
<1>4. \A i \in 1..consume_size' : content'[i] = buffer'[gptr' + i]
  BY <1>3, NextContent
<1>5. ASSUME NEW i \in 1..consume_size - n
      PROVE  content'[i] = content[n + i]
  <2>1. n + i \in 1..consume_size /\ gptr' + i = gptr + (n + i) /\ i \in 1..consume_size'
    BY <1>1, <1>3
  <2>2. content'[i] = buffer[gptr + (n + i)]
    BY <1>3, <1>4, <2>1
  <2>3. QED
    BY <1>1, <2>1, <2>2
<1>6. QED
  BY <1>1, <1>3, <1>5

-----------------------------------------------------------------------------

(* The i-th byte of a whole response.                                      *)
Expected(r, i) ==
  IF i < r.header THEN Cell("header", i) ELSE IF i = r.header THEN EmptyLine ELSE Cell("body", i - r.header)

(* The buffer and then the wire hold the response from offset off on, as   *)
(* far as it arrives.                                                      *)
Follows(off) ==
  /\ wire \in Seq(Byte)
  /\ off + consume_size + Len(wire) <= response.header + response.body
  /\ \A i \in 1..consume_size : content[i] = Expected(response, off + i)
  /\ \A i \in 1..Len(wire) : wire[i] = Expected(response, off + consume_size + i)

LEMMA WireSplit ==
  ASSUME NEW w \in Seq(Byte), NEW k \in 0..Len(w)
  PROVE  /\ SubSeq(w, 1, k) \in Seq(Byte) /\ Len(SubSeq(w, 1, k)) = k
         /\ \A i \in 1..k : SubSeq(w, 1, k)[i] = w[i]
         /\ SubSeq(w, k + 1, Len(w)) \in Seq(Byte) /\ Len(SubSeq(w, k + 1, Len(w))) = Len(w) - k
         /\ \A i \in 1..Len(w) - k : SubSeq(w, k + 1, Len(w))[i] = w[k + i]
         /\ Len(w) \in Nat /\ k \in Nat /\ k <= Len(w)
<1>1. Len(w) \in Nat /\ k \in Nat /\ k <= Len(w)
  BY LenProperties
<1>2. /\ SubSeq(w, k + 1, Len(w)) \in Seq(Byte) /\ Len(SubSeq(w, k + 1, Len(w))) = Len(w) - k
      /\ \A i \in 1..Len(w) - k : SubSeq(w, k + 1, Len(w))[i] = w[k + i]
  BY <1>1, Between
<1>3. /\ SubSeq(w, 0 + 1, k) \in Seq(Byte) /\ Len(SubSeq(w, 0 + 1, k)) = k - 0
      /\ \A i \in 1..k - 0 : SubSeq(w, 0 + 1, k)[i] = w[0 + i]
  <2>1. 0 \in Nat /\ 0 <= k
    BY <1>1
  <2>2. QED
    BY <1>1, <2>1, Between
<1>4. 0 + 1 = 1 /\ k - 0 = k /\ \A i \in 1..k : 0 + i = i
  BY <1>1
<1>5. QED
  BY <1>1, <1>2, <1>3, <1>4

(* Bytes of the wire go to the end of the buffer. *)
LEMMA ReceiveFollows ==
  ASSUME BufferTypeOK, NEW n \in Nat, Receive(n), NEW off \in Nat, Follows(off),
         response' = response, response.header \in Nat, response.body \in Nat
  PROVE  /\ BufferTypeOK' /\ consume_size \in Nat
         /\ \E k \in 0..n : consume_size' = consume_size + k /\ k = Len(wire) - Len(wire')
         /\ /\ wire' \in Seq(Byte)
            /\ off + consume_size' + Len(wire') <= response.header + response.body
            /\ \A i \in 1..consume_size' : content'[i] = Expected(response, off + i)
            /\ \A i \in 1..Len(wire') : wire'[i] = Expected(response, off + consume_size' + i)
<1>1. PICK k \in 0..Smaller(n, Len(wire)) :
        /\ Fill(n, SubSeq(wire, 1, k))
        /\ wire' = SubSeq(wire, k + 1, Len(wire))
  BY DEF Receive
<1>2. wire \in Seq(Byte) /\ Len(wire) \in Nat /\ consume_size \in Nat
  BY BufferTypes, LenProperties DEF Follows
<1>3. k \in 0..Len(wire) /\ k \in 0..n /\ k \in Nat
  BY <1>2 DEF Smaller
<1> DEFINE bytes == SubSeq(wire, 1, k)
           rest == SubSeq(wire, k + 1, Len(wire))
<1>4. /\ bytes \in Seq(Byte) /\ Len(bytes) = k /\ \A i \in 1..k : bytes[i] = wire[i]
      /\ rest \in Seq(Byte) /\ Len(rest) = Len(wire) - k
      /\ \A i \in 1..Len(wire) - k : rest[i] = wire[k + i]
  BY <1>2, <1>3, WireSplit
<1>5. Fill(n, bytes) /\ wire' = rest
  BY <1>1
<1> HIDE DEF bytes, rest
<1>6. /\ BufferTypeOK' /\ consume_size' = consume_size + k
      /\ \A i \in 1..consume_size : content'[i] = content[i]
      /\ \A i \in 1..k : content'[consume_size + i] = bytes[i]
  BY <1>4, <1>5, FillIs
<1>7. /\ off + consume_size + Len(wire) <= response.header + response.body
      /\ \A i \in 1..consume_size : content[i] = Expected(response, off + i)
      /\ \A i \in 1..Len(wire) : wire[i] = Expected(response, off + consume_size + i)
  BY DEF Follows
<1>8. ASSUME NEW i \in 1..consume_size'
      PROVE  content'[i] = Expected(response, off + i)
  <2>1. CASE i <= consume_size
    BY <1>2, <1>3, <1>6, <1>7, <2>1
  <2>2. CASE i > consume_size
    <3>1. i - consume_size \in 1..k /\ i - consume_size \in 1..Len(wire)
          /\ consume_size + (i - consume_size) = i /\ off + consume_size + (i - consume_size) = off + i
      BY <1>2, <1>3, <1>6, <2>2
    <3>2. content'[i] = wire[i - consume_size]
      BY <1>4, <1>6, <3>1
    <3>3. QED
      BY <1>7, <3>1, <3>2
  <2>3. QED
    BY <1>2, <1>3, <1>6, <2>1, <2>2
<1>9. ASSUME NEW i \in 1..Len(wire')
      PROVE  wire'[i] = Expected(response, off + consume_size' + i)
  <2>1. i \in 1..Len(wire) - k /\ k + i \in 1..Len(wire)
        /\ off + consume_size + (k + i) = off + consume_size' + i
    BY <1>2, <1>3, <1>4, <1>5, <1>6
  <2>2. wire'[i] = wire[k + i]
    BY <1>4, <1>5, <2>1
  <2>3. QED
    BY <1>7, <2>1, <2>2
<1>10. off + consume_size' + Len(wire') <= response.header + response.body
       /\ k = Len(wire) - Len(wire')
  BY <1>2, <1>3, <1>4, <1>5, <1>6, <1>7
<1>11. QED
  BY <1>2, <1>3, <1>4, <1>5, <1>6, <1>8, <1>9, <1>10

(* Bytes are taken from the front. *)
LEMMA TakeFollows ==
  ASSUME BufferTypeOK, NEW n \in 0..consume_size, Take(n), NEW off \in Nat, Follows(off),
         response' = response, wire' = wire, response.header \in Nat, response.body \in Nat
  PROVE  /\ BufferTypeOK' /\ consume_size \in Nat /\ consume_size' = consume_size - n
         /\ \A i \in 1..consume_size' : content'[i] = Expected(response, off + n + i)
         /\ \A i \in 1..Len(wire') : wire'[i] = Expected(response, off + n + consume_size' + i)
         /\ wire' \in Seq(Byte) /\ off + n + consume_size' + Len(wire') <= response.header + response.body
<1>1. /\ BufferTypeOK' /\ consume_size \in Nat /\ consume_size' = consume_size - n
      /\ \A i \in 1..consume_size - n : content'[i] = content[n + i]
  BY TakeIs
<1>2. /\ wire \in Seq(Byte) /\ Len(wire) \in Nat
      /\ off + consume_size + Len(wire) <= response.header + response.body
      /\ \A i \in 1..consume_size : content[i] = Expected(response, off + i)
      /\ \A i \in 1..Len(wire) : wire[i] = Expected(response, off + consume_size + i)
  BY LenProperties DEF Follows
<1>3. ASSUME NEW i \in 1..consume_size'
      PROVE  content'[i] = Expected(response, off + n + i)
  <2>1. i \in 1..consume_size - n /\ n + i \in 1..consume_size /\ off + (n + i) = off + n + i
    BY <1>1
  <2>2. QED
    BY <1>1, <1>2, <2>1
<1>4. off + n + consume_size' = off + consume_size
  BY <1>1
<1>5. QED
  BY <1>1, <1>2, <1>3, <1>4

-----------------------------------------------------------------------------
(* The inductive invariant: off is the number of bytes that were consumed, *)
(* which is the header's while there is no body, and then the header's and *)
(* the partition's.                                                        *)

(* Before the response. *)
Fresh == wire = <<>> /\ consume_size = 0 /\ flash = <<>> /\ body_length = 0 /\ body_length_left = 0

(* While the header is read. *)
HeadInv ==
  /\ response \in Responses /\ Follows(0)
  /\ flash = <<>> /\ body_length = 0 /\ body_length_left = 0

(* The partition holds the body's first bytes. *)
Flashed == flash \in Seq(Byte) /\ \A i \in 1..Len(flash) : flash[i] = Cell("body", i)

(* While the body is read and written. *)
BodyInv ==
  /\ response \in Responses
  /\ Flashed /\ Follows(response.header + Len(flash))
  /\ body_length_left \in Nat
  /\ ~response.declared => body_length = 0 /\ body_length_left = 0 /\ flash = <<>>

(* A pending read_body_async: the body is what is left but not asked for,  *)
(* what is missing, what the partition and what the buffer hold.           *)
AskedInv ==
  /\ asked \in 0..body_length_left /\ missing \in 0..asked /\ asked - missing <= consume_size
  /\ response.declared =>
       body_length_left - (asked - missing) + Len(flash) + consume_size = response.body
  /\ asked = 0 /\ consume_size = 0 => body_length_left = 0

(* Its callback. *)
GotInv ==
  /\ response.declared => body_length_left + Len(flash) + consume_size = response.body
  /\ consume_size = 0 => body_length_left = 0

UpInv ==
  /\ CommitsWholeBody
  /\ phase \notin {"result", "restarted"} => result = "none"
  /\ phase \in {"idle", "connecting", "sending"} => Fresh
  /\ phase = "head" => HeadInv
  /\ phase \in {"body", "write"} => BodyInv
  /\ phase = "body" => AskedInv
  /\ phase = "write" => GotInv

-----------------------------------------------------------------------------

LEMMA ResponseFields ==
  ASSUME NEW r \in Responses
  PROVE  r.header \in Nat /\ r.body \in Nat /\ r.declared \in BOOLEAN /\ r.arrives \in Nat
BY UpdateAssumption

(* What arrives of a response is the beginning of it.                      *)
LEMMA AnswerBytes ==
  ASSUME NEW r \in Responses
  PROVE  /\ Answer(r) \in Seq(Byte) /\ Len(Answer(r)) <= r.header + r.body
         /\ \A i \in 1..Len(Answer(r)) : Answer(r)[i] = Expected(r, i)
<1> DEFINE h == r.header
           b == r.body
           S == {Cell("header", i) : i \in 1..h} \union {EmptyLine} \union {Cell("body", i) : i \in 1..b}
           head == [i \in 1..h |-> IF i = h THEN EmptyLine ELSE Cell("header", i)]
           all == head \o Body(r)
           n == Smaller(r.arrives, h + b)
<1>1. h \in Nat /\ b \in Nat /\ r.arrives \in Nat
  BY ResponseFields
<1>2. /\ head \in Seq(S) /\ Len(head) = h
  <2>1. head \in [1..h -> S]
    OBVIOUS
  <2> HIDE DEF head, S
  <2>2. QED
    BY <1>1, <2>1, Cells
<1>3. Body(r) \in Seq(S) /\ Len(Body(r)) = b /\ \A i \in 1..b : Body(r)[i] = Cell("body", i)
  <2>1. Body(r) \in [1..b -> S]
    BY DEF Body
  <2> HIDE DEF S
  <2>2. QED
    BY <1>1, <2>1, Cells DEF Body
<1>4. \A i \in 1..h : head[i] = Expected(r, i)
  BY <1>1 DEF Expected
<1> HIDE DEF head, S, h, b
<1>5. /\ all \in Seq(S) /\ Len(all) = h + b
      /\ \A i \in 1..h + b : all[i] = IF i <= h THEN head[i] ELSE Body(r)[i - h]
  BY <1>2, <1>3, ConcatProperties
<1>6. \A i \in 1..h + b : all[i] = Expected(r, i)
  <2>1. ASSUME NEW i \in 1..h + b
        PROVE  all[i] = Expected(r, i)
    <3>1. CASE i <= h
      BY <1>1, <1>4, <1>5, <3>1
    <3>2. CASE ~(i <= h)
      <4>1. i - h \in 1..b /\ ~(i <= h) /\ ~(i < h) /\ i # h
        BY <1>1, <3>2
      <4>2. all[i] = Cell("body", i - h)
        BY <1>3, <1>5, <4>1
      <4>3. QED
        BY <4>1, <4>2 DEF Expected, h
    <3>3. QED
      BY <3>1, <3>2
  <2>2. QED
    BY <2>1
<1> HIDE DEF all, n
<1>7. n \in 0..h + b
  BY <1>1 DEF n, Smaller, h, b
<1>8. /\ Len(SubSeq(all, 1, n)) = n /\ \A i \in 1..n : SubSeq(all, 1, n)[i] = all[i]
  <2>1. \A i \in 1..n : all[i] \in S
    BY <1>1, <1>5, <1>7, ElementOfSeq
  <2>2. /\ Len(SubSeq(all, 1, n)) = IF 1 <= n THEN n - 1 + 1 ELSE 0
        /\ \A i \in 1..n - 1 + 1 : SubSeq(all, 1, n)[i] = all[1 + i - 1]
    BY <1>1, <1>7, <2>1, SubSeqProperties
  <2>3. QED
    BY <1>1, <1>7, <2>2
<1>9. Answer(r) = SubSeq(all, 1, n)
  BY DEF Answer, all, n, head, h, b
<1>10. Answer(r) \in Seq(Byte)
  BY UpdateAssumption
<1>11. \A i \in 1..n : i \in 1..h + b
  BY <1>1, <1>7
<1>12. QED
  BY <1>1, <1>6, <1>7, <1>8, <1>9, <1>10, <1>11 DEF h, b

(* The empty line ends the header. *)
LEMMA HeadEnds ==
  ASSUME BufferTypeOK, response \in Responses, Follows(0), HeadIsComplete
  PROVE  HeadSize = response.header /\ response.header \in 1..consume_size
<1>1. /\ response.header \in Nat /\ consume_size \in Nat
      /\ \A i \in 1..consume_size : content[i] = Expected(response, 0 + i)
  BY BufferTypes, ResponseFields DEF Follows
<1>2. ASSUME NEW i \in 1..consume_size, content[i] = EmptyLine
      PROVE  i = response.header
  <2>1. Expected(response, i) = EmptyLine
    <3>1. 0 + i = i
      BY <1>1
    <3>2. QED
      BY <1>1, <1>2, <3>1
  <2>2. \A k : Cell("header", k) # EmptyLine /\ Cell("body", k) # EmptyLine
    BY DEF Cell, EmptyLine
  <2>3. QED
    BY <2>1, <2>2 DEF Expected
<1>3. PICK i \in 1..consume_size : content[i] = EmptyLine
  BY DEF HeadIsComplete
<1>4. HeadSize \in 1..consume_size /\ content[HeadSize] = EmptyLine
  BY <1>3 DEF HeadSize
<1>5. QED
  BY <1>2, <1>4

-----------------------------------------------------------------------------

(* Nothing but the commit is said of an update that has ended.             *)
LEMMA NothingLeft ==
  ASSUME CommitsWholeBody', phase' \in {"result", "restarted"}
  PROVE  UpInv'
<1>1. phase' \notin {"idle", "connecting", "sending", "head", "body", "write"}
  OBVIOUS
<1>2. QED
  BY <1>1 DEF UpInv

LEMMA BeginsUpdate ==
  ASSUME BufferTypeOK, UpInv, UpgradeAsync \/ Proceed \/ Fails
  PROVE  BufferTypeOK' /\ UpInv'
<1>1. /\ UNCHANGED bufferVars /\ BufferTypeOK' /\ consume_size' = consume_size /\ content' = content
  BY DEF UpgradeAsync, Proceed, Fails, bufferVars, BufferTypeOK, consume_size, content
<1>2. CASE UpgradeAsync
  <2>1. /\ phase = "idle" /\ result = "none" /\ Fresh
        /\ UNCHANGED <<wire, flash, body_length, body_length_left>>
        /\ \/ phase' = "connecting" /\ result' = "none"
           \/ phase' = "result" /\ result' = "error"
    BY <1>2 DEF UpgradeAsync, UpInv, Result
  <2>2. QED
    BY <1>1, <2>1 DEF UpInv, Fresh, CommitsWholeBody
<1>3. CASE Proceed
  <2>1. CASE phase = "connecting" /\ phase' = "sending" /\ UNCHANGED <<wire, response>>
    BY <1>1, <1>3, <2>1 DEF Proceed, UpInv, Fresh, CommitsWholeBody
  <2>2. ASSUME phase = "sending", phase' = "head", NEW r \in Responses, response' = r, wire' = Answer(r)
        PROVE  UpInv'
    <3>1. /\ Fresh /\ result' = "none"
          /\ UNCHANGED <<flash, body_length, body_length_left>>
      BY <1>3, <2>2 DEF Proceed, UpInv
    <3>2. /\ Answer(r) \in Seq(Byte) /\ Len(Answer(r)) <= r.header + r.body /\ Len(Answer(r)) \in Nat
          /\ \A i \in 1..Len(Answer(r)) : Answer(r)[i] = Expected(r, i)
      BY AnswerBytes, LenProperties
    <3>3. consume_size' = 0
      BY <1>1, <3>1 DEF Fresh
    <3> DEFINE a == Answer(r)
    <3> HIDE DEF a
    <3>4. wire' = a /\ a \in Seq(Byte) /\ Len(a) <= r.header + r.body /\ Len(a) \in Nat
          /\ \A i \in 1..Len(a) : a[i] = Expected(r, i)
      BY <2>2, <3>2 DEF a
    <3>5. Follows(0)'
      <4>1. 0 + consume_size' + Len(wire') <= response'.header + response'.body
        BY <2>2, <3>3, <3>4
      <4>2. \A i \in 1..consume_size' : FALSE
        BY <3>3
      <4>3. \A i \in 1..Len(wire') : wire'[i] = Expected(response', 0 + consume_size' + i)
        <5>1. \A i \in 1..Len(a) : 0 + 0 + i = i
          BY <3>4
        <5>2. QED
          BY <2>2, <3>3, <3>4, <5>1
      <4>4. QED
        BY <3>4, <4>1, <4>2, <4>3 DEF Follows, Expected
    <3>6. QED
      BY <2>2, <3>1, <3>5 DEF UpInv, Fresh, HeadInv, CommitsWholeBody
  <2>3. QED
    BY <1>1, <1>3, <2>1, <2>2 DEF Proceed
<1>4. CASE Fails
  BY <1>1, <1>4 DEF Fails, Result, UpInv, CommitsWholeBody
<1>5. QED
  BY <1>1, <1>2, <1>3, <1>4

LEMMA EndsUpdate ==
  ASSUME BufferTypeOK, UpInv, WriteFails \/ Restart \/ TimedOut
  PROVE  BufferTypeOK' /\ UpInv'
<1>1. BufferTypeOK'
  BY DEF WriteFails, Restart, TimedOut, bufferVars, BufferTypeOK
<1>2. CASE WriteFails
  <2>1. phase' = "result" /\ result' = "error"
    BY <1>2 DEF WriteFails, Result
  <2>2. CommitsWholeBody'
    BY <2>1 DEF CommitsWholeBody
  <2>3. QED
    BY <1>1, <2>1, <2>2, NothingLeft
<1>3. CASE Restart \/ TimedOut
  <2>1. phase' = "restarted" /\ UNCHANGED <<response, flash, result>>
    BY <1>3 DEF Restart, TimedOut
  <2>2. CommitsWholeBody'
    BY <2>1 DEF CommitsWholeBody, UpInv
  <2>3. QED
    BY <1>1, <2>1, <2>2, NothingLeft
<1>4. QED
  BY <1>1, <1>2, <1>3

LEMMA ReadHeadStep ==
  ASSUME BufferTypeOK, UpInv, ReadHead
  PROVE  BufferTypeOK' /\ UpInv'
<1>1. /\ phase = "head" /\ HeadInv /\ result = "none" /\ Receive(Chunk) /\ UNCHANGED updateVars
      /\ Chunk \in Nat
  BY UpdateAssumption DEF ReadHead, UpInv
<1>2. /\ UNCHANGED <<phase, response, result, flash, body_length, body_length_left>>
      /\ response \in Responses /\ Follows(0) /\ 0 \in Nat
  BY <1>1 DEF updateVars, HeadInv
<1>3. response.header \in Nat /\ response.body \in Nat
  BY <1>2, ResponseFields
<1>4. /\ BufferTypeOK' /\ wire' \in Seq(Byte)
      /\ 0 + consume_size' + Len(wire') <= response.header + response.body
      /\ \A i \in 1..consume_size' : content'[i] = Expected(response, 0 + i)
      /\ \A i \in 1..Len(wire') : wire'[i] = Expected(response, 0 + consume_size' + i)
  BY <1>1, <1>2, <1>3, ReceiveFollows
<1>5. Follows(0)'
  BY <1>2, <1>4 DEF Follows, Expected
<1>6. QED
  BY <1>1, <1>2, <1>4, <1>5 DEF UpInv, HeadInv, CommitsWholeBody

(* After an exception no callback comes any more. *)
LEMMA DiesStep ==
  ASSUME BufferTypeOK, UpInv, HeadTooLarge \/ HandleMalformed
  PROVE  BufferTypeOK' /\ UpInv'
<1>1. phase = "head" /\ phase' = "dead" /\ HeadInv /\ result = "none" /\ result' = "none"
  BY DEF HeadTooLarge, HandleMalformed, UpInv
<1>2. CASE HeadTooLarge
  <2>1. Throw(Chunk) /\ Chunk \in Nat
    BY <1>2, UpdateAssumption DEF HeadTooLarge
  <2>2. BufferTypeOK'
    BY <2>1, ThrowBytes
  <2>3. QED
    BY <1>1, <2>2 DEF UpInv, CommitsWholeBody
<1>3. CASE HandleMalformed
  <2>1. Take(HeadSize) /\ HeadSize \in 0..consume_size
    <3>1. HeadSize = response.header /\ response.header \in 1..consume_size
      BY <1>1, <1>3, HeadEnds DEF HeadInv, HandleMalformed
    <3>2. QED
      BY <1>3, <3>1 DEF HandleMalformed
  <2>2. BufferTypeOK'
    BY <2>1, TakeIs
  <2>3. QED
    BY <1>1, <2>2 DEF UpInv, CommitsWholeBody
<1>4. QED
  BY <1>2, <1>3

-----------------------------------------------------------------------------

(* What read_body_async asks for is at most what is left, and something    *)
(* when there is something left and the buffer is empty.                   *)
ToAsk(left, size) == Smaller(left, Larger(0, Piece - size))

LEMMA AskedBounds ==
  ASSUME NEW left \in Nat, NEW size \in Nat
  PROVE  /\ ToAsk(left, size) \in 0..left
         /\ ToAsk(left, size) = 0 /\ size = 0 => left = 0
<1>1. Piece \in Nat /\ Piece > 0
  BY UpdateAssumption
<1>2. PICK n \in Nat : n = Larger(0, Piece - size) /\ (size = 0 => n > 0)
  BY <1>1 DEF Larger
<1>3. ToAsk(left, size) \in 0..left /\ (ToAsk(left, size) = 0 => left = 0 \/ n = 0)
  BY <1>2 DEF Smaller, ToAsk
<1>4. QED
  BY <1>2, <1>3

(* The header is consumed, and what follows is asked for. *)
LEMMA HandleResponseStep ==
  ASSUME BufferTypeOK, UpInv, HandleResponse
  PROVE  BufferTypeOK' /\ UpInv'
<1>1. /\ phase = "head" /\ HeadInv /\ result = "none" /\ Take(HeadSize)
      /\ UNCHANGED <<wire, response, flash>> /\ HeadIsComplete
  BY DEF HandleResponse, UpInv
<1> DEFINE r == response
           size == consume_size - HeadSize
<1>2. /\ r \in Responses /\ r.header \in Nat /\ r.body \in Nat /\ r.declared \in BOOLEAN
      /\ HeadSize = r.header /\ r.header \in 1..consume_size /\ HeadSize \in 0..consume_size
      /\ Follows(0) /\ flash = <<>> /\ body_length = 0 /\ body_length_left = 0
  BY <1>1, HeadEnds, ResponseFields DEF HeadInv
<1>3. /\ BufferTypeOK' /\ consume_size \in Nat /\ consume_size' = size
      /\ wire' \in Seq(Byte) /\ Len(wire') \in Nat
      /\ \A i \in 1..consume_size' : content'[i] = Expected(r, 0 + r.header + i)
      /\ \A i \in 1..Len(wire') : wire'[i] = Expected(r, 0 + r.header + consume_size' + i)
      /\ 0 + r.header + consume_size' + Len(wire') <= r.header + r.body
  BY <1>1, <1>2, TakeFollows, LenProperties
<1>4. size \in Nat /\ size <= r.body /\ 0 + r.header = r.header
  <2>1. PICK h \in Nat : h = r.header /\ h <= consume_size
    BY <1>2, <1>3
  <2>2. size = consume_size - h /\ size \in Nat
    <3>1. consume_size - h \in Nat
      BY <1>3, <2>1
    <3>2. size = consume_size - h
      BY <1>2, <2>1
    <3>3. QED
      BY <3>1, <3>2
  <2>3. PICK n \in Nat : n = Len(wire') /\ h + size + n <= h + r.body
    BY <1>2, <1>3, <2>1, <2>2
  <2>4. size <= r.body
    BY <1>2, <2>2, <2>3
  <2>5. QED
    BY <2>1, <2>2, <2>4
<1>5. CASE response.status # 200
  <2>1. phase' = "result" /\ result' = "error"
    BY <1>5 DEF HandleResponse, Result
  <2>2. CommitsWholeBody'
    BY <2>1 DEF CommitsWholeBody
  <2>3. QED
    BY <1>3, <2>1, <2>2, NothingLeft
<1>6. CASE response.status = 200
  <2>1. /\ ReadBodyAsync(body_length_left', size) /\ result' = "none"
        /\ r.declared => body_length' = r.body /\ body_length_left' = Left(size)
        /\ ~r.declared => body_length' = 0 /\ body_length_left' = 0
    BY <1>1, <1>2, <1>6 DEF HandleResponse
  <2>2. Left(size) = r.body - size
    BY <1>2, <1>4 DEF Left, Larger
  <2>3. body_length_left' \in Nat
    BY <1>2, <1>4, <2>1, <2>2
  <2>4. /\ phase' = "body" /\ missing' = asked'
        /\ asked' = Smaller(body_length_left', Larger(0, Piece - size))
    BY <2>1 DEF ReadBodyAsync
  <2>5. /\ asked' \in 0..body_length_left' /\ missing' \in 0..asked' /\ asked' - missing' = 0
        /\ asked' = 0 /\ size = 0 => body_length_left' = 0
    <3> PICK left \in Nat : left = body_length_left'
      BY <2>3
    <3> PICK n \in Nat : n = size
      BY <1>4
    <3>1. ToAsk(left, n) \in 0..left /\ (ToAsk(left, n) = 0 /\ n = 0 => left = 0)
      BY AskedBounds
    <3>2. asked' = ToAsk(left, n) /\ missing' = asked'
      BY <2>4 DEF ToAsk
    <3> DEFINE a == ToAsk(left, n)
    <3>3. a \in 0..left /\ (a = 0 /\ n = 0 => left = 0)
      BY <3>1
    <3> HIDE DEF a
    <3>4. a \in 0..left /\ a \in 0..a /\ a - a = 0
      BY <3>3
    <3>5. asked' = a /\ missing' = a
      BY <3>2 DEF a
    <3>6. QED
      BY <3>3, <3>4, <3>5
  <2>6. flash' = <<>> /\ Len(flash') = 0 /\ r.header + 0 = r.header
    BY <1>1, <1>2
  <2>7. Follows(response.header + Len(flash))'
    <3>1. (response.header + Len(flash))' = r.header
      BY <1>1, <2>6
    <3> DEFINE off == (response.header + Len(flash))'
    <3>2. /\ off + consume_size' + Len(wire') <= response'.header + response'.body
          /\ \A i \in 1..consume_size' : content'[i] = Expected(response', off + i)
          /\ \A i \in 1..Len(wire') : wire'[i] = Expected(response', off + consume_size' + i)
      BY <1>1, <1>3, <1>4, <3>1
    <3>3. QED
      BY <1>3, <3>2 DEF Follows, Expected
  <2>8. Flashed'
    BY <2>6 DEF Flashed
  <2>9. BodyInv'
    BY <1>1, <1>2, <2>1, <2>3, <2>6, <2>7, <2>8 DEF BodyInv
  <2>10. AskedInv'
    <3>0. /\ asked' \in Nat /\ missing' \in Nat /\ consume_size' \in Nat
      BY <1>3, <1>4, <2>3, <2>5
    <3> PICK left \in Nat : left = body_length_left'
      BY <2>3
    <3> PICK a \in Nat : a = asked'
      BY <3>0
    <3> PICK m \in Nat : m = missing'
      BY <3>0
    <3> PICK k \in Nat : k = consume_size'
      BY <3>0
    <3>1. r.declared => body_length_left' - (asked' - missing') + Len(flash') + consume_size' = r.body
      <4>1. SUFFICES ASSUME r.declared PROVE left - (a - m) + 0 + k = r.body
        BY <2>6
      <4> PICK b \in Nat : b = r.body
        BY <1>2
      <4>2. left + 0 + k = b
        <5> PICK z \in Nat : z = size
          BY <1>4
        <5>1. k = z /\ left = b - z
          BY <1>3, <2>1, <2>2, <4>1
        <5>2. QED
          BY <5>1
      <4>3. a - m = 0
        BY <2>5
      <4>4. left - (a - m) + 0 + k = b
        <5>1. left - 0 + 0 + k = b
          BY <4>2
        <5>2. QED
          BY <4>3, <5>1, Zenon
      <4>5. QED
        BY <4>4
    <3>2. asked' - missing' <= consume_size'
      <4>1. a - m = 0
        BY <2>5
      <4>2. a - m <= k
        <5>1. 0 <= k
          OBVIOUS
        <5>2. QED
          BY <4>1, <5>1, Zenon
      <4>3. QED
        BY <4>2
    <3>3. QED
      BY <1>1, <1>3, <2>5, <3>1, <3>2 DEF AskedInv
  <2>11. QED
    BY <1>3, <2>1, <2>4, <2>9, <2>10 DEF UpInv, CommitsWholeBody
<1>7. QED
  BY <1>5, <1>6

(* A piece is read as it comes. *)
LEMMA ReadBodyStep ==
  ASSUME BufferTypeOK, UpInv, ReadBody
  PROVE  BufferTypeOK' /\ UpInv'
<1>1. /\ phase = "body" /\ BodyInv /\ AskedInv /\ result = "none" /\ missing > 0 /\ Receive(missing)
      /\ missing' = missing - (Len(wire) - Len(wire')) /\ UNCHANGED updateVars
  BY DEF ReadBody, ReadMissing, UpInv
<1>2. /\ UNCHANGED <<phase, response, result, flash, body_length, body_length_left, asked>>
      /\ response \in Responses /\ Follows(response.header + Len(flash))
      /\ flash \in Seq(Byte) /\ body_length_left \in Nat
      /\ asked \in 0..body_length_left /\ missing \in 0..asked /\ asked - missing <= consume_size
  BY <1>1 DEF updateVars, BodyInv, AskedInv, Flashed
<1>3. /\ response.header \in Nat /\ response.body \in Nat /\ Len(flash) \in Nat /\ missing \in Nat
      /\ asked \in Nat
  BY <1>2, ResponseFields, LenProperties
<1>4. PICK off \in Nat : off = response.header + Len(flash)
  BY <1>3
<1>5. /\ BufferTypeOK' /\ consume_size \in Nat
      /\ \E k \in 0..missing : consume_size' = consume_size + k /\ k = Len(wire) - Len(wire')
      /\ wire' \in Seq(Byte)
      /\ off + consume_size' + Len(wire') <= response.header + response.body
      /\ \A i \in 1..consume_size' : content'[i] = Expected(response, off + i)
      /\ \A i \in 1..Len(wire') : wire'[i] = Expected(response, off + consume_size' + i)
  <2>1. Follows(off) /\ response' = response
    BY <1>2, <1>4
  <2>2. QED
    BY <1>1, <1>3, <2>1, ReceiveFollows
<1>6. PICK k \in 0..missing : consume_size' = consume_size + k /\ missing' = missing - k
  BY <1>1, <1>5
<1>7. Follows(response.header + Len(flash))'
  <2>1. (response.header + Len(flash))' = off
    BY <1>2, <1>4
  <2>2. Follows(off)'
    BY <1>2, <1>5 DEF Follows, Expected
  <2>3. QED
    BY <2>1, <2>2 DEF Follows
<1>8. BodyInv'
  BY <1>1, <1>2, <1>7 DEF BodyInv, Flashed
<1>9. AskedInv'
  <2>1. missing' \in 0..asked /\ asked - missing' <= consume_size'
    BY <1>2, <1>3, <1>5, <1>6
  <2>2. response.declared =>
          body_length_left - (asked - missing') + Len(flash) + consume_size' = response.body
    <3>1. SUFFICES ASSUME response.declared
                   PROVE  body_length_left - (asked - (missing - k)) + Len(flash) + (consume_size + k)
                            = response.body
      BY <1>6
    <3>2. body_length_left - (asked - missing) + Len(flash) + consume_size = response.body
      BY <1>1, <3>1 DEF AskedInv
    <3>3. PICK l \in Nat, f \in Nat : l = body_length_left /\ f = Len(flash)
      BY <1>2, <1>3
    <3>4. PICK a \in Nat, m \in Nat, c \in Nat : a = asked /\ m = missing /\ c = consume_size
      BY <1>2, <1>3, <1>5
    <3>5. PICK b \in Nat : b = response.body
      BY <1>3
    <3>6. k \in Nat
      BY <1>3
    <3>7. l - (a - m) + f + c = b
      BY <3>2, <3>3, <3>4, <3>5
    <3>8. l - (a - (m - k)) + f + (c + k) = b
      BY <3>6, <3>7
    <3>9. QED
      BY <3>3, <3>4, <3>5, <3>8
  <2>3. asked = 0 /\ consume_size' = 0 => body_length_left = 0
    BY <1>1, <1>3, <1>5, <1>6 DEF AskedInv
  <2>4. QED
    BY <1>2, <2>1, <2>2, <2>3 DEF AskedInv
<1>10. QED
  BY <1>1, <1>2, <1>5, <1>8, <1>9 DEF UpInv, CommitsWholeBody

(* The piece is there, or was not needed. *)
LEMMA BodyReadStep ==
  ASSUME BufferTypeOK, UpInv, BodyRead
  PROVE  BufferTypeOK' /\ UpInv'
<1>1. /\ phase = "body" /\ BodyInv /\ AskedInv /\ result = "none" /\ missing = 0 /\ phase' = "write"
      /\ body_length_left' = body_length_left - asked
      /\ UNCHANGED bufferVars /\ UNCHANGED <<wire, response, body_length, flash, result>>
  BY DEF BodyRead, UpInv
<1>2. /\ BufferTypeOK' /\ consume_size' = consume_size /\ content' = content /\ consume_size \in Nat
  BY <1>1, BufferTypes DEF bufferVars, BufferTypeOK, consume_size, content
<1>3. /\ body_length_left \in Nat /\ asked \in 0..body_length_left /\ asked <= consume_size
      /\ Len(flash) \in Nat /\ response.body \in Nat
  BY <1>1, <1>2, LenProperties, ResponseFields DEF AskedInv, BodyInv, Flashed
<1>4. Follows(response.header + Len(flash))'
  BY <1>1, <1>2 DEF BodyInv, Follows, Expected
<1>5. BodyInv'
  BY <1>1, <1>3, <1>4 DEF BodyInv, Flashed
<1>6. GotInv'
  <2>1. response.declared => body_length_left' + Len(flash) + consume_size = response.body
    BY <1>1, <1>2, <1>3 DEF AskedInv
  <2>2. consume_size = 0 => body_length_left' = 0
    BY <1>1, <1>2, <1>3 DEF AskedInv
  <2>3. QED
    BY <1>1, <1>2, <2>1, <2>2 DEF GotInv
<1>7. QED
  BY <1>1, <1>2, <1>5, <1>6 DEF UpInv, CommitsWholeBody

(* What the buffer has goes to the partition. *)
LEMMA WriteStep ==
  ASSUME BufferTypeOK, UpInv, Write
  PROVE  BufferTypeOK' /\ UpInv'
<1>1. /\ phase = "write" /\ BodyInv /\ GotInv /\ result = "none" /\ result' = "none"
      /\ flash' = flash \o content /\ Take(consume_size) /\ Written
      /\ UNCHANGED <<wire, response, body_length, body_length_left>>
  BY DEF Write, UpInv
<1>2. /\ consume_size \in Nat /\ consume_size \in 0..consume_size /\ content \in Seq(Byte)
      /\ Len(content) = consume_size
      /\ response \in Responses /\ response.header \in Nat /\ response.body \in Nat
      /\ flash \in Seq(Byte) /\ Len(flash) \in Nat /\ body_length_left \in Nat
      /\ Follows(response.header + Len(flash))
      /\ \A i \in 1..Len(flash) : flash[i] = Cell("body", i)
      /\ response.declared \in BOOLEAN
  <2>1. consume_size \in Nat /\ content \in Seq(Byte) /\ Len(content) = consume_size
    BY BufferTypes, Content
  <2>2. /\ response \in Responses /\ flash \in Seq(Byte) /\ body_length_left \in Nat
        /\ Follows(response.header + Len(flash))
        /\ \A i \in 1..Len(flash) : flash[i] = Cell("body", i)
    BY <1>1 DEF BodyInv, Flashed
  <2>3. /\ response.header \in Nat /\ response.body \in Nat /\ response.declared \in BOOLEAN
    BY <2>2, ResponseFields
  <2>4. QED
    BY <2>1, <2>2, <2>3, LenProperties
<1>3. PICK off \in Nat : off = response.header + Len(flash)
  BY <1>2
<1>4. /\ BufferTypeOK' /\ consume_size' = 0
      /\ \A i \in 1..Len(wire') : wire'[i] = Expected(response, off + consume_size + consume_size' + i)
      /\ wire' \in Seq(Byte)
      /\ off + consume_size + consume_size' + Len(wire') <= response.header + response.body
  <2>1. Follows(off) /\ response' = response /\ wire' = wire
    BY <1>1, <1>2, <1>3
  <2>2. /\ BufferTypeOK' /\ consume_size' = consume_size - consume_size
        /\ \A i \in 1..Len(wire') : wire'[i] = Expected(response, off + consume_size + consume_size' + i)
        /\ wire' \in Seq(Byte)
        /\ off + consume_size + consume_size' + Len(wire') <= response.header + response.body
    BY <1>1, <1>2, <2>1, TakeFollows
  <2>3. QED
    BY <1>2, <2>2
<1>5. flash' \in Seq(Byte) /\ Len(flash') = Len(flash) + consume_size /\ Flashed'
  <2> PICK h \in Nat : h = response.header
    BY <1>2
  <2> DEFINE c == content
  <2> HIDE DEF c
  <2>1. c \in Seq(Byte) /\ \A i \in 1..Len(c) : c[i] = Expected(response, off + i)
    BY <1>2, <1>3 DEF Follows, c
  <2>4. /\ flash \o c \in Seq(Byte) /\ Len(flash \o c) = Len(flash) + Len(c) /\ Len(c) \in Nat
        /\ \A i \in 1..Len(flash) + Len(c) :
             (flash \o c)[i] = IF i <= Len(flash) THEN flash[i] ELSE c[i - Len(flash)]
    BY <1>2, <2>1, ConcatProperties, LenProperties
  <2>5. ASSUME NEW i \in 1..Len(flash) + Len(c)
        PROVE  (flash \o c)[i] = Cell("body", i)
    <3>1. CASE i <= Len(flash)
      BY <1>2, <2>4, <3>1
    <3>2. CASE ~(i <= Len(flash))
      <4>1. /\ i - Len(flash) \in 1..Len(c) /\ off + (i - Len(flash)) = h + i
            /\ ~(h + i < h) /\ h + i # h /\ h + i - h = i
        <5>1. PICK f \in Nat, n \in Nat : f = Len(flash) /\ n = Len(c)
          BY <1>2, <2>4
        <5>2. i \in 1..f + n /\ i > f /\ off = h + f
          BY <1>3, <3>2, <5>1
        <5>3. /\ i - f \in 1..n /\ off + (i - f) = h + i
              /\ ~(h + i < h) /\ h + i # h /\ h + i - h = i
          BY <5>2
        <5>4. QED
          BY <5>1, <5>3
      <4>2. c[i - Len(flash)] = Expected(response, off + (i - Len(flash)))
        BY <2>1, <4>1
      <4>3. Expected(response, h + i) = Cell("body", i)
        BY <4>1 DEF Expected
      <4>4. QED
        BY <2>4, <3>2, <4>1, <4>2, <4>3
    <3>3. QED
      BY <3>1, <3>2
  <2>2. /\ flash \o content \in Seq(Byte) /\ Len(flash \o content) = Len(flash) + Len(content)
        /\ \A i \in 1..Len(flash \o content) : (flash \o content)[i] = Cell("body", i)
    BY <2>4, <2>5 DEF c
  <2>3. QED
    BY <1>1, <1>2, <2>2 DEF Flashed, Cell
<1>6. CASE body_length = 0
  <2>1. phase' = "restarted"
    BY <1>1, <1>6 DEF Written
  <2>2. CommitsWholeBody'
    BY <1>1 DEF CommitsWholeBody
  <2>3. QED
    BY <1>4, <2>1, <2>2, NothingLeft
<1>7. CASE body_length # 0
  <2>1. /\ phase' = "body" /\ missing' = asked'
        /\ asked' = Smaller(body_length_left, Larger(0, Piece - 0))
    BY <1>1, <1>7 DEF Written, ReadBodyAsync
  <2>2. /\ asked' \in 0..body_length_left /\ missing' \in 0..asked' /\ asked' - missing' = 0
        /\ asked' = 0 => body_length_left = 0
    <3> PICK left \in Nat : left = body_length_left
      BY <1>2
    <3> DEFINE a == ToAsk(left, 0)
    <3>1. a \in 0..left /\ (a = 0 => left = 0)
      BY AskedBounds
    <3>2. asked' = a /\ missing' = a
      BY <2>1 DEF ToAsk
    <3> HIDE DEF a
    <3>3. a \in 0..left /\ a \in 0..a /\ a - a = 0
      BY <3>1
    <3>4. QED
      BY <3>1, <3>2, <3>3
  <2>3. response.declared
    BY <1>1, <1>7 DEF BodyInv
  <2>4. Follows(response.header + Len(flash))'
    <3>1. PICK o \in Nat : o = response.header + (Len(flash) + consume_size)
      BY <1>2
    <3>2. o = off + consume_size + consume_size' /\ o + consume_size' = o
      <4>1. PICK h \in Nat, f \in Nat : h = response.header /\ f = Len(flash)
        BY <1>2
      <4>2. PICK c \in Nat : c = consume_size
        BY <1>2
      <4>3. o = h + (f + c) /\ off = h + f
        BY <1>3, <3>1, <4>1, <4>2
      <4>4. o = off + c + 0 /\ o + 0 = o
        BY <4>3
      <4>5. QED
        BY <1>4, <4>2, <4>4
    <3>3. (response.header + Len(flash))' = o
      BY <1>1, <1>5, <3>1
    <3>4. Follows(o)'
      <4>1. o + consume_size' + Len(wire') <= response'.header + response'.body
        BY <1>1, <1>4, <3>2
      <4>2. \A i \in 1..Len(wire') : wire'[i] = Expected(response', o + consume_size' + i)
        BY <1>1, <1>4, <3>2
      <4>3. \A i \in 1..consume_size' : FALSE
        BY <1>4
      <4>4. QED
        BY <1>4, <4>1, <4>2, <4>3 DEF Follows, Expected
    <3>5. QED
      BY <3>3, <3>4 DEF Follows
  <2>5. BodyInv'
    BY <1>1, <1>2, <1>5, <2>3, <2>4 DEF BodyInv
  <2>6. AskedInv'
    <3>0. /\ asked' \in Nat /\ missing' \in Nat /\ Len(flash') \in Nat
      BY <1>2, <1>5, <2>2
    <3> PICK n \in Nat : n = Len(flash')
      BY <3>0
    <3> PICK a \in Nat : a = asked'
      BY <3>0
    <3> PICK m \in Nat : m = missing'
      BY <3>0
    <3>1. n = Len(flash) + consume_size /\ a - m = 0
      BY <1>5, <2>2
    <3>2. body_length_left + n + 0 = response.body
      <4>1. body_length_left + Len(flash) + consume_size = response.body
        BY <1>1, <2>3 DEF GotInv
      <4>2. QED
        BY <1>2, <3>1, <4>1
    <3>3. body_length_left - (a - m) + n + 0 = response.body
      <4>1. PICK l \in Nat, b \in Nat : l = body_length_left /\ b = response.body
        BY <1>2
      <4>2. l + n + 0 = b
        BY <3>2, <4>1
      <4>3. l - (a - m) + n + 0 = b
        <5>1. l - 0 + n + 0 = b
          BY <4>1, <4>2
        <5>2. QED
          BY <3>1, <5>1, Zenon
      <4>4. QED
        BY <4>1, <4>3
    <3>4. /\ body_length_left' - (asked' - missing') + Len(flash') + consume_size' = response'.body
      BY <1>1, <1>4, <3>3
    <3>5. asked' - missing' <= consume_size'
      <4>1. 0 <= 0
        OBVIOUS
      <4>2. a - m <= 0
        BY <3>1, <4>1, Zenon
      <4>3. QED
        BY <1>4, <4>2
    <3>6. asked' \in 0..body_length_left'
      BY <1>1, <2>2
    <3>7. QED
      BY <1>1, <1>4, <2>2, <3>4, <3>5, <3>6 DEF AskedInv
  <2>7. QED
    BY <1>1, <1>4, <2>1, <2>5, <2>6 DEF UpInv, CommitsWholeBody
<1>8. QED
  BY <1>6, <1>7

(* With nothing left and nothing in the buffer the body is whole. *)
LEMMA BodyIsOverStep ==
  ASSUME BufferTypeOK, UpInv, BodyIsOver
  PROVE  BufferTypeOK' /\ UpInv'
<1>1. /\ phase = "write" /\ BodyInv /\ GotInv /\ consume_size = 0
      /\ phase' = "result" /\ result' = "ok" /\ UNCHANGED <<response, flash>>
      /\ UNCHANGED bufferVars
  BY DEF BodyIsOver, Result, UpInv
<1>2. BufferTypeOK'
  BY <1>1 DEF bufferVars, BufferTypeOK
<1>3. /\ response \in Responses /\ response.body \in Nat /\ flash \in Seq(Byte) /\ Len(flash) \in Nat
      /\ \A i \in 1..Len(flash) : flash[i] = Cell("body", i)
      /\ body_length_left = 0
  BY <1>1, ResponseFields, LenProperties DEF BodyInv, Flashed, GotInv
<1>4. response.declared => flash = Body(response)
  <2>1. SUFFICES ASSUME response.declared PROVE flash = Body(response)
    OBVIOUS
  <2>2. Len(flash) = response.body
    BY <1>1, <1>3, <2>1 DEF GotInv
  <2>3. flash = [i \in 1..Len(flash) |-> flash[i]]
    BY <1>3
  <2>4. QED
    BY <1>3, <2>2, <2>3 DEF Body
<1>5. ~response.declared => flash = <<>>
  BY <1>1 DEF BodyInv
<1>6. CommitsWholeBody'
  BY <1>1, <1>4, <1>5 DEF CommitsWholeBody
<1>7. QED
  BY <1>1, <1>2, <1>6, NothingLeft

-----------------------------------------------------------------------------

(* One of the two readers is there. *)
ReaderInv ==
  \/ phase = "none" /\ result = "none"
  \/ step = "none" /\ BufferTypeOK /\ UpInv

(* A step of neither reader. *)
LEMMA UpUnchanged ==
  ASSUME BufferTypeOK, UpInv, UNCHANGED <<bufferVars, wire, missing, updateVars>>
  PROVE  BufferTypeOK' /\ UpInv'
<1>1. UNCHANGED bufferVars /\ UNCHANGED wire /\ UNCHANGED missing /\ UNCHANGED updateVars
  OBVIOUS
<1>2. BufferTypeOK' /\ consume_size' = consume_size /\ content' = content
  BY <1>1 DEF bufferVars, BufferTypeOK, consume_size, content
<1>3. UNCHANGED <<phase, response, body_length, body_length_left, asked, flash, result>>
  BY <1>1 DEF updateVars
<1>4. \A off : Follows(off) => Follows(off)'
  BY <1>1, <1>2, <1>3 DEF Follows, Expected
<1>5. Follows(response.header + Len(flash)) => Follows(response.header + Len(flash))'
  BY <1>1, <1>2, <1>3 DEF Follows, Expected
<1>6. UpInv'
  BY <1>1, <1>2, <1>3, <1>4, <1>5 DEF UpInv, HeadInv, BodyInv, AskedInv, GotInv, Fresh, Flashed,
                                      CommitsWholeBody
<1>7. QED
  BY <1>2, <1>6

LEMMA ReaderNext ==
  ASSUME ReaderInv, [Next]_vars
  PROVE  ReaderInv'
<1>1. CASE phase = "none" /\ result = "none"
  <2>1. ~Updating
    BY <1>1 DEF Updating, UpgradeAsync, Proceed, Fails, ReadHead, HeadTooLarge, HandleMalformed,
                HandleResponse, ReadBody, BodyRead, Write, WriteFails, BodyIsOver, Restart, TimedOut
  <2>2. UNCHANGED updateVars
    BY <2>1 DEF Next, vars
  <2>3. QED
    BY <1>1, <2>2 DEF ReaderInv, updateVars
<1>2. CASE step = "none" /\ BufferTypeOK /\ UpInv
  <2>1. ~Framing
    BY <1>2 DEF Framing, Read, PacketTooLarge, HandleControlPacket, HandleRemainingLength, HandlePayload
  <2>2. CASE Updating /\ UNCHANGED framingVars
    <3>1. BufferTypeOK' /\ UpInv'
      BY <1>2, <2>2, BeginsUpdate, EndsUpdate, ReadHeadStep, DiesStep, HandleResponseStep, ReadBodyStep,
         BodyReadStep, WriteStep, BodyIsOverStep DEF Updating
    <3>2. QED
      BY <1>2, <2>2, <3>1 DEF ReaderInv, framingVars
  <2>3. CASE UNCHANGED vars
    <3>1. UNCHANGED <<bufferVars, wire, missing, updateVars>> /\ step' = step
      BY <2>3 DEF vars, framingVars
    <3>2. BufferTypeOK' /\ UpInv'
      BY <1>2, <3>1, UpUnchanged
    <3>3. QED
      BY <1>2, <3>1, <3>2 DEF ReaderInv
  <2>4. QED
    BY <2>1, <2>2, <2>3 DEF Next
<1>3. QED
  BY <1>1, <1>2 DEF ReaderInv

(* For any sizes of the header's and of the body's pieces, any responses   *)
(* and any way they arrive in and are split, an update is committed only   *)
(* when the partition holds the whole body and nothing else, or when the   *)
(* server sent none with the header and declared no length                 *)
(* (handle_response, read_body_async, retrieve_body).                      *)
THEOREM UpdateIsWhole == Spec => []CommitsWholeBody
<1>1. Init => ReaderInv
  <2> SUFFICES ASSUME Init PROVE ReaderInv
    OBVIOUS
  <2>1. BufferTypeOK /\ consume_size = 0
    BY InitBuffer DEF Init, BufferInit, consume_size
  <2>2. QED
    BY <2>1 DEF Init, UpdateInit, ReaderInv, UpInv, CommitsWholeBody, Fresh
<1>2. ReaderInv /\ [Next]_vars => ReaderInv'
  BY ReaderNext
<1>3. ReaderInv => CommitsWholeBody
  BY DEF ReaderInv, UpInv, CommitsWholeBody
<1>4. QED
  BY <1>1, <1>2, <1>3, PTL DEF Spec

-----------------------------------------------------------------------------
(* Recursive functions, without an induction theorem. *)

(* A set of numbers that is not empty has a least one: what stands in for  *)
(* an induction theorem in the proofs below.                               *)
LEMMA LeastOf ==
  ASSUME NEW T \in SUBSET Nat, T # {}
  PROVE  \E x \in T : \A y \in T : x <= y
<1> DEFINE R == OpToRel(<, Nat)
<1>1. IsWellFoundedOn(R, Nat)
  BY NatLessThanWellFounded, Zenon
<1>2. R = {ss \in Nat \X Nat : ss[1] < ss[2]}
  BY DEF OpToRel
<1> HIDE DEF R
<1>3. PICK x \in T : \A y \in T : <<y, x>> \notin R
  BY <1>1, WFMin
<1>4. \A y \in T : ~(y < x)
  BY <1>2, <1>3
<1>5. QED
  BY <1>4

(* g solves the equations H below n. *)
Solves(D, H, g, n) == \A k \in D : k < n => g[k] = H[k][g]

(* The value at n depends on those at smaller numbers only.                *)
Descends(D, X, H) ==
  /\ H \in [D -> [[D -> X] -> X]]
  /\ \A n \in D, g, h \in [D -> X] : (\A k \in D : k < n => g[k] = h[k]) => H[n][g] = H[n][h]

(* Then the equations have a solution: such a recursive definition defines *)
(* what it says.                                                           *)
LEMMA RecursiveFcn ==
  ASSUME NEW D \in SUBSET Nat, NEW X, X # {}, NEW H, Descends(D, X, H)
  PROVE  \E f \in [D -> X] : \A n \in D : f[n] = H[n][f]
<1>0. /\ H \in [D -> [[D -> X] -> X]]
      /\ \A n \in D, g, h \in [D -> X] : (\A k \in D : k < n => g[k] = h[k]) => H[n][g] = H[n][h]
  BY DEF Descends
<1> PICK x0 \in X : TRUE
  OBVIOUS
<1>1. ASSUME NEW n \in Nat, NEW g \in [D -> X], NEW h \in [D -> X], Solves(D, H, g, n), Solves(D, H, h, n)
      PROVE  \A k \in D : k < n => g[k] = h[k]
  <2> DEFINE T == {k \in D : k < n /\ g[k] # h[k]}
  <2>1. SUFFICES ASSUME T # {} PROVE FALSE
    OBVIOUS
  <2>2. PICK x \in T : \A y \in T : x <= y
    <3>1. T \in SUBSET Nat
      OBVIOUS
    <3> HIDE DEF T
    <3>2. QED
      BY <2>1, <3>1, LeastOf
  <2>3. \A k \in D : k < x => g[k] = h[k]
    BY <2>2
  <2>4. H[x][g] = H[x][h]
    BY <1>0, <2>2, <2>3
  <2>5. QED
    BY <1>1, <2>2, <2>4 DEF Solves
<1>2. ASSUME NEW n \in Nat
      PROVE  \E g \in [D -> X] : Solves(D, H, g, n)
  <2> DEFINE T == {m \in Nat : ~ \E g \in [D -> X] : Solves(D, H, g, m)}
  <2>1. SUFFICES ASSUME T # {} PROVE FALSE
    OBVIOUS
  <2>2. PICK x \in T : \A y \in T : x <= y
    <3>1. T \in SUBSET Nat
      OBVIOUS
    <3> HIDE DEF T
    <3>2. QED
      BY <2>1, <3>1, LeastOf
  <2>a. /\ x \in Nat /\ ~ \E g \in [D -> X] : Solves(D, H, g, x)
        /\ \A m \in Nat : m < x => \E g \in [D -> X] : Solves(D, H, g, m)
    BY <2>2
  <2> HIDE DEF T
  <2>3. x # 0
    <3>1. [k \in D |-> x0] \in [D -> X]
      OBVIOUS
    <3>2. Solves(D, H, [k \in D |-> x0], 0)
      BY DEF Solves
    <3>3. QED
      BY <2>a, <3>1, <3>2
  <2>4. PICK g \in [D -> X] : Solves(D, H, g, x - 1)
    BY <2>a, <2>3
  <2>5. CASE x - 1 \notin D
    <3>1. Solves(D, H, g, x)
      BY <2>a, <2>3, <2>4, <2>5 DEF Solves
    <3>2. QED
      BY <2>a, <3>1
  <2>6. CASE x - 1 \in D
    <3> DEFINE p == x - 1
               h == [g EXCEPT ![p] = H[p][g]]
    <3>1. p \in D /\ H[p][g] \in X /\ h \in [D -> X]
      BY <1>0, <2>6
    <3>2. h[p] = H[p][g] /\ \A k \in D : k < p => h[k] = g[k]
      BY <2>a, <3>1
    <3> HIDE DEF h
    <3>3. ASSUME NEW k \in D, k <= p PROVE H[k][h] = H[k][g]
      <4>1. \A j \in D : j < k => h[j] = g[j]
        <5>1. D \subseteq Nat /\ p \in Int /\ \A j \in D : j < p => h[j] = g[j]
          BY <2>a, <3>2
        <5>2. \A j \in D : j < k => j < p
          BY <3>3, <5>1
        <5>3. QED
          BY <5>1, <5>2
      <4>2. QED
        BY <1>0, <3>1, <4>1
    <3>4. Solves(D, H, h, x)
      <4> SUFFICES ASSUME NEW k \in D, k < x PROVE h[k] = H[k][h]
        BY DEF Solves
      <4>1. k = p \/ k < p
        BY <2>a
      <4>2. CASE k = p
        <5>1. k <= p
          BY <2>a, <4>2
        <5>2. H[k][h] = H[k][g]
          BY <3>3, <5>1
        <5>3. QED
          BY <3>2, <4>2, <5>2
      <4>3. CASE k < p
        <5>1. h[k] = g[k] /\ H[k][h] = H[k][g]
          <6>1. k <= p
            BY <2>a, <4>3
          <6>2. QED
            BY <3>2, <3>3, <4>3, <6>1
        <5>2. g[k] = H[k][g]
          BY <2>4, <4>3 DEF Solves
        <5>3. QED
          BY <5>1, <5>2
      <4>4. QED
        BY <4>1, <4>2, <4>3
    <3>5. QED
      BY <2>a, <3>1, <3>4
  <2>7. QED
    BY <2>5, <2>6
<1> DEFINE G == [n \in D |-> CHOOSE h \in [D -> X] : Solves(D, H, h, n + 1)]
           f == [n \in D |-> G[n][n]]
<1>3. \A n \in D : G[n] \in [D -> X] /\ Solves(D, H, G[n], n + 1)
  BY <1>2
<1> HIDE DEF G
<1>4. f \in [D -> X]
  BY <1>3
<1>5. ASSUME NEW n \in D, NEW k \in D, k < n
      PROVE  f[k] = G[n][k]
  <2>1. Solves(D, H, G[n], k + 1) /\ Solves(D, H, G[k], k + 1) /\ k + 1 \in Nat
    <3>1. Solves(D, H, G[n], n + 1) /\ Solves(D, H, G[k], k + 1)
      BY <1>3
    <3> DEFINE g == G[n]
    <3> HIDE DEF g
    <3>2. \A j \in D : j < n + 1 => g[j] = H[j][g]
      BY <3>1 DEF Solves, g
    <3>3. k + 1 \in Nat /\ \A j \in D : j < k + 1 => j < n + 1
      BY <1>5
    <3>4. Solves(D, H, g, k + 1)
      BY <3>2, <3>3 DEF Solves
    <3>5. QED
      BY <3>1, <3>3, <3>4 DEF g
  <2>2. G[k] \in [D -> X] /\ G[n] \in [D -> X]
    BY <1>3
  <2>a. k \in Nat /\ k < k + 1
    OBVIOUS
  <2>3. \A j \in D : j < k + 1 => G[k][j] = G[n][j]
    <3> DEFINE g == G[k]
               h == G[n]
               m == k + 1
    <3>1. m \in Nat /\ g \in [D -> X] /\ h \in [D -> X] /\ Solves(D, H, g, m) /\ Solves(D, H, h, m)
      BY <2>1, <2>2
    <3> HIDE DEF g, h, m
    <3>2. \A j \in D : j < m => g[j] = h[j]
      BY <1>1, <3>1
    <3>3. QED
      BY <3>2 DEF g, h, m
  <2>4. G[k][k] = G[n][k]
    BY <2>a, <2>3
  <2>5. QED
    BY <2>4
<1>6. ASSUME NEW n \in D PROVE f[n] = H[n][f]
  <2>1. G[n][n] = H[n][G[n]]
    BY <1>3 DEF Solves
  <2>2. H[n][G[n]] = H[n][f]
    <3>1. \A k \in D : k < n => G[n][k] = f[k]
      BY <1>5
    <3>2. G[n] \in [D -> X] /\ f \in [D -> X]
      BY <1>3, <1>4
    <3> HIDE DEF f
    <3>3. QED
      BY <1>0, <3>1, <3>2
  <2>3. QED
    BY <2>1, <2>2
<1>7. QED
  BY <1>4, <1>6

(* Division with remainder, and the remainder of what differs by a         *)
(* multiple.                                                               *)
LEMMA Division ==
  ASSUME NEW a \in Nat, NEW b \in Nat \ {0}
  PROVE  /\ a \div b \in Nat /\ a % b \in 0..b - 1
         /\ a = b * (a \div b) + (a % b)
OBVIOUS

LEMMA Quotient ==
  ASSUME NEW b \in Nat \ {0}, NEW q \in Int, NEW p \in Int, NEW r \in 0..b - 1, NEW s \in 0..b - 1,
         b * q + r = b * p + s
  PROVE  r = s
<1>1. b * (q - p) = s - r
  OBVIOUS
<1>2. CASE q - p >= 1
  <2>1. b * (q - p) >= b
    BY <1>2
  <2>2. QED
    BY <1>1, <2>1
<1>3. CASE q - p <= -1
  <2>1. b * (q - p) <= -b
    BY <1>3
  <2>2. QED
    BY <1>1, <2>1
<1>4. CASE q - p = 0
  BY <1>1, <1>4
<1>5. QED
  BY <1>2, <1>3, <1>4

LEMMA SameRemainder ==
  ASSUME NEW m \in Nat \ {0}, NEW a \in Nat, NEW b \in Nat, NEW k \in Int, a = b + m * k
  PROVE  a % m = b % m
<1>1. /\ a \div m \in Nat /\ a % m \in 0..m - 1 /\ a = m * (a \div m) + (a % m)
      /\ b \div m \in Nat /\ b % m \in 0..m - 1 /\ b = m * (b \div m) + (b % m)
  BY Division
<1> DEFINE r == a % m
           s == b % m
           q == a \div m
           p == b \div m
<1> HIDE DEF r, s, q, p
<1>2. m * (p + k) = m * p + m * k /\ p + k \in Int /\ q \in Int
  BY <1>1 DEF p, q
<1>3. m * q + r = m * (p + k) + s
  BY <1>1, <1>2 DEF r, s, q, p
<1>4. r = s
  BY <1>1, <1>2, <1>3, Quotient DEF r, s
<1>5. QED
  BY <1>4 DEF r, s

(* The step of the decoder: what has been read, and what is left to read,  *)
(* add up to the same length.                                              *)
SameLength(m, b, l, f, r) ==
  (((l + (r % b) * f) % m) + ((f * b) % m) * (r \div b)) % m = (l + f * r) % m

LEMMA Decodes ==
  ASSUME NEW m \in Nat \ {0}, NEW b \in Nat \ {0}, NEW l \in Nat, NEW f \in Nat, NEW r \in Nat
  PROVE  SameLength(m, b, l, f, r)
<1> DEFINE d == r % b
           e == r \div b
           x == l + d * f
           y == f * b
           xq == x \div m
           yq == y \div m
           xr == x % m
           yr == y % m
<1>1. e \in Nat /\ d \in Nat /\ r = b * e + d
  BY Division
<1> HIDE DEF d, e
<1>2. x \in Nat /\ y \in Nat
  BY <1>1
<1>3. x + y * e = l + f * r
  <2>1. f * r = f * (b * e) + f * d
    BY <1>1
  <2>2. f * (b * e) = y * e
    BY <1>1
  <2>3. f * d = d * f
    BY <1>1
  <2>4. QED
    BY <1>1, <2>1, <2>2, <2>3
<1> HIDE DEF x, y
<1>4. /\ xq \in Nat /\ xr \in Nat /\ x = m * xq + xr
      /\ yq \in Nat /\ yr \in Nat /\ y = m * yq + yr
  BY <1>2, Division
<1> HIDE DEF xq, xr, yq, yr
<1>5. x + y * e = (xr + yr * e) + m * (xq + yq * e)
  <2>1. y * e = (m * yq) * e + yr * e
    BY <1>1, <1>4
  <2>2. (m * yq) * e = m * (yq * e)
    BY <1>1, <1>4
  <2>3. m * (xq + yq * e) = m * xq + m * (yq * e)
    BY <1>1, <1>4
  <2>4. QED
    BY <1>1, <1>4, <2>1, <2>2, <2>3
<1>6. /\ x + y * e \in Nat /\ xr + yr * e \in Nat /\ xq + yq * e \in Int
  BY <1>1, <1>2, <1>4
<1>7. (x + y * e) % m = (xr + yr * e) % m
  BY <1>5, <1>6, SameRemainder
<1>8. QED
  BY <1>3, <1>7 DEF SameLength, d, e, x, y, xr, yr

-----------------------------------------------------------------------------

(* Digits is what it says: the digits of a length, lowest first, all but   *)
(* the last with Base added (MqttPacket::add_length).                      *)
LEMMA DigitsAre ==
  /\ Digits \in [Nat -> Seq(Nat)]
  /\ \A n \in Nat : Digits[n] = IF n < Base THEN <<n>> ELSE <<(n % Base) + Base>> \o Digits[n \div Base]
<1> DEFINE X == Seq(Nat)
           H == [n \in Nat |-> [g \in [Nat -> X] |->
                  IF n < Base THEN <<n>> ELSE <<(n % Base) + Base>> \o g[n \div Base]]]
<1>1. \A n \in Nat : /\ n % Base \in Nat /\ n \div Base \in Nat
                     /\ n >= Base => n \div Base < n
  <2> SUFFICES ASSUME NEW n \in Nat
               PROVE  /\ n % Base \in Nat /\ n \div Base \in Nat
                      /\ n >= Base => n \div Base < n
    OBVIOUS
  <2> DEFINE q == n \div Base
             r == n % Base
  <2>0. Base \in Nat \ {0} /\ Base > 1
    BY FramingAssumption
  <2>1. q \in Nat /\ r \in 0..Base - 1 /\ n = Base * q + r /\ Base \in Nat /\ Base > 1
    BY <2>0, Division
  <2> HIDE DEF q, r
  <2>2. Base * q >= 2 * q
    <3>1. (Base - 2) * q >= 0
      BY <2>1
    <3>2. (Base - 2) * q = Base * q - 2 * q
      BY <2>1
    <3>3. QED
      BY <2>1, <3>1, <3>2
  <2>3. n >= Base => q < n
    BY <2>1, <2>2
  <2>4. QED
    BY <2>1, <2>3 DEF q, r
<1>2. ASSUME NEW n \in Nat, NEW g \in [Nat -> X]
      PROVE  (IF n < Base THEN <<n>> ELSE <<(n % Base) + Base>> \o g[n \div Base]) \in X
  <2>1. <<n>> \in X
    OBVIOUS
  <2>2. <<(n % Base) + Base>> \in X
    BY <1>1, FramingAssumption
  <2>3. g[n \div Base] \in X
    BY <1>1
  <2>4. <<(n % Base) + Base>> \o g[n \div Base] \in X
    BY <2>2, <2>3, ConcatProperties
  <2>5. QED
    BY <2>1, <2>4
<1>3. H \in [Nat -> [[Nat -> X] -> X]]
  BY <1>2
<1>4. ASSUME NEW n \in Nat, NEW g \in [Nat -> X], NEW h \in [Nat -> X],
             \A k \in Nat : k < n => g[k] = h[k]
      PROVE  H[n][g] = H[n][h]
  <2>1. n >= Base => g[n \div Base] = h[n \div Base]
    BY <1>1, <1>4
  <2>2. /\ H[n][g] = IF n < Base THEN <<n>> ELSE <<(n % Base) + Base>> \o g[n \div Base]
        /\ H[n][h] = IF n < Base THEN <<n>> ELSE <<(n % Base) + Base>> \o h[n \div Base]
    OBVIOUS
  <2> HIDE DEF H
  <2>3. n < Base \/ n >= Base
    BY FramingAssumption
  <2>4. QED
    BY <2>1, <2>2, <2>3
<1>5. <<>> \in X
  OBVIOUS
<1>6. \E f \in [Nat -> X] : \A n \in Nat : f[n] = H[n][f]
  <2> DEFINE D == Nat
  <2>1. Descends(D, X, H)
    <3> HIDE DEF H, X
    <3>1. QED
      BY <1>3, <1>4 DEF Descends
  <2>2. D \in SUBSET Nat /\ X # {}
    BY <1>5
  <2> HIDE DEF D, H, X
  <2>3. \E f \in [D -> X] : \A n \in D : f[n] = H[n][f]
    BY <2>1, <2>2, RecursiveFcn
  <2>4. QED
    BY <2>3 DEF D
<1>7. PICK f \in [Nat -> X] : \A n \in Nat : f[n] = H[n][f]
  BY <1>6
<1>8. f = [n \in Nat |-> IF n < Base THEN <<n>> ELSE <<(n % Base) + Base>> \o f[n \div Base]]
  <2>1. \A n \in Nat : H[n][f] = IF n < Base THEN <<n>> ELSE <<(n % Base) + Base>> \o f[n \div Base]
    OBVIOUS
  <2>2. \A n \in Nat : f[n] = IF n < Base THEN <<n>> ELSE <<(n % Base) + Base>> \o f[n \div Base]
    BY <1>7, <2>1
  <2>3. f = [n \in Nat |-> f[n]]
    OBVIOUS
  <2>4. QED
    BY <2>2, <2>3
<1>9. Digits = [n \in Nat |-> IF n < Base THEN <<n>> ELSE <<(n % Base) + Base>> \o Digits[n \div Base]]
  BY <1>8 DEF Digits
<1>10. \A n \in Nat : Digits[n] = IF n < Base THEN <<n>> ELSE <<(n % Base) + Base>> \o Digits[n \div Base]
  BY <1>9
<1>11. QED
  <2> DEFINE T == {n \in Nat : Digits[n] \notin X}
  <2>1. SUFFICES ASSUME T # {} PROVE FALSE
    BY <1>9, <1>10, Zenon
  <2>2. PICK x \in T : \A y \in T : x <= y
    <3>1. T \in SUBSET Nat
      OBVIOUS
    <3> HIDE DEF T
    <3>2. QED
      BY <2>1, <3>1, LeastOf
  <2> HIDE DEF X
  <2>3. x \in Nat /\ Digits[x] \notin X /\ \A y \in Nat : y < x => Digits[y] \in X
    BY <2>2
  <2> HIDE DEF T
  <2>4. CASE x < Base
    <3>1. <<x>> \in X
      BY <2>3 DEF X
    <3>2. QED
      BY <1>10, <2>3, <2>4, <3>1
  <2>5. CASE ~(x < Base)
    <3>1. Digits[x \div Base] \in X
      BY <1>1, <2>3, <2>5, FramingAssumption
    <3>2. <<(x % Base) + Base>> \in X
      BY <1>1, <2>3, FramingAssumption DEF X
    <3>3. <<(x % Base) + Base>> \o Digits[x \div Base] \in X
      BY <3>1, <3>2, ConcatProperties DEF X
    <3>4. QED
      BY <1>10, <2>3, <2>5, <3>3
  <2>6. QED
    BY <2>4, <2>5

(* What the server sends: the bytes of a length, of a packet and of        *)
(* several.                                                                *)
Octets == [part : {"packet"}, conn : Nat, of : Nat, at : Nat, val : Nat]

Single(c, i, val) == <<Octet(c, i, 0, val)>>

LEMMA OneOctet ==
  ASSUME NEW c \in Nat, NEW i \in Nat, NEW at \in Nat, NEW val \in Nat
  PROVE  Octet(c, i, at, val) \in Octets /\ Octet(c, i, at, val).val = val
BY DEF Octet, Octets

LEMMA SingleIs ==
  ASSUME NEW c \in Nat, NEW i \in Nat, NEW val \in Nat
  PROVE  /\ Single(c, i, val) \in Seq(Octets) /\ Len(Single(c, i, val)) = 1
         /\ Single(c, i, val)[1] = Octet(c, i, 0, val)
<1>1. 0 \in Nat
  OBVIOUS
<1>2. Octet(c, i, 0, val) \in Octets
  BY <1>1, OneOctet
<1>3. QED
  BY <1>2 DEF Single

(* Two pieces one behind the other. *)
LEMMA Join ==
  ASSUME NEW S, NEW s \in Seq(S), NEW t \in Seq(S)
  PROVE  /\ s \o t \in Seq(S) /\ Len(s \o t) = Len(s) + Len(t)
         /\ Len(s) \in Nat /\ Len(t) \in Nat
         /\ \A i \in 1..Len(s) : (s \o t)[i] = s[i]
         /\ \A i \in 1..Len(t) : (s \o t)[Len(s) + i] = t[i]
<1>1. /\ s \o t \in Seq(S) /\ Len(s \o t) = Len(s) + Len(t)
      /\ \A i \in 1..Len(s) + Len(t) : (s \o t)[i] = IF i <= Len(s) THEN s[i] ELSE t[i - Len(s)]
  BY ConcatProperties
<1>2. Len(s) \in Nat /\ Len(t) \in Nat
  BY LenProperties
<1>3. \A i \in 1..Len(s) : i \in 1..Len(s) + Len(t) /\ i <= Len(s)
  BY <1>2
<1>4. \A i \in 1..Len(t) : /\ Len(s) + i \in 1..Len(s) + Len(t) /\ ~(Len(s) + i <= Len(s))
                           /\ Len(s) + i - Len(s) = i
  BY <1>2
<1>5. QED
  BY <1>1, <1>2, <1>3, <1>4

LEMMA PayloadIs ==
  ASSUME NEW c \in Nat, NEW i \in Nat, NEW n \in Nat
  PROVE  Payload(c, i, n) \in Seq(Octets) /\ Len(Payload(c, i, n)) = n
<1>1. \A k \in 1..n : Octet(c, i, k, 1) \in Octets
  BY OneOctet
<1>2. Payload(c, i, n) \in [1..n -> Octets]
  BY <1>1 DEF Payload
<1>3. QED
  BY <1>2, Cells

(* A length is its lowest digit and the length of the rest.               *)
LEMMA LengthIs ==
  ASSUME NEW c \in Nat, NEW i \in Nat, NEW n \in Nat
  PROVE  /\ Length(c, i, n) \in Seq(Octets)
         /\ n < Base => Length(c, i, n) = Single(c, i, n)
         /\ n >= Base => Length(c, i, n) = Single(c, i, (n % Base) + Base) \o Length(c, i, n \div Base)
<1> DEFINE r == n % Base
           q == n \div Base
<1>1. r \in Nat /\ q \in Nat /\ Base \in Nat
  <2>1. Base \in Nat \ {0}
    BY FramingAssumption
  <2>2. QED
    BY <2>1, Division
<1>2. Digits[n] = IF n < Base THEN <<n>> ELSE <<r + Base>> \o Digits[q]
  BY DigitsAre
<1> HIDE DEF r, q
<1>3. \A m \in Nat : /\ Digits[m] \in Seq(Nat)
                     /\ Length(c, i, m) \in [1..Len(Digits[m]) -> Octets]
                     /\ Length(c, i, m) \in Seq(Octets) /\ Len(Length(c, i, m)) = Len(Digits[m])
                     /\ \A k \in 1..Len(Digits[m]) : Length(c, i, m)[k] = Octet(c, i, 0, Digits[m][k])
  <2> SUFFICES ASSUME NEW m \in Nat
               PROVE  /\ Digits[m] \in Seq(Nat)
                      /\ Length(c, i, m) \in [1..Len(Digits[m]) -> Octets]
                      /\ Length(c, i, m) \in Seq(Octets) /\ Len(Length(c, i, m)) = Len(Digits[m])
                      /\ \A k \in 1..Len(Digits[m]) : Length(c, i, m)[k] = Octet(c, i, 0, Digits[m][k])
    OBVIOUS
  <2>1. Digits[m] \in Seq(Nat)
    BY DigitsAre
  <2>2. Len(Digits[m]) \in Nat /\ \A k \in 1..Len(Digits[m]) : Digits[m][k] \in Nat
    BY <2>1, ElementOfSeq, LenProperties
  <2>3. \A k \in 1..Len(Digits[m]) : Octet(c, i, 0, Digits[m][k]) \in Octets
    BY <2>2, OneOctet
  <2>4. Length(c, i, m) \in [1..Len(Digits[m]) -> Octets]
    BY <2>3 DEF Length
  <2> DEFINE z == Len(Digits[m])
             l == Length(c, i, m)
  <2>5. l \in [1..z -> Octets] /\ z \in Nat /\ \A k \in 1..z : l[k] = Octet(c, i, 0, Digits[m][k])
    BY <2>2, <2>4 DEF Length
  <2> HIDE DEF z, l
  <2>6. l \in Seq(Octets) /\ Len(l) = z
    BY <2>5, Cells
  <2>7. QED
    BY <2>1, <2>5, <2>6 DEF z, l
<1>4. CASE n < Base
  <2>1. Digits[n] = <<n>> /\ Len(Digits[n]) = 1 /\ Digits[n][1] = n /\ 1 \in 1..1
    BY <1>2, <1>4
  <2>2. Length(c, i, n) \in Seq(Octets) /\ Len(Length(c, i, n)) = 1 /\ Length(c, i, n)[1] = Octet(c, i, 0, n)
    BY <1>3, <2>1
  <2> DEFINE l == Length(c, i, n)
             o == Single(c, i, n)
  <2>a. o \in Seq(Octets) /\ Len(o) = 1 /\ o[1] = Octet(c, i, 0, n) /\ 0 \in Nat
    BY SingleIs
  <2>b. l \in Seq(Octets) /\ Len(l) = Len(o) /\ \A k \in 1..Len(l) : l[k] = o[k]
    BY <2>2, <2>a
  <2> HIDE DEF l, o
  <2>c. l = o
    BY <2>a, <2>b, SeqEqual
  <2>3. Length(c, i, n) = Single(c, i, n)
    BY <2>c DEF l, o
  <2>4. ~(n >= Base) /\ Length(c, i, n) \in Seq(Octets)
    BY <1>1, <1>3, <1>4
  <2>5. QED
    BY <1>4, <2>3, <2>4, Zenon
<1>5. CASE n >= Base
  <2> DEFINE h == Single(c, i, r + Base)
             t == Length(c, i, q)
             d == Digits[q]
             u == h \o t
  <2>1. h \in Seq(Octets) /\ Len(h) = 1 /\ h[1] = Octet(c, i, 0, r + Base)
    <3>1. r + Base \in Nat
      BY <1>1
    <3>2. QED
      BY <3>1, SingleIs
  <2>2. /\ d \in Seq(Nat) /\ Len(d) \in Nat /\ t \in Seq(Octets) /\ Len(t) = Len(d)
        /\ \A k \in 1..Len(d) : t[k] = Octet(c, i, 0, d[k])
    BY <1>1, <1>3, LenProperties
  <2>3. /\ Digits[n] = <<r + Base>> \o d /\ Len(Digits[n]) = 1 + Len(d)
        /\ Digits[n][1] = r + Base
        /\ \A k \in 1..Len(d) : Digits[n][1 + k] = d[k]
    <3>1. Digits[n] = <<r + Base>> \o d
      BY <1>1, <1>2, <1>5
    <3> DEFINE e == <<r + Base>>
    <3>2. e \in Seq(Nat) /\ Len(e) = 1 /\ e[1] = r + Base /\ 1 \in 1..1
      BY <1>1
    <3> HIDE DEF e
    <3>3. /\ Len(e \o d) = Len(e) + Len(d)
          /\ \A k \in 1..Len(e) : (e \o d)[k] = e[k]
          /\ \A k \in 1..Len(d) : (e \o d)[Len(e) + k] = d[k]
      <4>1. e \in Seq(Nat) /\ d \in Seq(Nat)
        BY <2>2, <3>2
      <4>2. QED
        BY <4>1
    <3>4. QED
      BY <3>1, <3>2, <3>3 DEF e
  <2> HIDE DEF h, t, d
  <2>4. /\ u \in Seq(Octets) /\ Len(u) = 1 + Len(d)
        /\ u[1] = Octet(c, i, 0, r + Base)
        /\ \A k \in 1..Len(d) : u[1 + k] = t[k]
    <3>1. /\ u \in Seq(Octets) /\ Len(u) = Len(h) + Len(t)
          /\ \A k \in 1..Len(h) : u[k] = h[k]
          /\ \A k \in 1..Len(t) : u[Len(h) + k] = t[k]
      <4>1. h \in Seq(Octets) /\ t \in Seq(Octets)
        BY <2>1, <2>2
      <4>2. QED
        BY <4>1
    <3>2. QED
      BY <2>1, <2>2, <3>1
  <2> HIDE DEF u
  <2> DEFINE l == Length(c, i, n)
  <2>5. /\ l \in Seq(Octets) /\ Len(l) = 1 + Len(d)
        /\ \A k \in 1..1 + Len(d) : l[k] = Octet(c, i, 0, Digits[n][k])
    BY <1>3, <2>3
  <2> HIDE DEF l
  <2>6. ASSUME NEW k \in 1..1 + Len(d) PROVE l[k] = u[k]
    <3>1. CASE k = 1
      BY <2>3, <2>4, <2>5, <3>1
    <3>2. CASE k # 1
      <4>1. PICK j \in 1..Len(d) : k = 1 + j
        <5>1. k - 1 \in 1..Len(d) /\ k = 1 + (k - 1)
          BY <2>2, <3>2
        <5>2. QED
          BY <5>1
      <4>2. Digits[n][k] = d[j] /\ u[k] = t[j]
        BY <2>3, <2>4, <4>1
      <4>3. QED
        BY <2>2, <2>5, <4>1, <4>2
    <3>3. QED
      BY <3>1, <3>2
  <2>7. l = u
    BY <2>4, <2>5, <2>6, SeqEqual
  <2>8. Length(c, i, n) = Single(c, i, r + Base) \o Length(c, i, q) /\ Length(c, i, n) \in Seq(Octets)
    BY <2>5, <2>7 DEF l, u, h, t
  <2>9. ~(n < Base)
    BY <1>1, <1>5
  <2>10. QED
    BY <2>8, <2>9 DEF r, q
<1>6. n < Base \/ n >= Base
  BY <1>1
<1>7. QED
  BY <1>4, <1>5, <1>6

(* s and then t; under a name, for the provers to find the terms again.    *)
Before(s, t) == s \o t

(* The parts of a packet, each in front of all that follows it.            *)
LEMMA PacketIs ==
  ASSUME NEW c \in Nat, NEW i \in Nat, NEW n \in Nat, NEW rest \in Seq(Octets)
  PROVE  /\ Packet(c, i, n) \in Seq(Octets)
         /\ Before(Packet(c, i, n), rest) =
              Before(Single(c, i, 0), Before(Length(c, i, n), Before(Payload(c, i, n), rest)))
<1> DEFINE h == Single(c, i, 0)
           d == Length(c, i, n)
           p == Payload(c, i, n)
           pr == p \o rest
<1>1. h \in Seq(Octets) /\ d \in Seq(Octets) /\ p \in Seq(Octets)
  <2>1. 0 \in Nat
    OBVIOUS
  <2>2. h \in Seq(Octets)
    BY <2>1, SingleIs
  <2>3. d \in Seq(Octets)
    BY LengthIs
  <2>4. p \in Seq(Octets)
    BY PayloadIs
  <2>5. QED
    BY <2>2, <2>3, <2>4
<1>2. Packet(c, i, n) = (h \o d) \o p
  BY DEF Packet, Single
<1> HIDE DEF h, d, p
<1>3. h \o d \in Seq(Octets) /\ (h \o d) \o p \in Seq(Octets) /\ pr \in Seq(Octets)
  <2>1. h \o d \in Seq(Octets) /\ pr \in Seq(Octets)
    BY <1>1, ConcatProperties
  <2>2. (h \o d) \o p \in Seq(Octets)
    BY <1>1, <2>1, ConcatProperties
  <2>3. QED
    BY <2>1, <2>2
<1>4. ((h \o d) \o p) \o rest = (h \o d) \o (p \o rest)
  <2> DEFINE hd == h \o d
  <2>1. hd \in Seq(Octets) /\ p \in Seq(Octets)
    BY <1>1, <1>3
  <2> HIDE DEF hd
  <2>2. (hd \o p) \o rest = hd \o (p \o rest)
    BY <2>1, ConcatAssociative
  <2>3. QED
    BY <2>2 DEF hd
<1>5. (h \o d) \o pr = h \o (d \o pr)
  <2>1. h \in Seq(Octets) /\ d \in Seq(Octets) /\ pr \in Seq(Octets)
    BY <1>1, <1>3
  <2> HIDE DEF pr
  <2>2. QED
    BY <2>1, ConcatAssociative
<1>6. QED
  BY <1>2, <1>3, <1>4, <1>5 DEF Before, h, d, p

LEMMA LengthNotEmpty ==
  ASSUME NEW c \in Nat, NEW i \in Nat, NEW n \in Nat
  PROVE  Length(c, i, n) \in Seq(Octets) /\ Len(Length(c, i, n)) >= 1
<1>1. Base \in Nat \ {0}
  BY FramingAssumption
<1>2. n \div Base \in Nat /\ n % Base \in Nat
  BY <1>1, Division
<1>3. CASE n < Base
  <2>1. Length(c, i, n) = Single(c, i, n)
    BY <1>3, LengthIs
  <2>2. Length(c, i, n) \in Seq(Octets)
    BY LengthIs
  <2>3. Len(Single(c, i, n)) = 1
    BY SingleIs
  <2>4. QED
    BY <2>1, <2>2, <2>3
<1>4. CASE n >= Base
  <2> DEFINE o == Single(c, i, (n % Base) + Base)
             t == Length(c, i, n \div Base)
  <2>1. Length(c, i, n) = o \o t
    BY <1>4, LengthIs
  <2>2. o \in Seq(Octets) /\ Len(o) = 1 /\ t \in Seq(Octets)
    <3>1. t \in Seq(Octets)
      BY <1>2, LengthIs
    <3>2. (n % Base) + Base \in Nat
      BY <1>1, <1>2
    <3>3. QED
      BY <3>1, <3>2, SingleIs
  <2> HIDE DEF o, t
  <2>3. Len(o \o t) = Len(o) + Len(t) /\ Len(t) \in Nat
    BY <2>2, Join
  <2>4. QED
    BY <2>1, <2>2, <2>3, LengthIs
<1>5. QED
  BY <1>1, <1>3, <1>4

(* The last k packets of s, by the number of them. *)
LEMMA UnsentIs ==
  ASSUME NEW c \in Nat, NEW s \in Seq(Nat)
  PROVE  /\ Unsent(c, s)[0] = <<>>
         /\ \A k \in 0..Len(s) : Unsent(c, s)[k] \in Seq(Octets)
         /\ \A k \in 1..Len(s) :
              Unsent(c, s)[k] = Packet(c, Len(s) - k + 1, s[Len(s) - k + 1]) \o Unsent(c, s)[k - 1]
<1> DEFINE N == Len(s)
           D == 0..N
           X == Seq(Octets)
           P(k) == Packet(c, N - k + 1, s[N - k + 1])
           H == [k \in D |-> [g \in [D -> X] |-> IF k = 0 THEN <<>> ELSE P(k) \o g[k - 1]]]
           F == Unsent(c, s)
<1>1. N \in Nat /\ D \in SUBSET Nat /\ <<>> \in X
  <2>1. N \in Nat
    BY LenProperties
  <2>2. QED
    BY <2>1
<1>2. ASSUME NEW k \in 1..N PROVE P(k) \in X
  <2>1. N - k + 1 \in Nat /\ N - k + 1 \in 1..N
    BY <1>1
  <2>2. s[N - k + 1] \in Nat
    BY <2>1, ElementOfSeq
  <2>3. <<>> \in Seq(Octets)
    OBVIOUS
  <2>4. QED
    BY <2>1, <2>2, <2>3, PacketIs
<1>3. \A k \in D : k = 0 \/ (k \in 1..N /\ k - 1 \in D /\ k - 1 < k)
  BY <1>1
<1> HIDE DEF P, N, D
<1>4. ASSUME NEW k \in D, NEW g \in [D -> X]
      PROVE  (IF k = 0 THEN <<>> ELSE P(k) \o g[k - 1]) \in X
  <2>1. k # 0 => P(k) \in Seq(Octets) /\ g[k - 1] \in Seq(Octets)
    BY <1>2, <1>3
  <2>2. k # 0 => P(k) \o g[k - 1] \in Seq(Octets)
    BY <2>1
  <2>3. QED
    BY <1>1, <2>2
<1>5. Descends(D, X, H)
  <2>1. H \in [D -> [[D -> X] -> X]]
    BY <1>4
  <2>2. ASSUME NEW k \in D, NEW g \in [D -> X], NEW h \in [D -> X], \A j \in D : j < k => g[j] = h[j]
        PROVE  H[k][g] = H[k][h]
    <3>1. /\ H[k][g] = IF k = 0 THEN <<>> ELSE P(k) \o g[k - 1]
          /\ H[k][h] = IF k = 0 THEN <<>> ELSE P(k) \o h[k - 1]
      OBVIOUS
    <3> HIDE DEF H
    <3>2. QED
      BY <1>3, <2>2, <3>1
  <2> HIDE DEF H, X
  <2>3. QED
    BY <2>1, <2>2 DEF Descends
<1>6. PICK f \in [D -> X] : \A k \in D : f[k] = H[k][f]
  <2> HIDE DEF H, X
  <2>1. X # {}
    BY <1>1
  <2>2. QED
    BY <1>1, <1>5, <2>1, RecursiveFcn
<1>7. f = [k \in D |-> IF k = 0 THEN <<>> ELSE P(k) \o f[k - 1]]
  <2>1. \A k \in D : H[k][f] = IF k = 0 THEN <<>> ELSE P(k) \o f[k - 1]
    OBVIOUS
  <2> HIDE DEF H
  <2>2. \A k \in D : f[k] = IF k = 0 THEN <<>> ELSE P(k) \o f[k - 1]
    BY <1>6, <2>1
  <2>3. f = [k \in D |-> f[k]]
    OBVIOUS
  <2>4. QED
    BY <2>2, <2>3
<1>8. F = [k \in D |-> IF k = 0 THEN <<>> ELSE P(k) \o F[k - 1]]
  <2>1. F = CHOOSE g : g = [k \in D |-> IF k = 0 THEN <<>> ELSE P(k) \o g[k - 1]]
    BY DEF Unsent, P, D, N
  <2> HIDE DEF F
  <2>2. QED
    BY <1>7, <2>1
<1> HIDE DEF F, H
<1>9. \A k \in D : F[k] = IF k = 0 THEN <<>> ELSE P(k) \o F[k - 1]
  BY <1>8
<1>10. \A k \in D : F[k] \in X
  <2> DEFINE T == {k \in D : F[k] \notin X}
  <2>1. SUFFICES ASSUME T # {} PROVE FALSE
    OBVIOUS
  <2>2. PICK x \in T : \A y \in T : x <= y
    <3>1. T \in SUBSET Nat
      BY <1>1
    <3> HIDE DEF T
    <3>2. QED
      BY <2>1, <3>1, LeastOf
  <2>3. x \in D /\ F[x] \notin X /\ \A y \in D : y < x => F[y] \in X
    BY <1>1, <2>2
  <2> HIDE DEF T
  <2>4. CASE x = 0
    BY <1>1, <1>9, <2>3, <2>4
  <2>5. CASE x # 0
    <3>1. P(x) \in Seq(Octets) /\ F[x - 1] \in Seq(Octets)
      BY <1>2, <1>3, <2>3, <2>5
    <3>2. P(x) \o F[x - 1] \in Seq(Octets)
      BY <3>1
    <3>3. QED
      BY <1>9, <2>3, <2>5, <3>2
  <2>6. QED
    BY <2>4, <2>5
<1>11. 0 \in D /\ \A k \in 1..N : k \in D /\ k # 0
  BY <1>1 DEF D
<1>12. F[0] = <<>> /\ \A k \in 1..N : F[k] = P(k) \o F[k - 1]
  BY <1>9, <1>11
<1>13. QED
  BY <1>10, <1>12 DEF F, P, N, D

-----------------------------------------------------------------------------

(* The buffer and then the wire hold w. *)
Coming(w) ==
  /\ wire \in Seq(Byte)
  /\ Len(w) = consume_size + Len(wire)
  /\ \A i \in 1..consume_size : content[i] = w[i]
  /\ \A i \in 1..Len(wire) : wire[i] = w[consume_size + i]

(* Receiving moves bytes from the wire to the buffer. *)
LEMMA ReceiveComing ==
  ASSUME BufferTypeOK, NEW n \in Nat, Receive(n), NEW w, Coming(w)
  PROVE  /\ BufferTypeOK' /\ Coming(w)' /\ consume_size \in Nat
         /\ \E k \in 0..n : consume_size' = consume_size + k /\ k = Len(wire) - Len(wire')
<1>1. PICK k \in 0..Smaller(n, Len(wire)) :
        /\ Fill(n, SubSeq(wire, 1, k))
        /\ wire' = SubSeq(wire, k + 1, Len(wire))
  BY DEF Receive
<1>2. wire \in Seq(Byte) /\ Len(wire) \in Nat /\ consume_size \in Nat
  BY BufferTypes, LenProperties DEF Coming
<1>3. k \in 0..Len(wire) /\ k \in 0..n /\ k \in Nat
  BY <1>2 DEF Smaller
<1> DEFINE bytes == SubSeq(wire, 1, k)
           rest == SubSeq(wire, k + 1, Len(wire))
<1>4. /\ bytes \in Seq(Byte) /\ Len(bytes) = k /\ \A i \in 1..k : bytes[i] = wire[i]
      /\ rest \in Seq(Byte) /\ Len(rest) = Len(wire) - k
      /\ \A i \in 1..Len(wire) - k : rest[i] = wire[k + i]
  BY <1>2, <1>3, WireSplit
<1>5. Fill(n, bytes) /\ wire' = rest
  BY <1>1
<1> HIDE DEF bytes, rest
<1>6. /\ BufferTypeOK' /\ consume_size' = consume_size + k
      /\ \A i \in 1..consume_size : content'[i] = content[i]
      /\ \A i \in 1..k : content'[consume_size + i] = bytes[i]
  BY <1>4, <1>5, FillIs
<1>7. /\ Len(w) = consume_size + Len(wire)
      /\ \A i \in 1..consume_size : content[i] = w[i]
      /\ \A i \in 1..Len(wire) : wire[i] = w[consume_size + i]
  BY DEF Coming
<1>8. ASSUME NEW i \in 1..consume_size'
      PROVE  content'[i] = w[i]
  <2>1. CASE i <= consume_size
    BY <1>2, <1>3, <1>6, <1>7, <2>1
  <2>2. CASE i > consume_size
    <3>1. i - consume_size \in 1..k /\ i - consume_size \in 1..Len(wire)
          /\ consume_size + (i - consume_size) = i
      BY <1>2, <1>3, <1>6, <2>2
    <3>2. content'[i] = wire[i - consume_size]
      BY <1>4, <1>6, <3>1
    <3>3. QED
      BY <1>7, <3>1, <3>2
  <2>3. QED
    BY <1>2, <1>3, <1>6, <2>1, <2>2
<1>9. ASSUME NEW i \in 1..Len(wire')
      PROVE  wire'[i] = w[consume_size' + i]
  <2>1. i \in 1..Len(wire) - k /\ k + i \in 1..Len(wire) /\ consume_size + (k + i) = consume_size' + i
    BY <1>2, <1>3, <1>4, <1>5, <1>6
  <2>2. wire'[i] = wire[k + i]
    BY <1>4, <1>5, <2>1
  <2>3. QED
    BY <1>7, <2>1, <2>2
<1>10. Len(w) = consume_size' + Len(wire') /\ k = Len(wire) - Len(wire') /\ wire' \in Seq(Byte)
  <2>1. wire' \in Seq(Byte) /\ Len(wire') = Len(wire) - k
    BY <1>4, <1>5
  <2>2. Len(w) = consume_size + Len(wire) /\ consume_size' = consume_size + k
    BY <1>6, <1>7
  <2>3. QED
    BY <1>2, <1>3, <2>1, <2>2
<1>11. Coming(w)'
  BY <1>8, <1>9, <1>10 DEF Coming
<1>12. QED
  BY <1>2, <1>3, <1>6, <1>10, <1>11

(* Taking leaves what is behind the bytes that were taken. *)
LEMMA TakeComing ==
  ASSUME BufferTypeOK, NEW u \in Seq(Octets), NEW v \in Seq(Octets), NEW w, w = u \o v, Coming(w),
         Len(u) <= consume_size, Take(Len(u)), wire' = wire
  PROVE  /\ BufferTypeOK' /\ consume_size \in Nat /\ consume_size' = consume_size - Len(u) /\ Coming(v)'
         /\ \A i \in 1..Len(u) : content[i] = u[i]
<1>1. /\ Len(w) = Len(u) + Len(v) /\ Len(u) \in Nat /\ Len(v) \in Nat
      /\ \A i \in 1..Len(u) : w[i] = u[i]
      /\ \A i \in 1..Len(v) : w[Len(u) + i] = v[i]
  BY Join
<1>2. consume_size \in Nat /\ Len(u) \in 0..consume_size
  BY <1>1, BufferTypes
<1>3. /\ BufferTypeOK' /\ consume_size' = consume_size - Len(u)
      /\ \A i \in 1..consume_size - Len(u) : content'[i] = content[Len(u) + i]
  BY <1>2, TakeIs
<1>4. /\ wire \in Seq(Byte) /\ Len(wire) \in Nat /\ Len(w) = consume_size + Len(wire)
      /\ \A i \in 1..consume_size : content[i] = w[i]
      /\ \A i \in 1..Len(wire) : wire[i] = w[consume_size + i]
  BY LenProperties DEF Coming
<1> DEFINE l == Len(u)
<1> HIDE DEF l
<1>5. ASSUME NEW i \in 1..consume_size'
      PROVE  content'[i] = v[i]
  <2>1. i \in 1..consume_size - Len(u) /\ Len(u) + i \in 1..consume_size /\ i \in 1..Len(v)
    BY <1>1, <1>2, <1>3, <1>4
  <2>2. QED
    BY <1>1, <1>3, <1>4, <2>1
<1>6. ASSUME NEW i \in 1..Len(wire)
      PROVE  wire[i] = v[consume_size' + i]
  <2>1. consume_size' + i \in 1..Len(v) /\ Len(u) + (consume_size' + i) = consume_size + i
    BY <1>1, <1>2, <1>3, <1>4
  <2>2. QED
    BY <1>1, <1>4, <2>1
<1>7. Len(v) = consume_size' + Len(wire)
  BY <1>1, <1>2, <1>3, <1>4
<1>8. Coming(v)'
  BY <1>4, <1>5, <1>6, <1>7 DEF Coming
<1>9. ASSUME NEW i \in 1..Len(u) PROVE content[i] = u[i]
  <2>1. i \in 1..consume_size
    BY <1>2
  <2>2. QED
    BY <1>1, <1>4, <2>1
<1>10. QED
  BY <1>2, <1>3, <1>8, <1>9

(* The packets that the server has sent and the client has not handled.    *)
ToCome == Len(sent) - Len(handled)

(* The one that is being read, and the bytes behind its header and length. *)
Current == Len(handled) + 1
Rest == Payload(conn, Current, sent[Current]) \o Unsent(conn, sent)[ToCome - 1]

(* What was handled is what was sent. *)
Whole == \A i \in 1..Len(handled) :
  handled[i] = [header |-> Octet(conn, i, 0, 0), payload |-> Payload(conn, i, sent[i])]

(* What holds between any two steps. *)
FrameTypes ==
  /\ BufferTypeOK
  /\ conn \in 0..MaxConn /\ sent \in Seq(0..Modulus - 1)
  /\ handled \in Seq([header : Byte, payload : Seq(Byte)]) /\ fixed_header \in Byte
  /\ Len(handled) <= Len(sent) /\ Whole

(* While the first byte of a packet is read. *)
HeaderInv ==
  /\ missing \in Nat /\ consume_size + missing = 1
  /\ Coming(Unsent(conn, sent)[ToCome])

(* While its length is read: r is what the digits to come say, and with    *)
(* those that have come it makes the length of the packet.                 *)
LengthInv ==
  /\ missing \in Nat /\ consume_size + missing = 1
  /\ ToCome > 0 /\ fixed_header = Octet(conn, Current, 0, 0)
  /\ remaining_length \in Nat /\ remaining_length_multiplier \in Nat
  /\ \E r \in Nat :
       /\ Coming(Length(conn, Current, r) \o Rest)
       /\ (remaining_length + remaining_length_multiplier * r) % Modulus = sent[Current]

(* While its payload is read. *)
PayloadInv ==
  /\ missing \in Nat /\ consume_size + missing = sent[Current]
  /\ ToCome > 0 /\ fixed_header = Octet(conn, Current, 0, 0)
  /\ remaining_length = sent[Current]
  /\ Coming(Rest)

(* When it was too large. *)
DeadInv == missing = 0 /\ sent[Current] > MaxBuffer

(* The inductive invariant, as long as no bytes of a lost connection stay  *)
(* in the buffer.                                                          *)
FrameInv ==
  /\ FrameTypes
  /\ step \in {"idle", "header", "length", "payload", "dead"}
  /\ step = "idle" => missing = 0
  /\ step = "header" => HeaderInv
  /\ step = "length" => LengthInv
  /\ step = "payload" => PayloadInv
  /\ step = "dead" => DeadInv

(* The types of what is to come. *)
LEMMA SentIs ==
  ASSUME FrameTypes
  PROVE  /\ conn \in Nat /\ sent \in Seq(Nat) /\ Len(sent) \in Nat /\ Len(handled) \in Nat
         /\ Modulus \in Nat \ {0} /\ ToCome \in 0..Len(sent)
         /\ Unsent(conn, sent)[ToCome] \in Seq(Octets)
         /\ ToCome = 0 => Unsent(conn, sent)[ToCome] = <<>>
<1>1. conn \in Nat /\ Modulus \in Nat \ {0} /\ sent \in Seq(0..Modulus - 1)
  BY FramingAssumption DEF FrameTypes
<1>2. sent \in Seq(Nat)
  <2>1. 0..Modulus - 1 \subseteq Nat
    BY <1>1
  <2>2. QED
    BY <1>1, <2>1, SeqMonotonic
<1>3. Len(sent) \in Nat /\ Len(handled) \in Nat /\ Len(handled) <= Len(sent)
  BY <1>2, LenProperties DEF FrameTypes
<1>4. ToCome \in 0..Len(sent)
  BY <1>3 DEF ToCome
<1>5. QED
  BY <1>1, <1>2, <1>3, <1>4, UnsentIs

(* The bytes of the packet that is next.                                   *)
LEMMA NextPacket ==
  ASSUME FrameTypes, ToCome > 0
  PROVE  /\ Current \in 1..Len(sent) /\ sent[Current] \in 0..Modulus - 1
         /\ Payload(conn, Current, sent[Current]) \in Seq(Octets)
         /\ Len(Payload(conn, Current, sent[Current])) = sent[Current]
         /\ Unsent(conn, sent)[ToCome - 1] \in Seq(Octets)
         /\ Rest \in Seq(Octets)
         /\ Unsent(conn, sent)[ToCome] =
              Single(conn, Current, 0) \o (Length(conn, Current, sent[Current]) \o Rest)
<1>1. /\ conn \in Nat /\ sent \in Seq(Nat) /\ Len(sent) \in Nat /\ Len(handled) \in Nat
      /\ ToCome \in 1..Len(sent)
  BY SentIs
<1>2. Current = Len(sent) - ToCome + 1 /\ Current \in 1..Len(sent) /\ ToCome - 1 \in 0..Len(sent)
  BY <1>1 DEF Current, ToCome
<1>3. sent[Current] \in 0..Modulus - 1 /\ sent[Current] \in Nat /\ Current \in Nat
  <2> DEFINE S == 0..Modulus - 1
  <2>1. sent \in Seq(S)
    BY DEF FrameTypes
  <2> HIDE DEF S
  <2>2. sent[Current] \in S
    BY <1>2, <2>1, ElementOfSeq
  <2>3. S \subseteq Nat /\ Current \in Nat
    BY <1>1, <1>2, FramingAssumption DEF S
  <2>4. QED
    BY <2>2, <2>3 DEF S
<1> DEFINE rest == Unsent(conn, sent)[ToCome - 1]
           p == Payload(conn, Current, sent[Current])
<1>4. rest \in Seq(Octets) /\ Unsent(conn, sent)[ToCome] = Packet(conn, Current, sent[Current]) \o rest
  BY <1>1, <1>2, UnsentIs
<1>5. p \in Seq(Octets) /\ Len(p) = sent[Current]
  BY <1>1, <1>3, PayloadIs
<1>6. Packet(conn, Current, sent[Current]) \o rest =
        Single(conn, Current, 0) \o (Length(conn, Current, sent[Current]) \o (p \o rest))
  <2> DEFINE n == sent[Current]
  <2>1. conn \in Nat /\ Current \in Nat /\ n \in Nat /\ rest \in Seq(Octets)
    BY <1>1, <1>3, <1>4
  <2> HIDE DEF rest, n
  <2>2. Before(Packet(conn, Current, n), rest) =
          Before(Single(conn, Current, 0),
                 Before(Length(conn, Current, n), Before(Payload(conn, Current, n), rest)))
    BY <2>1, PacketIs
  <2>3. QED
    BY <2>2, Zenon DEF Before, n, p
<1>7. p \o rest \in Seq(Octets)
  <2> HIDE DEF p, rest
  <2>1. QED
    BY <1>4, <1>5
<1>8. QED
  BY <1>2, <1>3, <1>4, <1>5, <1>6, <1>7 DEF Rest

(* What the run checks follows from the invariant.                         *)
LEMMA FrameShows ==
  ASSUME FrameInv
  PROVE  /\ Len(handled) <= Len(sent) /\ Whole
         /\ wire = <<>> /\ missing > 0 => Len(handled) = Len(sent)
         /\ step = "dead" => sent[Len(handled) + 1] > MaxBuffer
<1>1. Len(handled) <= Len(sent) /\ Whole /\ (step = "dead" => sent[Len(handled) + 1] > MaxBuffer)
  BY DEF FrameInv, FrameTypes, DeadInv, Current
<1>2. ASSUME wire = <<>>, missing > 0
      PROVE  Len(handled) = Len(sent)
  <2>1. /\ Len(sent) \in Nat /\ Len(handled) \in Nat /\ ToCome \in Nat /\ Len(wire) = 0
        /\ consume_size \in Nat
    BY <1>2, SentIs, BufferTypes DEF FrameInv, FrameTypes
  <2>2. ToCome = Len(sent) - Len(handled)
    BY DEF ToCome
  <2>3. SUFFICES ASSUME ToCome > 0 PROVE FALSE
    BY <2>1, <2>2
  <2> DEFINE o == Single(conn, Current, 0)
             p == Payload(conn, Current, sent[Current])
             u == Unsent(conn, sent)[ToCome - 1]
  <2>4. /\ conn \in Nat /\ Current \in Nat /\ sent[Current] \in Nat
        /\ p \in Seq(Octets) /\ Len(p) = sent[Current] /\ u \in Seq(Octets) /\ Rest \in Seq(Octets)
        /\ Unsent(conn, sent)[ToCome] = o \o (Length(conn, Current, sent[Current]) \o Rest)
    <3>1. FrameTypes
      BY DEF FrameInv
    <3>2. conn \in Nat /\ Modulus \in Nat \ {0} /\ Len(sent) \in Nat
      BY <3>1, SentIs
    <3>3. Current \in 1..Len(sent) /\ sent[Current] \in 0..Modulus - 1
      BY <2>3, <3>1, NextPacket
    <3>4. /\ p \in Seq(Octets) /\ Len(p) = sent[Current] /\ u \in Seq(Octets) /\ Rest \in Seq(Octets)
          /\ Unsent(conn, sent)[ToCome] = o \o (Length(conn, Current, sent[Current]) \o Rest)
      BY <2>3, <3>1, NextPacket
    <3>5. QED
      BY <3>2, <3>3, <3>4
  <2>5. CASE step = "header"
    <3> DEFINE w == Length(conn, Current, sent[Current]) \o Rest
    <3>1. w \in Seq(Octets)
      <4>1. Length(conn, Current, sent[Current]) \in Seq(Octets)
        BY <2>4, LengthIs
      <4>2. QED
        BY <2>4, <4>1
    <3>2. o \in Seq(Octets) /\ Len(o) = 1
      BY <2>4, SingleIs
    <3> HIDE DEF o, w
    <3>3. Len(o \o w) = Len(o) + Len(w) /\ Len(w) \in Nat
      BY <3>1, <3>2, Join
    <3>4. Len(o \o w) = consume_size + Len(wire) /\ consume_size + missing = 1 /\ missing \in Nat
      BY <2>4, <2>5 DEF FrameInv, HeaderInv, Coming, w
    <3>5. QED
      BY <1>2, <2>1, <3>2, <3>3, <3>4
  <2>6. CASE step = "length"
    <3>1. PICK r \in Nat : Coming(Length(conn, Current, r) \o Rest)
      BY <2>6 DEF FrameInv, LengthInv
    <3>2. Length(conn, Current, r) \in Seq(Octets) /\ Len(Length(conn, Current, r)) >= 1
      BY <2>4, LengthNotEmpty
    <3>3. /\ Len(Length(conn, Current, r) \o Rest) = Len(Length(conn, Current, r)) + Len(Rest)
          /\ Len(Rest) \in Nat /\ Len(Length(conn, Current, r)) \in Nat
      <4> DEFINE l == Length(conn, Current, r)
      <4>1. l \in Seq(Octets) /\ Rest \in Seq(Octets)
        BY <2>4, <3>2
      <4> HIDE DEF l
      <4>2. Len(l \o Rest) = Len(l) + Len(Rest) /\ Len(Rest) \in Nat /\ Len(l) \in Nat
        BY <4>1, Join
      <4>3. QED
        BY <4>2 DEF l
    <3>4. /\ Len(Length(conn, Current, r) \o Rest) = consume_size + Len(wire)
          /\ consume_size + missing = 1 /\ missing \in Nat
      BY <2>6, <3>1 DEF FrameInv, LengthInv, Coming
    <3>5. QED
      BY <1>2, <2>1, <3>2, <3>3, <3>4
  <2>7. CASE step = "payload"
    <3>1. Len(Rest) = Len(p) + Len(u) /\ Len(u) \in Nat
      <4> HIDE DEF p, u
      <4>1. Len(p \o u) = Len(p) + Len(u) /\ Len(u) \in Nat
        BY <2>4, Join
      <4>2. QED
        BY <4>1 DEF Rest, p, u
    <3>2. Len(Rest) = consume_size + Len(wire) /\ consume_size + missing = sent[Current] /\ missing \in Nat
      BY <2>7 DEF FrameInv, PayloadInv, Coming
    <3>3. QED
      BY <1>2, <2>1, <2>4, <3>1, <3>2
  <2>8. QED
    BY <1>2, <2>5, <2>6, <2>7 DEF FrameInv, DeadInv
<1>3. QED
  BY <1>1, <1>2

-----------------------------------------------------------------------------

(* What no step but a connection and the end of a packet changes.          *)
LEMMA Kept ==
  ASSUME FrameTypes, BufferTypeOK', fixed_header' \in Byte,
         conn' = conn, sent' = sent, handled' = handled
  PROVE  /\ FrameTypes' /\ ToCome' = ToCome /\ Current' = Current
         /\ Unsent(conn, sent)[ToCome]' = Unsent(conn, sent)[ToCome]
         /\ Rest' = Rest /\ sent[Current]' = sent[Current]
<1>1. ToCome' = ToCome /\ Current' = Current
  BY DEF ToCome, Current
<1>2. FrameTypes'
  BY DEF FrameTypes, Whole
<1>3. Rest' = Rest
  BY <1>1 DEF Rest
<1>4. QED
  BY <1>1, <1>2, <1>3

(* How many bytes there are. *)
LEMMA SameBytes ==
  ASSUME NEW w, Coming(w)
  PROVE  /\ wire \in Seq(Byte) /\ Len(wire) \in Nat
         /\ Len(w) = consume_size + Len(wire)
BY LenProperties DEF Coming

(* One lemma for each action. *)
LEMMA ReadStep ==
  ASSUME FrameInv, Read
  PROVE  FrameInv'
<1>1. /\ FrameTypes /\ BufferTypeOK /\ fixed_header \in Byte /\ step \in {"header", "length", "payload"}
  BY DEF FrameInv, FrameTypes, Read
<1>2. /\ Receive(missing) /\ missing' = missing - (Len(wire) - Len(wire'))
      /\ step' = step /\ fixed_header' = fixed_header /\ conn' = conn /\ sent' = sent /\ handled' = handled
      /\ remaining_length' = remaining_length /\ remaining_length_multiplier' = remaining_length_multiplier
  BY DEF Read, ReadMissing, framingVars
<1>3. missing \in Nat
  BY <1>1 DEF FrameInv, HeaderInv, LengthInv, PayloadInv
<1>4. ASSUME NEW w, Coming(w)
      PROVE  /\ BufferTypeOK' /\ Coming(w)'
             /\ missing' \in Nat /\ consume_size' + missing' = consume_size + missing
  <2>1. /\ BufferTypeOK' /\ Coming(w)' /\ consume_size \in Nat
        /\ \E k \in 0..missing : consume_size' = consume_size + k /\ k = Len(wire) - Len(wire')
    BY <1>1, <1>2, <1>3, <1>4, ReceiveComing
  <2>2. PICK k \in 0..missing : consume_size' = consume_size + k /\ k = Len(wire) - Len(wire')
    BY <2>1
  <2>3. missing' = missing - k
    BY <1>2, <2>2
  <2>4. QED
    BY <1>3, <2>1, <2>2, <2>3
<1>5. CASE step = "header"
  <2>1. /\ consume_size + missing = 1 /\ Coming(Unsent(conn, sent)[ToCome])
    BY <1>5 DEF FrameInv, HeaderInv
  <2>2. PICK w : w = Unsent(conn, sent)[ToCome] /\ Coming(w)
    BY <2>1
  <2>3. BufferTypeOK' /\ Coming(w)' /\ missing' \in Nat /\ consume_size' + missing' = 1
    BY <1>4, <2>1, <2>2
  <2>4. FrameTypes' /\ w = Unsent(conn, sent)[ToCome]'
    BY <1>1, <1>2, <2>2, <2>3, Kept
  <2>5. Coming(Unsent(conn, sent)[ToCome])'
    BY <2>3, <2>4 DEF Coming
  <2>6. QED
    BY <1>2, <1>5, <2>3, <2>4, <2>5 DEF FrameInv, HeaderInv
<1>6. CASE step = "length"
  <2>1. /\ consume_size + missing = 1
        /\ ToCome > 0 /\ fixed_header = Octet(conn, Current, 0, 0)
        /\ remaining_length \in Nat /\ remaining_length_multiplier \in Nat
    BY <1>6 DEF FrameInv, LengthInv
  <2>2. PICK r \in Nat : /\ Coming(Length(conn, Current, r) \o Rest)
                         /\ (remaining_length + remaining_length_multiplier * r) % Modulus = sent[Current]
    BY <1>6 DEF FrameInv, LengthInv
  <2>3. PICK w : w = Length(conn, Current, r) \o Rest /\ Coming(w)
    BY <2>2
  <2>4. BufferTypeOK' /\ Coming(w)' /\ missing' \in Nat /\ consume_size' + missing' = 1
    BY <1>4, <2>1, <2>3
  <2>5. FrameTypes' /\ ToCome' = ToCome /\ Current' = Current /\ Rest' = Rest /\ sent[Current]' = sent[Current]
    BY <1>1, <1>2, <2>4, Kept
  <2>6. (Length(conn, Current, r) \o Rest)' = w
    BY <1>2, <2>3, <2>5
  <2>7. Coming(Length(conn, Current, r) \o Rest)'
    BY <2>4, <2>6 DEF Coming
  <2>8. ((remaining_length + remaining_length_multiplier * r) % Modulus = sent[Current])'
    BY <1>2, <2>2, <2>5
  <2>9. LengthInv'
    BY <1>2, <2>1, <2>4, <2>5, <2>7, <2>8 DEF LengthInv
  <2>10. QED
    BY <1>2, <1>6, <2>5, <2>9 DEF FrameInv
<1>7. CASE step = "payload"
  <2>1. /\ consume_size + missing = sent[Current]
        /\ ToCome > 0 /\ fixed_header = Octet(conn, Current, 0, 0)
        /\ remaining_length = sent[Current] /\ Coming(Rest)
    BY <1>7 DEF FrameInv, PayloadInv
  <2>2. PICK w : w = Rest /\ Coming(w)
    BY <2>1
  <2>3. BufferTypeOK' /\ Coming(w)' /\ missing' \in Nat /\ consume_size' + missing' = sent[Current]
    BY <1>4, <2>1, <2>2
  <2>4. /\ FrameTypes' /\ ToCome' = ToCome /\ Current' = Current /\ Rest' = w
        /\ sent[Current]' = sent[Current]
    BY <1>1, <1>2, <2>2, <2>3, Kept
  <2>5. Coming(Rest)'
    BY <2>3, <2>4 DEF Coming
  <2>6. PayloadInv'
    BY <1>2, <2>1, <2>3, <2>4, <2>5 DEF PayloadInv
  <2>7. QED
    BY <1>2, <1>7, <2>4, <2>6 DEF FrameInv
<1>8. QED
  BY <1>1, <1>5, <1>6, <1>7

LEMMA PacketTooLargeStep ==
  ASSUME FrameInv, PacketTooLarge
  PROVE  FrameInv'
<1>1. FrameTypes /\ BufferTypeOK /\ fixed_header \in Byte /\ step \in {"header", "length", "payload"}
  BY DEF FrameInv, FrameTypes, PacketTooLarge
<1>2. /\ Throw(missing) /\ step' = "dead" /\ missing' = 0 /\ fixed_header' = fixed_header
      /\ conn' = conn /\ sent' = sent /\ handled' = handled
  BY DEF PacketTooLarge, Await
<1>3. missing \in Nat /\ MaxBuffer >= 1 /\ MaxBuffer \in Nat
  BY <1>1, BufferAssumption DEF FrameInv, HeaderInv, LengthInv, PayloadInv
<1>4. BufferTypeOK'
  BY <1>1, <1>2, <1>3, ThrowBytes
<1>5. FrameTypes' /\ sent[Current]' = sent[Current]
  BY <1>1, <1>2, <1>4, Kept
<1>6. consume_size + missing > MaxBuffer
  <2>1. Len(buffer) + missing - room > MaxBuffer
    BY <1>2 DEF Throw, Full
  <2>2. room = Len(buffer) - consume_size /\ Len(buffer) \in Nat /\ consume_size \in Nat
    BY <1>1, BufferTypes
  <2>3. QED
    BY <1>3, <2>1, <2>2
<1>7. step = "payload" /\ sent[Current] > MaxBuffer
  BY <1>1, <1>3, <1>6 DEF FrameInv, HeaderInv, LengthInv, PayloadInv
<1>8. QED
  BY <1>2, <1>5, <1>7 DEF FrameInv, DeadInv

LEMMA SmallRemainder ==
  ASSUME NEW m \in Nat \ {0}, NEW n \in 0..m - 1
  PROVE  n \in Nat /\ n % m = n
<1>1. n \in Nat /\ n \div m \in Int /\ n % m \in 0..m - 1 /\ n = m * (n \div m) + (n % m)
  BY Division
<1> DEFINE q == n \div m
           r == n % m
<1>2. q \in Int /\ r \in 0..m - 1 /\ n = m * q + r
  BY <1>1
<1> HIDE DEF q, r
<1>3. m * q + r = m * 0 + n /\ 0 \in Int
  BY <1>2
<1>4. r = n
  BY <1>2, <1>3, Quotient
<1>5. QED
  BY <1>1, <1>4 DEF r

LEMMA NextIs ==
  ASSUME FrameTypes, ToCome > 0
  PROVE  /\ conn \in Nat /\ Current \in Nat /\ Modulus \in Nat \ {0}
         /\ sent[Current] \in Nat /\ sent[Current] \in 0..Modulus - 1 /\ Rest \in Seq(Octets)
<1>1. conn \in Nat /\ Modulus \in Nat \ {0} /\ Len(sent) \in Nat
  BY SentIs
<1>2. Current \in 1..Len(sent) /\ sent[Current] \in 0..Modulus - 1 /\ Rest \in Seq(Octets)
  BY NextPacket
<1>3. QED
  BY <1>1, <1>2

LEMMA FirstByte ==
  ASSUME BufferTypeOK, consume_size >= 1
  PROVE  content[1] \in Byte
<1> DEFINE b == content
<1>1. b \in Seq(Byte) /\ Len(b) = consume_size /\ consume_size \in Nat
  BY Content, BufferTypes
<1> HIDE DEF b
<1>2. 1 \in 1..Len(b)
  BY <1>1
<1>3. b[1] \in Byte
  BY <1>1, <1>2, ElementOfSeq
<1>4. QED
  BY <1>3 DEF b

LEMMA ConnectedStep ==
  ASSUME FrameInv, Connected, consume_size = 0
  PROVE  FrameInv'
<1>1. FrameTypes /\ BufferTypeOK /\ fixed_header \in Byte /\ conn \in 0..MaxConn
  BY DEF FrameInv, FrameTypes
<1>2. PICK s \in Sendings : sent' = s /\ wire' = Bytes(conn + 1, s)
  BY DEF Connected
<1>3. /\ conn < MaxConn /\ conn' = conn + 1 /\ handled' = <<>>
      /\ step' = "header" /\ missing' = 1 /\ UNCHANGED bufferVars /\ fixed_header' = fixed_header
  BY DEF Connected, Await
<1>4. /\ MaxConn \in Nat /\ Sendings \subseteq Seq(0..Modulus - 1)
      /\ \A c \in 1..MaxConn, z \in Sendings : Bytes(c, z) \in Seq(Byte)
  BY FramingAssumption
<1>5. conn' \in 1..MaxConn /\ conn' \in 0..MaxConn /\ sent' \in Seq(0..Modulus - 1)
  BY <1>1, <1>2, <1>3, <1>4
<1>6. wire' = Bytes(conn', sent') /\ wire' \in Seq(Byte)
  BY <1>2, <1>3, <1>4, <1>5
<1>7. BufferTypeOK' /\ consume_size' = 0
  BY <1>1, <1>3 DEF bufferVars, BufferTypeOK, consume_size
<1>8. Len(handled') = 0 /\ Len(sent') \in Nat
  BY <1>3, <1>5, LenProperties
<1>9. FrameTypes'
  <2>1. <<>> \in Seq([header : Byte, payload : Seq(Byte)])
    OBVIOUS
  <2>2. Len(handled') <= Len(sent') /\ Whole'
    BY <1>8 DEF Whole
  <2>3. QED
    BY <1>1, <1>3, <1>5, <1>7, <2>1, <2>2 DEF FrameTypes
<1>10. ToCome' = Len(sent')
  BY <1>8 DEF ToCome
<1>11. Unsent(conn, sent)[ToCome]' = wire'
  BY <1>6, <1>10 DEF Bytes
<1>12. Coming(Unsent(conn, sent)[ToCome])'
  <2>1. Len(wire') \in Nat
    BY <1>6, LenProperties
  <2>2. Len(wire') = consume_size' + Len(wire')
    BY <1>7, <2>1
  <2>3. \A i \in 1..Len(wire') : consume_size' + i = i
    BY <1>7, <2>1
  <2>4. \A i \in 1..consume_size' : FALSE
    BY <1>7
  <2>5. QED
    BY <1>6, <1>11, <2>2, <2>3, <2>4 DEF Coming
<1>13. QED
  BY <1>3, <1>7, <1>9, <1>12 DEF FrameInv, HeaderInv

LEMMA HandleControlPacketStep ==
  ASSUME FrameInv, HandleControlPacket
  PROVE  FrameInv'
<1>1. /\ FrameTypes /\ BufferTypeOK /\ consume_size + missing = 1 /\ missing = 0
      /\ Coming(Unsent(conn, sent)[ToCome])
  BY DEF FrameInv, HeaderInv, FrameTypes, HandleControlPacket
<1>2. /\ remaining_length' = 0 /\ remaining_length_multiplier' = 1 /\ fixed_header' = content[1]
      /\ Take(1) /\ step' = "length" /\ missing' = 1
      /\ wire' = wire /\ conn' = conn /\ sent' = sent /\ handled' = handled
  BY DEF HandleControlPacket, Await
<1>3. consume_size = 1
  BY <1>1, BufferTypes
<1>4. ToCome > 0
  <2>1. Len(Unsent(conn, sent)[ToCome]) = 1 + Len(wire) /\ Len(wire) \in Nat
    BY <1>1, <1>3, SameBytes
  <2>2. ToCome \in Nat /\ (ToCome = 0 => Unsent(conn, sent)[ToCome] = <<>>)
    BY <1>1, SentIs
  <2>3. Len(<<>>) = 0
    OBVIOUS
  <2>4. QED
    BY <2>1, <2>2, <2>3
<1>5. /\ conn \in Nat /\ Current \in Nat /\ sent[Current] \in 0..Modulus - 1 /\ Modulus \in Nat \ {0}
      /\ sent[Current] \in Nat
      /\ Rest \in Seq(Octets)
      /\ Unsent(conn, sent)[ToCome] =
           Single(conn, Current, 0) \o (Length(conn, Current, sent[Current]) \o Rest)
  <2>1. Unsent(conn, sent)[ToCome] =
          Single(conn, Current, 0) \o (Length(conn, Current, sent[Current]) \o Rest)
    BY <1>1, <1>4, NextPacket
  <2>2. QED
    BY <1>1, <1>4, <2>1, NextIs, Zenon
<1>6. PICK u : u = Single(conn, Current, 0)
  OBVIOUS
<1>7. PICK v : v = Length(conn, Current, sent[Current]) \o Rest
  OBVIOUS
<1>8. PICK w : w = Unsent(conn, sent)[ToCome]
  OBVIOUS
<1>9. /\ u \in Seq(Octets) /\ Len(u) = 1 /\ u[1] = Octet(conn, Current, 0, 0)
  <2>1. 0 \in Nat
    OBVIOUS
  <2>2. conn \in Nat /\ Current \in Nat
    BY <1>5
  <2>3. QED
    BY <1>6, <2>1, <2>2, SingleIs
<1>10. v \in Seq(Octets)
  <2> DEFINE l == Length(conn, Current, sent[Current])
  <2>1. l \in Seq(Octets)
    BY <1>5, LengthIs
  <2> HIDE DEF l
  <2>2. l \o Rest \in Seq(Octets)
    BY <1>5, <2>1
  <2>3. QED
    BY <1>7, <2>2 DEF l
<1>11. w = u \o v /\ Coming(w)
  BY <1>1, <1>5, <1>6, <1>7, <1>8
<1>12. /\ BufferTypeOK' /\ consume_size' = 0 /\ Coming(v)' /\ content[1] = Octet(conn, Current, 0, 0)
  <2>1. Take(Len(u)) /\ Len(u) <= consume_size
    BY <1>2, <1>3, <1>9
  <2>2. /\ BufferTypeOK' /\ consume_size' = consume_size - Len(u) /\ Coming(v)'
        /\ \A i \in 1..Len(u) : content[i] = u[i]
    BY <1>1, <1>2, <1>9, <1>10, <1>11, <2>1, TakeComing
  <2>3. QED
    BY <1>3, <1>9, <2>2
<1>13. content[1] \in Byte
  BY <1>1, <1>3, FirstByte
<1>14. /\ FrameTypes' /\ ToCome' = ToCome /\ Current' = Current /\ Rest' = Rest
       /\ sent[Current]' = sent[Current]
  BY <1>1, <1>2, <1>12, <1>13, Kept
<1>15. (0 + 1 * sent[Current]) % Modulus = sent[Current]
  <2>1. 0 + 1 * sent[Current] = sent[Current]
    BY <1>5
  <2>2. QED
    BY <1>5, <2>1, SmallRemainder
<1>16. Coming(Length(conn, Current, sent[Current]) \o Rest)'
  <2>1. (Length(conn, Current, sent[Current]) \o Rest)' = v
    BY <1>2, <1>7, <1>14
  <2>2. QED
    BY <1>12, <2>1 DEF Coming
<1>17. LengthInv'
  <2>1. (remaining_length + remaining_length_multiplier * sent[Current])' % Modulus = sent[Current]'
    BY <1>2, <1>14, <1>15
  <2>2. sent[Current]' \in Nat
    BY <1>5, <1>14
  <2>3. \E r \in Nat :
          /\ Coming(Length(conn, Current, r) \o Rest)'
          /\ (remaining_length' + remaining_length_multiplier' * r) % Modulus = sent[Current]'
    BY <1>16, <2>1, <2>2
  <2>4. /\ missing' \in Nat /\ consume_size' + missing' = 1 /\ ToCome' > 0
        /\ fixed_header' = Octet(conn, Current, 0, 0)'
        /\ remaining_length' \in Nat /\ remaining_length_multiplier' \in Nat
    BY <1>2, <1>4, <1>12, <1>14
  <2>5. QED
    BY <2>3, <2>4 DEF LengthInv
<1>18. QED
  BY <1>2, <1>14, <1>17 DEF FrameInv

(* The last byte of a length, and one before it. *)
LEMMA LastDigit ==
  ASSUME NEW r \in Nat, r < Base, NEW l \in Nat, NEW f \in Nat
  PROVE  (l + (r % Base) * f) % Modulus = (l + f * r) % Modulus
<1>1. Base \in Nat \ {0} /\ r \in 0..Base - 1
  BY FramingAssumption
<1>2. r % Base = r
  BY <1>1, SmallRemainder
<1>3. l + r * f = l + f * r
  OBVIOUS
<1>4. QED
  BY <1>2, <1>3

LEMMA NextDigit ==
  ASSUME NEW r \in Nat
  PROVE  ((r % Base) + Base) % Base = r % Base /\ (r % Base) + Base >= Base
<1>1. Base \in Nat \ {0}
  BY FramingAssumption
<1>2. r % Base \in 0..Base - 1 /\ Base \in Nat
  BY <1>1, Division
<1> DEFINE d == r % Base
<1> HIDE DEF d
<1>3. d \in 0..Base - 1 /\ Base \in Nat
  BY <1>2 DEF d
<1>4. d % Base = d
  BY <1>1, <1>3, SmallRemainder
<1>5. d \in Nat /\ d + Base \in Nat /\ d + Base = d + Base * 1 /\ 1 \in Int
  BY <1>3
<1>6. (d + Base) % Base = d % Base
  BY <1>1, <1>5, SameRemainder
<1>7. QED
  BY <1>3, <1>4, <1>6 DEF d

LEMMA HandleRemainingLengthStep ==
  ASSUME FrameInv, HandleRemainingLength
  PROVE  FrameInv'
<1>1. /\ FrameTypes /\ BufferTypeOK /\ consume_size + missing = 1 /\ missing = 0
      /\ ToCome > 0 /\ fixed_header = Octet(conn, Current, 0, 0) /\ fixed_header \in Byte
      /\ remaining_length \in Nat /\ remaining_length_multiplier \in Nat
  BY DEF FrameInv, LengthInv, FrameTypes, HandleRemainingLength
<1>2. /\ remaining_length' = Added(content[1].val)
      /\ remaining_length_multiplier' = (remaining_length_multiplier * Base) % Modulus
      /\ Take(1) /\ fixed_header' = fixed_header
      /\ wire' = wire /\ conn' = conn /\ sent' = sent /\ handled' = handled
      /\ \/ content[1].val >= Base /\ step' = "length" /\ missing' = 1
         \/ content[1].val < Base /\ step' = "payload" /\ missing' = remaining_length'
  BY DEF HandleRemainingLength, Await
<1>3. consume_size = 1
  BY <1>1, BufferTypes
<1>4. /\ conn \in Nat /\ Current \in Nat /\ Modulus \in Nat \ {0}
      /\ sent[Current] \in Nat /\ sent[Current] \in 0..Modulus - 1 /\ Rest \in Seq(Octets)
  BY <1>1, NextIs
<1>5. PICK r \in Nat : /\ Coming(Length(conn, Current, r) \o Rest)
                       /\ (remaining_length + remaining_length_multiplier * r) % Modulus = sent[Current]
  BY DEF FrameInv, LengthInv, HandleRemainingLength
<1>6. Base \in Nat \ {0} /\ Base \in Nat
  BY FramingAssumption
<1>7. ASSUME NEW u, NEW v \in Seq(Octets), NEW val \in Nat, u = Single(conn, Current, val),
             Coming(u \o v)
      PROVE  /\ FrameTypes' /\ consume_size' = 0 /\ Coming(v)' /\ content[1].val = val
             /\ ToCome' = ToCome /\ Current' = Current /\ Rest' = Rest /\ sent[Current]' = sent[Current]
  <2>1. u \in Seq(Octets) /\ Len(u) = 1 /\ u[1] = Octet(conn, Current, 0, val)
    <3>1. conn \in Nat /\ Current \in Nat /\ u = Single(conn, Current, val)
      BY <1>4, <1>7
    <3>2. QED
      BY <3>1, SingleIs
  <2>2. PICK w : w = u \o v
    OBVIOUS
  <2>3. Take(Len(u)) /\ Len(u) <= consume_size /\ Coming(w)
    BY <1>2, <1>3, <1>7, <2>1, <2>2
  <2>4. /\ BufferTypeOK' /\ consume_size' = consume_size - Len(u) /\ Coming(v)'
        /\ \A i \in 1..Len(u) : content[i] = u[i]
    BY <1>1, <1>2, <2>1, <2>2, <2>3, TakeComing
  <2>5. content[1] = Octet(conn, Current, 0, val)
    BY <2>1, <2>4
  <2>6. 0 \in Nat
    OBVIOUS
  <2>7. content[1].val = val
    BY <1>4, <2>5, <2>6, OneOctet
  <2>8. consume_size' = 0
    BY <1>3, <2>1, <2>4
  <2>9. QED
    BY <1>1, <1>2, <2>4, <2>7, <2>8, Kept
<1>8. CASE r < Base
  <2>1. PICK u : u = Single(conn, Current, r)
    OBVIOUS
  <2>2. PICK v \in Seq(Octets) : v = Rest
    BY <1>4
  <2>3. Coming(u \o v)
    <3>1. Length(conn, Current, r) = u
      BY <1>4, <1>8, <2>1, LengthIs
    <3>2. QED
      BY <1>5, <2>2, <3>1
  <2>4. /\ FrameTypes' /\ consume_size' = 0 /\ Coming(v)' /\ content[1].val = r
        /\ ToCome' = ToCome /\ Current' = Current /\ Rest' = Rest /\ sent[Current]' = sent[Current]
    BY <1>7, <2>1, <2>3
  <2>5. step' = "payload" /\ missing' = remaining_length'
    BY <1>2, <1>6, <1>8, <2>4
  <2>6. remaining_length' = sent[Current]
    <3>1. (remaining_length + (r % Base) * remaining_length_multiplier) % Modulus =
            (remaining_length + remaining_length_multiplier * r) % Modulus
      BY <1>1, <1>8, LastDigit
    <3>2. QED
      BY <1>2, <1>5, <2>4, <3>1 DEF Added
  <2>7. Coming(Rest)'
    BY <2>2, <2>4 DEF Coming
  <2>8. missing' \in Nat /\ consume_size' + missing' = sent[Current]
    BY <1>4, <2>4, <2>5, <2>6
  <2>9. PayloadInv'
    BY <1>1, <1>2, <2>4, <2>5, <2>6, <2>7, <2>8 DEF PayloadInv
  <2>10. QED
    BY <2>4, <2>5, <2>9 DEF FrameInv
<1>9. CASE r >= Base
  <2> DEFINE d == (r % Base) + Base
             q == r \div Base
             l == Length(conn, Current, q)
  <2>1. d \in Nat /\ q \in Nat
    BY <1>6, Division
  <2>2. d % Base = r % Base /\ d >= Base
    BY NextDigit
  <2>3. l \in Seq(Octets)
    BY <1>4, <2>1, LengthIs
  <2>4. Length(conn, Current, r) = Single(conn, Current, d) \o l
    BY <1>4, <1>9, LengthIs
  <2> HIDE DEF d, q, l
  <2>5. PICK u : u = Single(conn, Current, d)
    OBVIOUS
  <2>6. u \in Seq(Octets)
    BY <1>4, <2>1, <2>5, SingleIs
  <2>7. l \o Rest \in Seq(Octets) /\ (u \o l) \o Rest = u \o (l \o Rest)
    <3>1. Rest \in Seq(Octets)
      BY <1>4
    <3>2. l \o Rest \in Seq(Octets)
      BY <2>3, <3>1, ConcatProperties
    <3>3. (u \o l) \o Rest = u \o (l \o Rest)
      BY <2>3, <2>6, <3>1, ConcatAssociative
    <3>4. QED
      BY <3>2, <3>3
  <2>8. PICK v \in Seq(Octets) : v = l \o Rest
    BY <2>7
  <2>9. Coming(u \o v)
    BY <1>5, <2>4, <2>5, <2>7, <2>8
  <2>10. /\ FrameTypes' /\ consume_size' = 0 /\ Coming(v)' /\ content[1].val = d
         /\ ToCome' = ToCome /\ Current' = Current /\ Rest' = Rest /\ sent[Current]' = sent[Current]
    BY <1>7, <2>1, <2>5, <2>9
  <2>11. step' = "length" /\ missing' = 1
    BY <1>2, <1>6, <2>1, <2>2, <2>10
  <2>12. /\ remaining_length' = (remaining_length + (r % Base) * remaining_length_multiplier) % Modulus
         /\ remaining_length_multiplier' = (remaining_length_multiplier * Base) % Modulus
    BY <1>2, <2>2, <2>10 DEF Added
  <2>13. remaining_length' \in Nat /\ remaining_length_multiplier' \in Nat
    <3>1. r % Base \in Nat
      BY <1>6, Division
    <3>2. /\ remaining_length + (r % Base) * remaining_length_multiplier \in Nat
          /\ remaining_length_multiplier * Base \in Nat
      BY <1>1, <1>6, <3>1
    <3> DEFINE x == remaining_length + (r % Base) * remaining_length_multiplier
               y == remaining_length_multiplier * Base
    <3> HIDE DEF x, y
    <3>3. x \in Nat /\ y \in Nat
      BY <3>2 DEF x, y
    <3>4. x % Modulus \in 0..Modulus - 1 /\ y % Modulus \in 0..Modulus - 1
      BY <1>4, <3>3, Division
    <3>5. x % Modulus \in Nat /\ y % Modulus \in Nat
      BY <1>4, <3>4
    <3>6. QED
      BY <2>12, <3>5 DEF x, y
  <2>14. (remaining_length' + remaining_length_multiplier' * q) % Modulus = sent[Current]
    <3>1. (((remaining_length + (r % Base) * remaining_length_multiplier) % Modulus)
            + ((remaining_length_multiplier * Base) % Modulus) * (r \div Base)) % Modulus
          = (remaining_length + remaining_length_multiplier * r) % Modulus
      <4>1. remaining_length \in Nat /\ remaining_length_multiplier \in Nat
        BY <1>1
      <4>2. Modulus \in Nat \ {0} /\ Base \in Nat \ {0}
        BY <1>4, <1>6
      <4>3. SameLength(Modulus, Base, remaining_length, remaining_length_multiplier, r)
        BY <4>1, <4>2, Decodes
      <4>4. QED
        BY <4>3, Zenon DEF SameLength
    <3>2. QED
      BY <1>5, <2>12, <3>1 DEF q
  <2>15. Coming(Length(conn, Current, q) \o Rest)'
    <3>1. (Length(conn, Current, q) \o Rest)' = v
      BY <1>2, <2>8, <2>10 DEF l
    <3>2. QED
      BY <2>10, <3>1 DEF Coming
  <2>16. LengthInv'
    <3>1. /\ missing' \in Nat /\ consume_size' + missing' = 1 /\ ToCome' > 0
          /\ fixed_header' = Octet(conn, Current, 0, 0)'
      BY <1>1, <1>2, <2>10, <2>11
    <3>2. \E z \in Nat :
            /\ Coming(Length(conn, Current, z) \o Rest)'
            /\ (remaining_length' + remaining_length_multiplier' * z) % Modulus = sent[Current]'
      BY <2>1, <2>10, <2>14, <2>15
    <3>3. QED
      BY <2>13, <3>1, <3>2 DEF LengthInv
  <2>17. QED
    BY <2>10, <2>11, <2>16 DEF FrameInv
<1>10. QED
  BY <1>6, <1>8, <1>9

LEMMA HandlePayloadStep ==
  ASSUME FrameInv, HandlePayload
  PROVE  FrameInv'
<1>1. /\ FrameTypes /\ BufferTypeOK /\ consume_size + missing = sent[Current] /\ missing = 0
      /\ ToCome > 0 /\ fixed_header = Octet(conn, Current, 0, 0) /\ fixed_header \in Byte
      /\ remaining_length = sent[Current] /\ Coming(Rest)
  BY DEF FrameInv, PayloadInv, FrameTypes, HandlePayload
<1>2. /\ handled' = Append(handled, [header |-> fixed_header,
                                     payload |-> SubSeq(content, 1, remaining_length)])
      /\ Take(remaining_length) /\ step' = "header" /\ missing' = 1 /\ fixed_header' = fixed_header
      /\ wire' = wire /\ conn' = conn /\ sent' = sent
  BY DEF HandlePayload, Await
<1>3. /\ conn \in Nat /\ Current \in Nat /\ Modulus \in Nat \ {0}
      /\ sent[Current] \in Nat /\ sent[Current] \in 0..Modulus - 1
  BY <1>1, NextIs
<1>4. PICK n \in Nat : n = sent[Current] /\ n = remaining_length /\ n = consume_size
  <2>1. consume_size = sent[Current]
    BY <1>1, BufferTypes
  <2>2. QED
    BY <1>1, <1>3, <2>1
<1>5. PICK u : u = Payload(conn, Current, sent[Current])
  OBVIOUS
<1>6. u \in Seq(Octets) /\ Len(u) = n
  <2>1. conn \in Nat /\ Current \in Nat /\ sent[Current] \in Nat
    BY <1>3
  <2>2. u \in Seq(Octets) /\ Len(u) = sent[Current]
    BY <1>5, <2>1, PayloadIs
  <2>3. QED
    BY <1>4, <2>2
<1>7. PICK v : v = Unsent(conn, sent)[ToCome - 1]
  OBVIOUS
<1>8. v \in Seq(Octets)
  BY <1>1, <1>7, NextPacket
<1>9. PICK w : w = u \o v
  OBVIOUS
<1>10. Coming(w)
  BY <1>1, <1>5, <1>7, <1>9 DEF Rest
<1>11. /\ BufferTypeOK' /\ consume_size' = 0 /\ Coming(v)'
       /\ \A i \in 1..n : content[i] = u[i]
  <2>1. Take(Len(u)) /\ Len(u) <= consume_size
    BY <1>2, <1>4, <1>6
  <2>2. /\ BufferTypeOK' /\ consume_size' = consume_size - Len(u) /\ Coming(v)'
        /\ \A i \in 1..Len(u) : content[i] = u[i]
    BY <1>1, <1>2, <1>6, <1>8, <1>9, <1>10, <2>1, TakeComing
  <2>3. QED
    BY <1>4, <1>6, <2>2
<1>12. SubSeq(content, 1, remaining_length) \in Seq(Byte) /\ SubSeq(content, 1, remaining_length) = u
  <2> DEFINE b == content
             z == SubSeq(b, 1, n)
  <2>1. b \in Seq(Byte) /\ Len(b) = n /\ n \in 0..Len(b) /\ \A i \in 1..n : b[i] = u[i]
    BY <1>1, <1>4, <1>11, Content
  <2> HIDE DEF b
  <2>2. z \in Seq(Byte) /\ Len(z) = n /\ \A i \in 1..n : z[i] = b[i]
    BY <2>1, WireSplit
  <2> HIDE DEF z
  <2>3. z = u
    BY <1>6, <2>1, <2>2, SeqEqual
  <2>4. QED
    BY <1>4, <2>2, <2>3 DEF z, b
<1> DEFINE e == [header |-> fixed_header, payload |-> SubSeq(content, 1, remaining_length)]
           E == [header : Byte, payload : Seq(Byte)]
<1>13. e \in E /\ e = [header |-> Octet(conn, Current, 0, 0), payload |-> Payload(conn, Current, sent[Current])]
  BY <1>1, <1>5, <1>12
<1>14. handled \in Seq(E) /\ handled' = Append(handled, e) /\ Len(handled) \in Nat /\ Len(sent) \in Nat
  BY <1>1, <1>2, SentIs DEF FrameTypes
<1> HIDE DEF e, E
<1>15. /\ handled' \in Seq(E) /\ Len(handled') = Len(handled) + 1
       /\ handled'[Len(handled) + 1] = e
       /\ \A i \in 1..Len(handled) : handled'[i] = handled[i]
  BY <1>13, <1>14, AppendProperties
<1>16. ToCome' = ToCome - 1 /\ Len(handled') <= Len(sent')
  BY <1>1, <1>2, <1>14, <1>15 DEF ToCome
<1>17. Whole'
  <2>1. ASSUME NEW i \in 1..Len(handled')
        PROVE  handled'[i] = [header |-> Octet(conn', i, 0, 0), payload |-> Payload(conn', i, sent'[i])]
    <3>1. CASE i = Len(handled) + 1
      BY <1>2, <1>13, <1>15, <3>1 DEF Current
    <3>2. CASE i # Len(handled) + 1
      <4>1. i \in 1..Len(handled)
        BY <1>14, <1>15, <3>2
      <4>2. handled[i] = [header |-> Octet(conn, i, 0, 0), payload |-> Payload(conn, i, sent[i])]
        BY <1>1, <4>1 DEF FrameTypes, Whole
      <4>3. QED
        BY <1>2, <1>15, <4>1, <4>2
    <3>3. QED
      BY <3>1, <3>2
  <2>2. QED
    BY <2>1 DEF Whole
<1>18. FrameTypes'
  BY <1>1, <1>2, <1>11, <1>15, <1>16, <1>17 DEF FrameTypes, E
<1>19. HeaderInv'
  <2>1. Unsent(conn, sent)[ToCome]' = v
    BY <1>2, <1>7, <1>16
  <2>2. Coming(Unsent(conn, sent)[ToCome])'
    BY <1>11, <2>1 DEF Coming
  <2>3. QED
    BY <1>2, <1>11, <2>2 DEF HeaderInv
<1>20. QED
  BY <1>2, <1>18, <1>19 DEF FrameInv

LEMMA FrameUnchanged ==
  ASSUME FrameInv, UNCHANGED bufferVars, wire' = wire, missing' = missing, UNCHANGED framingVars
  PROVE  FrameInv'
<1>1. /\ step' = step /\ fixed_header' = fixed_header /\ conn' = conn /\ sent' = sent /\ handled' = handled
      /\ remaining_length' = remaining_length /\ remaining_length_multiplier' = remaining_length_multiplier
  BY DEF framingVars
<1>2. BufferTypeOK' /\ consume_size' = consume_size /\ content' = content
  BY DEF bufferVars, BufferTypeOK, consume_size, content, FrameInv, FrameTypes
<1>3. FrameTypes /\ fixed_header \in Byte
  BY DEF FrameInv, FrameTypes
<1>4. /\ FrameTypes' /\ ToCome' = ToCome /\ Current' = Current
      /\ Unsent(conn, sent)[ToCome]' = Unsent(conn, sent)[ToCome]
      /\ Rest' = Rest /\ sent[Current]' = sent[Current]
  BY <1>1, <1>2, <1>3, Kept
<1>5. HeaderInv => HeaderInv'
  BY <1>1, <1>2, <1>4 DEF HeaderInv, Coming
<1>6. LengthInv => LengthInv'
  BY <1>1, <1>2, <1>4 DEF LengthInv, Coming
<1>7. PayloadInv => PayloadInv'
  BY <1>1, <1>2, <1>4 DEF PayloadInv, Coming
<1>8. DeadInv => DeadInv'
  BY <1>4 DEF DeadInv
<1>9. QED
  BY <1>1, <1>4, <1>5, <1>6, <1>7, <1>8 DEF FrameInv

-----------------------------------------------------------------------------

(* An update is there and no reader of packets, or the other way round;    *)
(* the invariant holds until a connection is lost with bytes in the buffer. *)
FramingInv ==
  \/ step = "none"
  \/ phase = "none" /\ cut \in BOOLEAN /\ (~cut => FrameInv)

LEMMA FramingNext ==
  ASSUME FramingInv, [Next]_vars
  PROVE  FramingInv'
<1>1. CASE step = "none"
  <2>1. ~Framing
    BY <1>1 DEF Framing, Read, PacketTooLarge, HandleControlPacket, HandleRemainingLength, HandlePayload
  <2>2. step' = step
    BY <2>1 DEF Next, vars, framingVars
  <2>3. QED
    BY <1>1, <2>2 DEF FramingInv
<1>2. CASE phase = "none" /\ cut \in BOOLEAN /\ (~cut => FrameInv)
  <2>1. ~Updating
    BY <1>2 DEF Updating, UpgradeAsync, Proceed, Fails, ReadHead, HeadTooLarge, HandleMalformed,
                HandleResponse, ReadBody, BodyRead, Write, WriteFails, BodyIsOver, Restart, TimedOut
  <2>2. phase' = phase
    BY <2>1 DEF Next, vars, updateVars
  <2>3. CASE Framing /\ Connected
    <3>1. cut' = (cut \/ consume_size > 0)
      BY <2>3 DEF Connected
    <3>2. cut' \in BOOLEAN
      BY <3>1
    <3>3. ASSUME ~cut' PROVE FrameInv'
      <4>1. ~cut /\ ~(consume_size > 0)
        BY <3>1, <3>3, <1>2, Zenon
      <4>2. FrameInv /\ BufferTypeOK
        BY <1>2, <4>1 DEF FrameInv, FrameTypes
      <4>3. consume_size = 0
        BY <4>1, <4>2, BufferTypes
      <4>4. QED
        BY <2>3, <4>2, <4>3, ConnectedStep
    <3>4. QED
      BY <1>2, <2>2, <3>2, <3>3 DEF FramingInv
  <2>4. CASE Framing /\ ~Connected
    <3>1. Read \/ PacketTooLarge \/ HandleControlPacket \/ HandleRemainingLength \/ HandlePayload
      BY <2>4 DEF Framing
    <3>2. cut' = cut
      BY <3>1 DEF Read, PacketTooLarge, HandleControlPacket, HandleRemainingLength, HandlePayload,
                  framingVars
    <3>3. FrameInv => FrameInv'
      BY <3>1, ReadStep, PacketTooLargeStep, HandleControlPacketStep, HandleRemainingLengthStep,
         HandlePayloadStep
    <3>4. QED
      BY <1>2, <2>2, <3>2, <3>3, Zenon DEF FramingInv
  <2>5. CASE UNCHANGED vars
    <3>1. UNCHANGED bufferVars /\ wire' = wire /\ missing' = missing /\ UNCHANGED framingVars
      BY <2>5 DEF vars
    <3>2. FrameInv => FrameInv'
      BY <3>1, FrameUnchanged
    <3>3. cut' = cut
      BY <3>1 DEF framingVars
    <3>4. QED
      BY <1>2, <2>2, <3>2, <3>3, Zenon DEF FramingInv
  <2>6. QED
    BY <2>1, <2>3, <2>4, <2>5 DEF Next
<1>3. QED
  BY <1>1, <1>2 DEF FramingInv

LEMMA FramingStarts == Init => FramingInv
<1> SUFFICES ASSUME Init, step # "none" PROVE FramingInv
  BY DEF FramingInv
<1>1. phase = "none" /\ step = "idle"
  BY DEF Init
<1>2. BufferTypeOK
  BY InitBuffer DEF Init
<1>3. /\ fixed_header = Zero /\ conn = 0 /\ sent = <<>> /\ handled = <<>> /\ cut = FALSE /\ missing = 0
  BY DEF Init, FramingInit
<1>4. fixed_header \in Byte /\ conn \in 0..MaxConn
  BY <1>3, BufferAssumption, FramingAssumption
<1>5. sent \in Seq(0..Modulus - 1) /\ handled \in Seq([header : Byte, payload : Seq(Byte)])
  BY <1>3
<1>6. Len(handled) = 0 /\ Len(sent) = 0
  BY <1>3
<1>7. FrameTypes
  BY <1>2, <1>4, <1>5, <1>6 DEF FrameTypes, Whole
<1>8. QED
  BY <1>1, <1>3, <1>7 DEF FramingInv, FrameInv

(* For any base, any modulus and any packets whose lengths are below the   *)
(* modulus, any sizes of the buffer and any way the bytes arrive in: until *)
(* a connection is lost within a payload, the packets that are handled are *)
(* those that the server sent, whole and in order, the last of them is not *)
(* left behind, and reading stops only at a packet that is larger than the *)
(* buffer may be (async_read_control_packet to handle_payload), though the *)
(* multiplier wraps in the last byte of a long length.                     *)
THEOREM PacketsCutRight == Spec => []HandlesWhatWasSent
<1>1. Init => FramingInv
  BY FramingStarts
<1>2. FramingInv /\ [Next]_vars => FramingInv'
  BY FramingNext
<1>3. FramingInv => HandlesWhatWasSent
  BY FrameShows DEF FramingInv, HandlesWhatWasSent, Whole
<1>4. QED
  BY <1>1, <1>2, <1>3, PTL DEF Spec

-----------------------------------------------------------------------------

(* Receiving is a use of the buffer, and brings bytes of the wire.         *)
LEMMA ReceiveUses ==
  ASSUME BufferTypeOK, wire \in Seq(Byte), NEW n \in Nat, Receive(n)
  PROVE  BufferNext
<1>1. PICK k \in 0..Smaller(n, Len(wire)) : Fill(n, SubSeq(wire, 1, k))
  BY DEF Receive
<1>2. Len(wire) \in Nat
  BY LenProperties
<1>3. k \in 0..Len(wire)
  BY <1>2 DEF Smaller
<1>4. SubSeq(wire, 1, k) \in Seq(Byte)
  BY <1>3, WireSplit
<1>5. QED
  BY <1>1, <1>4 DEF BufferNext

(* Consuming is a use of it. *)
LEMMA TakeUses ==
  ASSUME NEW n \in Nat, Take(n)
  PROVE  BufferNext
BY DEF BufferNext

(* So is a read that throws. *)
LEMMA ThrowUses ==
  ASSUME NEW n \in Nat, Throw(n)
  PROVE  BufferNext
BY DEF BufferNext

(* Taking as much as there is, at most. *)
LEMMA TakeAny ==
  ASSUME BufferTypeOK, NEW n \in Nat, Take(n)
  PROVE  \E m \in 0..consume_size : Take(m)
<1>1. consume_size \in Nat
  BY BufferTypes
<1> DEFINE m == Smaller(n, consume_size)
<1>2. m \in 0..consume_size /\ Smaller(m, consume_size) = m
  BY <1>1 DEF Smaller
<1> HIDE DEF m
<1>3. Take(m)
  <2>1. gptr' = gptr + m /\ UNCHANGED <<buffer, pptr, broken>>
    BY DEF Take, m
  <2>2. QED
    BY <1>2, <2>1 DEF Take
<1>4. QED
  BY <1>2, <1>3

(* The update. *)
LEMMA UpdateUses ==
  ASSUME BufferTypeOK, UpInv, Updating
  PROVE  [BufferNext]_bufferVars
<1>1. CASE ReadHead
  <2>1. wire \in Seq(Byte) /\ Receive(Chunk) /\ Chunk \in Nat
    BY <1>1, UpdateAssumption DEF ReadHead, UpInv, HeadInv, Follows
  <2>2. QED
    BY <2>1, ReceiveUses
<1>2. CASE HeadTooLarge
  <2>1. Throw(Chunk) /\ Chunk \in Nat
    BY <1>2, UpdateAssumption DEF HeadTooLarge
  <2>2. QED
    BY <2>1, ThrowUses
<1>3. CASE HandleMalformed \/ HandleResponse
  <2>1. Take(HeadSize) /\ HeadIsComplete
    BY <1>3 DEF HandleMalformed, HandleResponse
  <2>2. HeadSize \in 1..consume_size
    BY <2>1 DEF HeadSize, HeadIsComplete
  <2>3. HeadSize \in Nat
    <3>1. consume_size \in Nat
      BY BufferTypes
    <3>2. QED
      BY <2>2, <3>1
  <2>4. QED
    BY <2>1, <2>3, TakeUses
<1>4. CASE ReadBody
  <2>1. wire \in Seq(Byte) /\ Receive(missing) /\ missing \in Nat
    BY <1>4 DEF ReadBody, ReadMissing, UpInv, BodyInv, AskedInv, Follows
  <2>2. QED
    BY <2>1, ReceiveUses
<1>5. CASE Write
  <2>1. Take(consume_size) /\ consume_size \in Nat
    BY <1>5, BufferTypes DEF Write
  <2>2. QED
    BY <2>1, TakeUses
<1>6. CASE UNCHANGED bufferVars
  BY <1>6
<1>7. QED
  BY <1>1, <1>2, <1>3, <1>4, <1>5, <1>6
  DEF Updating, UpgradeAsync, Proceed, Fails, BodyRead, WriteFails, BodyIsOver, Restart, TimedOut

-----------------------------------------------------------------------------

(* What the client's buffer and wire hold on any connection, with or       *)
(* without bytes of an earlier one.                                        *)
OctetsInv ==
  /\ BufferTypeOK /\ conn \in 0..MaxConn /\ wire \in Seq(Byte)
  /\ \A i \in 1..Len(wire) : wire[i] \in Octets
  /\ \A i \in 1..consume_size : content[i] \in Octets
  /\ missing \in Nat /\ remaining_length \in Nat /\ remaining_length_multiplier \in Nat
  /\ step = "length" => consume_size + missing >= 1

(* Bytes of the wire move to the buffer. *)
LEMMA ReadOctets ==
  ASSUME OctetsInv, Read
  PROVE  OctetsInv' /\ BufferNext
<1>1. /\ Receive(missing) /\ missing' = missing - (Len(wire) - Len(wire')) /\ missing \in Nat
      /\ step' = step /\ conn' = conn /\ conn \in 0..MaxConn
      /\ remaining_length' = remaining_length /\ remaining_length_multiplier' = remaining_length_multiplier
      /\ remaining_length \in Nat /\ remaining_length_multiplier \in Nat
      /\ BufferTypeOK /\ wire \in Seq(Byte)
  BY DEF Read, ReadMissing, framingVars, OctetsInv
<1>2. BufferNext
  BY <1>1, ReceiveUses
<1>3. PICK k \in 0..Smaller(missing, Len(wire)) :
        Fill(missing, SubSeq(wire, 1, k)) /\ wire' = SubSeq(wire, k + 1, Len(wire))
  BY <1>1 DEF Receive
<1>4. Len(wire) \in Nat /\ consume_size \in Nat
  BY <1>1, LenProperties, BufferTypes
<1>5. k \in 0..Len(wire) /\ k \in 0..missing
  BY <1>1, <1>4 DEF Smaller
<1> DEFINE b == SubSeq(wire, 1, k)
           z == SubSeq(wire, k + 1, Len(wire))
<1>6. /\ b \in Seq(Byte) /\ Len(b) = k /\ \A i \in 1..k : b[i] = wire[i]
      /\ z \in Seq(Byte) /\ Len(z) = Len(wire) - k /\ \A i \in 1..Len(wire) - k : z[i] = wire[k + i]
  BY <1>1, <1>5, WireSplit
<1>7. Fill(missing, b) /\ wire' = z
  BY <1>3
<1> HIDE DEF b, z
<1>8. /\ BufferTypeOK' /\ consume_size' = consume_size + k
      /\ \A i \in 1..consume_size : content'[i] = content[i]
      /\ \A i \in 1..k : content'[consume_size + i] = b[i]
  BY <1>1, <1>6, <1>7, FillIs
<1>9. /\ \A i \in 1..Len(wire) : wire[i] \in Octets
      /\ \A i \in 1..consume_size : content[i] \in Octets
  BY DEF OctetsInv
<1>10. ASSUME NEW i \in 1..Len(wire') PROVE wire'[i] \in Octets
  <2>1. i \in 1..Len(wire) - k /\ k + i \in 1..Len(wire)
    BY <1>4, <1>5, <1>6, <1>7
  <2>2. QED
    BY <1>6, <1>7, <1>9, <2>1
<1>11. ASSUME NEW i \in 1..consume_size' PROVE content'[i] \in Octets
  <2>1. CASE i <= consume_size
    <3>1. i \in 1..consume_size
      BY <1>4, <1>5, <1>8, <2>1
    <3>2. QED
      BY <1>8, <1>9, <3>1
  <2>2. CASE i > consume_size
    <3>1. PICK j \in 1..k : i = consume_size + j
      <4>1. i - consume_size \in 1..k /\ i = consume_size + (i - consume_size)
        BY <1>4, <1>5, <1>8, <2>2
      <4>2. QED
        BY <4>1
    <3>2. content'[i] = wire[j] /\ j \in 1..Len(wire)
      BY <1>4, <1>5, <1>6, <1>8, <3>1
    <3>3. QED
      BY <1>9, <3>2
  <2>3. QED
    BY <1>4, <1>5, <1>8, <2>1, <2>2
<1>12. missing' = missing - k
  <2>1. Len(wire') = Len(wire) - k /\ missing' = missing - (Len(wire) - Len(wire'))
    BY <1>1, <1>6, <1>7
  <2>2. Len(wire) - (Len(wire) - k) = k
    BY <1>4, <1>5
  <2>3. QED
    BY <2>1, <2>2
<1>13. missing' \in Nat /\ consume_size' + missing' = consume_size + missing
  BY <1>1, <1>4, <1>5, <1>8, <1>12
<1>14. step = "length" => consume_size + missing >= 1
  BY DEF OctetsInv
<1>15. wire' \in Seq(Byte)
  BY <1>6, <1>7
<1>16. QED
  BY <1>1, <1>2, <1>8, <1>10, <1>11, <1>13, <1>14, <1>15 DEF OctetsInv

(* An exception moves bytes, and leaves bytes of the wire where they were  *)
(* moved to or from.                                                       *)
LEMMA PacketTooLargeOctets ==
  ASSUME OctetsInv, PacketTooLarge
  PROVE  OctetsInv' /\ BufferNext
<1>1. /\ Throw(missing) /\ step' = "dead" /\ missing' = 0 /\ conn' = conn /\ wire' = wire
      /\ remaining_length' = remaining_length /\ remaining_length_multiplier' = remaining_length_multiplier
      /\ BufferTypeOK /\ missing \in Nat
  BY DEF PacketTooLarge, Await, OctetsInv
<1>2. BufferNext
  BY <1>1, ThrowUses
<1>3. BufferTypeOK' /\ consume_size' = consume_size /\ buffer' = Moved /\ gptr' = gptr
  BY <1>1, ThrowBytes DEF Throw
<1>4. /\ consume_size \in Nat /\ gptr \in Nat /\ gptr + consume_size <= Len(buffer) /\ Len(buffer) \in Nat
  BY <1>1, BufferTypes
<1>5. /\ \A i \in 1..consume_size : content[i] = buffer[gptr + i]
      /\ \A i \in 1..consume_size' : content'[i] = buffer'[gptr' + i]
  BY <1>1, <1>3, Content, NextContent
<1>6. \A i \in 1..consume_size : content[i] \in Octets
  BY DEF OctetsInv
<1>7. ASSUME NEW i \in 1..consume_size PROVE content'[i] \in Octets
  <2>1. content'[i] = Moved[gptr + i] /\ gptr + i \in 1..Len(buffer)
    BY <1>3, <1>4, <1>5
  <2>2. Moved[gptr + i] = IF gptr + i <= consume_size THEN buffer[gptr + (gptr + i)] ELSE buffer[gptr + i]
    BY <2>1 DEF Moved
  <2>3. CASE gptr + i <= consume_size
    <3>1. gptr + i \in 1..consume_size
      BY <1>4, <2>3
    <3>2. QED
      BY <1>5, <1>6, <2>1, <2>2, <2>3, <3>1
  <2>4. CASE ~(gptr + i <= consume_size)
    BY <1>5, <1>6, <2>1, <2>2, <2>4
  <2>5. QED
    BY <2>3, <2>4
<1>8. QED
  BY <1>1, <1>2, <1>3, <1>7 DEF OctetsInv

(* Consuming leaves the rest. *)
LEMMA TakeOctets ==
  ASSUME OctetsInv, NEW n \in Nat, Take(n), wire' = wire, conn' = conn,
         missing' \in Nat, remaining_length' \in Nat, remaining_length_multiplier' \in Nat,
         step' = "length" => missing' >= 1
  PROVE  OctetsInv' /\ BufferNext
<1>1. BufferTypeOK /\ conn \in 0..MaxConn /\ wire \in Seq(Byte)
      /\ \A i \in 1..Len(wire) : wire[i] \in Octets
  BY DEF OctetsInv
<1>2. PICK m \in 0..consume_size : Take(m)
  BY <1>1, TakeAny
<1>3. /\ BufferTypeOK' /\ consume_size \in Nat /\ consume_size' = consume_size - m
      /\ \A i \in 1..consume_size - m : content'[i] = content[m + i]
  BY <1>1, <1>2, TakeIs
<1>4. ASSUME NEW i \in 1..consume_size' PROVE content'[i] \in Octets
  <2>1. m + i \in 1..consume_size /\ i \in 1..consume_size - m
    BY <1>3
  <2>2. \A j \in 1..consume_size : content[j] \in Octets
    BY DEF OctetsInv
  <2>3. QED
    BY <1>3, <2>1, <2>2
<1>5. consume_size' \in Nat
  BY <1>3
<1>6. step' = "length" => consume_size' + missing' >= 1
  <2>1. \A a, b \in Nat : b >= 1 => a + b >= 1
    OBVIOUS
  <2>2. missing' \in Nat /\ (step' = "length" => missing' >= 1)
    OBVIOUS
  <2>3. QED
    BY <1>5, <2>1, <2>2
<1>7. BufferNext
  BY TakeUses
<1>8. QED
  BY <1>1, <1>3, <1>4, <1>6, <1>7 DEF OctetsInv

(* A digit is an octet, so the length stays a number. *)
LEMMA HandleRemainingLengthOctets ==
  ASSUME OctetsInv, HandleRemainingLength
  PROVE  OctetsInv' /\ BufferNext
<1>1. /\ BufferTypeOK /\ consume_size + missing >= 1 /\ missing = 0
      /\ remaining_length \in Nat /\ remaining_length_multiplier \in Nat
      /\ \A i \in 1..consume_size : content[i] \in Octets
  BY DEF OctetsInv, HandleRemainingLength
<1>2. /\ remaining_length' = Added(content[1].val)
      /\ remaining_length_multiplier' = (remaining_length_multiplier * Base) % Modulus
      /\ Take(1) /\ wire' = wire /\ conn' = conn
      /\ \/ step' = "length" /\ missing' = 1
         \/ step' = "payload" /\ missing' = remaining_length'
  BY DEF HandleRemainingLength, Await
<1>3. content[1].val \in Nat
  <2>1. consume_size \in Nat
    BY <1>1, BufferTypes
  <2>2. 1 \in 1..consume_size
    BY <1>1, <2>1
  <2>3. content[1] \in Octets
    BY <1>1, <2>2
  <2>4. QED
    BY <2>3 DEF Octets
<1>4. Base \in Nat \ {0} /\ Base \in Nat /\ Modulus \in Nat \ {0}
  BY FramingAssumption
<1>5. remaining_length' \in Nat /\ remaining_length_multiplier' \in Nat
  <2> DEFINE x == remaining_length + (content[1].val % Base) * remaining_length_multiplier
             y == remaining_length_multiplier * Base
  <2>1. content[1].val % Base \in Nat
    BY <1>3, <1>4, Division
  <2>2. x \in Nat /\ y \in Nat
    BY <1>1, <1>4, <2>1
  <2>3. remaining_length' = x % Modulus /\ remaining_length_multiplier' = y % Modulus
    BY <1>2 DEF Added
  <2> HIDE DEF x, y
  <2>4. x % Modulus \in 0..Modulus - 1 /\ y % Modulus \in 0..Modulus - 1
    BY <1>4, <2>2, Division
  <2>5. QED
    BY <1>4, <2>3, <2>4
<1>6. missing' \in Nat /\ (step' = "length" => missing' >= 1)
  BY <1>2, <1>5
<1>7. 1 \in Nat
  OBVIOUS
<1>8. QED
  BY <1>2, <1>5, <1>6, <1>7, TakeOctets

(* A new connection's wire, beside what the buffer still holds. *)
LEMMA ConnectedOctets ==
  ASSUME OctetsInv, Connected
  PROVE  OctetsInv' /\ UNCHANGED bufferVars
<1>1. PICK s \in Sendings : sent' = s /\ wire' = Bytes(conn + 1, s)
  BY DEF Connected
<1>2. /\ conn < MaxConn /\ conn' = conn + 1 /\ step' = "header" /\ missing' = 1 /\ UNCHANGED bufferVars
      /\ remaining_length' = remaining_length /\ remaining_length_multiplier' = remaining_length_multiplier
  BY DEF Connected, Await
<1>3. /\ MaxConn \in Nat /\ Modulus \in Nat \ {0} /\ Sendings \subseteq Seq(0..Modulus - 1)
      /\ \A c \in 1..MaxConn, z \in Sendings : Bytes(c, z) \in Seq(Byte)
  BY FramingAssumption
<1>4. conn' \in 1..MaxConn /\ conn' \in 0..MaxConn /\ conn + 1 \in Nat /\ conn + 1 \in 1..MaxConn
  BY <1>2, <1>3 DEF OctetsInv
<1>5. wire' \in Seq(Byte)
  BY <1>1, <1>3, <1>4
<1>6. s \in Seq(Nat)
  <2>1. 0..Modulus - 1 \subseteq Nat
    BY <1>3
  <2>2. s \in Seq(0..Modulus - 1)
    BY <1>3
  <2>3. QED
    BY <2>1, <2>2, SeqMonotonic
<1>7. wire' \in Seq(Octets)
  <2>1. Len(s) \in 0..Len(s)
    BY <1>6, LenProperties
  <2> DEFINE c == conn + 1
  <2>2. c \in Nat
    BY <1>4
  <2> HIDE DEF c
  <2>3. \A k \in 0..Len(s) : Unsent(c, s)[k] \in Seq(Octets)
    BY <1>6, <2>2, UnsentIs
  <2>4. QED
    BY <1>1, <2>1, <2>3 DEF Bytes, c
<1>8. \A i \in 1..Len(wire') : wire'[i] \in Octets
  BY <1>7, ElementOfSeq
<1>9. BufferTypeOK' /\ consume_size' = consume_size /\ content' = content
  BY <1>2 DEF bufferVars, BufferTypeOK, consume_size, content, OctetsInv
<1>10. QED
  BY <1>2, <1>4, <1>5, <1>8, <1>9 DEF OctetsInv

(* The client. *)
LEMMA FramingUses ==
  ASSUME OctetsInv, Framing
  PROVE  OctetsInv' /\ [BufferNext]_bufferVars
<1>1. CASE Connected
  BY <1>1, ConnectedOctets
<1>2. CASE Read
  BY <1>2, ReadOctets
<1>3. CASE PacketTooLarge
  BY <1>3, PacketTooLargeOctets
<1>4. CASE HandleControlPacket
  <2>1. /\ Take(1) /\ wire' = wire /\ conn' = conn /\ step' = "length" /\ missing' = 1
        /\ remaining_length' = 0 /\ remaining_length_multiplier' = 1 /\ 1 \in Nat /\ 0 \in Nat
    BY <1>4 DEF HandleControlPacket, Await
  <2>2. missing' \in Nat /\ remaining_length' \in Nat /\ remaining_length_multiplier' \in Nat /\ missing' >= 1
    BY <2>1
  <2>3. QED
    BY <2>1, <2>2, TakeOctets
<1>5. CASE HandleRemainingLength
  BY <1>5, HandleRemainingLengthOctets
<1>6. CASE HandlePayload
  <2>1. /\ Take(remaining_length) /\ wire' = wire /\ conn' = conn /\ step' = "header" /\ missing' = 1
        /\ remaining_length' = remaining_length /\ remaining_length_multiplier' = remaining_length_multiplier
        /\ remaining_length \in Nat /\ remaining_length_multiplier \in Nat
    BY <1>6 DEF HandlePayload, Await, OctetsInv
  <2>2. PICK n \in Nat : n = remaining_length
    BY <2>1
  <2>3. Take(n) /\ missing' \in Nat /\ remaining_length' \in Nat /\ remaining_length_multiplier' \in Nat
        /\ (step' = "length" => missing' >= 1)
    BY <2>1, <2>2
  <2>4. QED
    BY <2>1, <2>3, TakeOctets
<1>7. QED
  BY <1>1, <1>2, <1>3, <1>4, <1>5, <1>6 DEF Framing

-----------------------------------------------------------------------------

(* Either reader. *)
UsesInv ==
  \/ phase = "none" /\ OctetsInv
  \/ step = "none" /\ BufferTypeOK /\ UpInv

(* Every step of the run keeps to the buffer's uses. *)
LEMMA ReadersUse ==
  ASSUME UsesInv, [Next]_vars
  PROVE  UsesInv' /\ [BufferNext]_bufferVars
<1>1. CASE phase = "none" /\ OctetsInv
  <2>1. ~Updating
    BY <1>1 DEF Updating, UpgradeAsync, Proceed, Fails, ReadHead, HeadTooLarge, HandleMalformed,
                HandleResponse, ReadBody, BodyRead, Write, WriteFails, BodyIsOver, Restart, TimedOut
  <2>2. phase' = phase
    BY <2>1 DEF Next, vars, updateVars
  <2>3. CASE Framing
    BY <1>1, <2>2, <2>3, FramingUses DEF UsesInv
  <2>4. CASE UNCHANGED vars
    <3>1. UNCHANGED bufferVars /\ wire' = wire /\ missing' = missing /\ UNCHANGED framingVars
      BY <2>4 DEF vars
    <3>2. BufferTypeOK' /\ consume_size' = consume_size /\ content' = content
      BY <1>1, <3>1 DEF bufferVars, BufferTypeOK, consume_size, content, OctetsInv
    <3>3. OctetsInv'
      BY <1>1, <3>1, <3>2 DEF OctetsInv, framingVars
    <3>4. QED
      BY <1>1, <2>2, <3>1, <3>3 DEF UsesInv
  <2>5. QED
    BY <2>1, <2>3, <2>4 DEF Next
<1>2. CASE step = "none" /\ BufferTypeOK /\ UpInv
  <2>1. ~Framing
    BY <1>2 DEF Framing, Read, PacketTooLarge, HandleControlPacket, HandleRemainingLength, HandlePayload
  <2>2. CASE Updating /\ UNCHANGED framingVars
    <3>1. BufferTypeOK' /\ UpInv'
      BY <1>2, <2>2, BeginsUpdate, EndsUpdate, ReadHeadStep, DiesStep, HandleResponseStep, ReadBodyStep,
         BodyReadStep, WriteStep, BodyIsOverStep DEF Updating
    <3>2. [BufferNext]_bufferVars
      BY <1>2, <2>2, UpdateUses
    <3>3. QED
      BY <1>2, <2>2, <3>1, <3>2 DEF UsesInv, framingVars
  <2>3. CASE UNCHANGED vars
    <3>1. UNCHANGED <<bufferVars, wire, missing, updateVars>> /\ step' = step
      BY <2>3 DEF vars, framingVars
    <3>2. BufferTypeOK' /\ UpInv'
      BY <1>2, <3>1, UpUnchanged
    <3>3. QED
      BY <1>2, <3>1, <3>2 DEF UsesInv
  <2>4. QED
    BY <2>1, <2>2, <2>3 DEF Next
<1>3. QED
  BY <1>1, <1>2 DEF UsesInv

(* It starts empty, with one reader. *)
LEMMA ReadersStart == Init => UsesInv
<1> SUFFICES ASSUME Init PROVE UsesInv
  OBVIOUS
<1>1. BufferTypeOK /\ consume_size = 0 /\ content = <<>>
  BY InitBuffer DEF Init, BufferInit, consume_size, content
<1>2. ReaderInv /\ wire = <<>> /\ missing = 0 /\ FramingInit
  BY <1>1 DEF Init, UpdateInit, ReaderInv, UpInv, CommitsWholeBody, Fresh
<1>3. CASE phase = "none" /\ step = "idle"
  <2>1. wire \in Seq(Byte) /\ Len(wire) = 0
    BY <1>2
  <2>2. conn \in 0..MaxConn
    BY <1>2, FramingAssumption DEF FramingInit
  <2>3. OctetsInv
    BY <1>1, <1>2, <1>3, <2>1, <2>2 DEF OctetsInv, FramingInit
  <2>4. QED
    BY <1>3, <2>3 DEF UsesInv
<1>4. CASE phase = "idle" /\ step = "none"
  <2>1. UpInv
    BY <1>1, <1>4 DEF Init, UpdateInit, UpInv, CommitsWholeBody, Fresh
  <2>2. QED
    BY <1>1, <1>4, <2>1 DEF UsesInv
<1>5. QED
  BY <1>3, <1>4 DEF Init

(* The two readers use the buffer as BufferSpec says, whatever is sent to  *)
(* them, on later connections and after an exception too: so what they     *)
(* consume is what was produced, in order and once (read_async,            *)
(* read_until_async, consume_commit).                                      *)
THEOREM ReadersKeepBytes == Spec => BufferIsByteQueue
<1>1. Init => UsesInv /\ BufferInit
  BY ReadersStart DEF Init
<1>2. UsesInv /\ [Next]_vars => UsesInv' /\ [BufferNext]_bufferVars
  BY ReadersUse
<1>3. Spec => BufferSpec
  BY <1>1, <1>2, PTL DEF Spec, BufferSpec
<1>4. QED
  BY <1>3, BufferImplementsByteQueue

=============================================================================
