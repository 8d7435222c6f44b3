-------------------------- MODULE WriteBufferProofs --------------------------
(***************************************************************************)
(* The response buffer of WriteBuffer for every set of Curl objects, every *)
(* buffer and chunk size: who owns the object of a transfer, what its      *)
(* counter and its bytes are while nobody else writes to it, and from that *)
(* the safety properties the runs check.                                   *)
(***************************************************************************)
EXTENDS WriteBuffer, SequenceTheorems, TLAPS

-----------------------------------------------------------------------------
(* The inductive invariant *)

\* Calls of curl_exec are on objects of plugins and all but the innermost are in
\* their callbacks; each job has a duplicate of the worker to itself.
Owned ==
  /\ \A n \in 1..Len(calls) :
       owner[calls[n].curl] = "plugin" /\ (n > 1 => calls[n].pc = "callback")
  /\ \A f \in jobs : owner[f.curl] = "worker"
  /\ \A f, g \in jobs : f.curl = g.curl => f = g

\* The transfers whose buffer is in use: of jobs, and of an innermost curl_exec.
Held ==
  jobs \cup (IF calls # <<>> /\ Head(calls).pc = "perform" THEN {Head(calls)} ELSE {})

\* The first n cells of b are the first n bytes of the response of t.
Spelled(b, t, n) == \A k \in 1..n : b[k] = <<t, k>>

\* Up to cell e, b holds only bytes of t, of the first n, in order, and junk.
Ordered(b, t, n, e) ==
  \A k \in 1..e : b[k] # Junk =>
    /\ b[k] \in {t} \X (1..n)
    /\ \A m \in 1..(k - 1) : b[m] # Junk => b[m][2] < b[k][2]

\* b is a string of which that is so.
InOrder(b, t, n) == \E e \in 0..(BufferSize - 1) : b[e + 1] = NUL /\ Ordered(b, t, n, e)

\* The object of f counts what it held before and what f received, exactly so as
\* long as it fits.  If f began on an empty buffer, the text is of bytes of f in
\* order; and as long as a NUL fits too it begins with the plain bytes, and is
\* nothing else if all were plain.  Once performed its code is that of f.
FrameOK(f) ==
  /\ size[f.curl] <= f.from + f.got
  /\ f.from + f.got <= BufferSize => size[f.curl] = f.from + f.got
  /\ f.plain <= f.got
  /\ f.from = 0 /\ f.got > 0 => InOrder(buf[f.curl], f.t, f.got)
  /\ f.from = 0 /\ f.got < BufferSize =>
       /\ Spelled(buf[f.curl], f.t, f.plain)
       /\ f.got > 0 /\ f.plain = f.got /\ f.junk = 0 => buf[f.curl][f.got + 1] = NUL
  /\ f.pc # "perform" => last_error[f.curl] = f.t

IInv ==
  /\ TypeOK /\ Owned /\ \A f \in Held : FrameOK(f)
  /\ LeftoversExplained /\ PlainBytesArrive /\ BytesInOrder /\ DamageNeedsOverflow
-----------------------------------------------------------------------------
(* Sequences of calls and the buffer's cells *)

\* What putting a call in front does to the places of a stack.
LEMMA PushPlaces ==
  ASSUME NEW S, NEW s \in Seq(S), NEW e \in S
  PROVE  /\ <<e>> \o s \in Seq(S) /\ <<e>> \o s # <<>> /\ Head(<<e>> \o s) = e
         /\ Len(s) \in Nat /\ Len(<<e>> \o s) = Len(s) + 1
         /\ (<<e>> \o s)[1] = e
         /\ \A n \in 2..(Len(s) + 1) : (<<e>> \o s)[n] = s[n - 1]
<1>1. /\ <<e>> \o s \in Seq(S) /\ <<e>> \o s # <<>> /\ Head(<<e>> \o s) = e
      /\ Len(s) \in Nat /\ Len(<<e>> \o s) = Len(s) + 1 /\ (<<e>> \o s)[1] = e
  OBVIOUS
<1>2. ASSUME NEW n \in 2..(Len(s) + 1) PROVE (<<e>> \o s)[n] = s[n - 1]
  BY <1>1
<1> QED BY <1>1, <1>2

\* What replacing and what dropping the innermost call does.
LEMMA PopPlaces ==
  ASSUME NEW S, NEW s \in Seq(S), s # <<>>
  PROVE  /\ Tail(s) \in Seq(S) /\ Head(s) \in S /\ Head(s) = s[1]
         /\ Len(s) \in Nat /\ Len(s) > 0 /\ Len(Tail(s)) = Len(s) - 1
         /\ \A n \in 1..(Len(s) - 1) : Tail(s)[n] = s[n + 1]
         /\ Tail(s) # <<>> => Head(Tail(s)) = s[2] /\ Len(s) > 1
  OBVIOUS

LEMMA ReplacedPlaces ==
  ASSUME NEW S, NEW s \in Seq(S), s # <<>>, NEW e \in S
  PROVE  /\ <<e>> \o Tail(s) \in Seq(S) /\ <<e>> \o Tail(s) # <<>>
         /\ Head(<<e>> \o Tail(s)) = e /\ Len(<<e>> \o Tail(s)) = Len(s)
         /\ (<<e>> \o Tail(s))[1] = e
         /\ \A n \in 2..Len(s) : (<<e>> \o Tail(s))[n] = s[n]
<1>1. /\ Tail(s) \in Seq(S) /\ Len(s) \in Nat /\ Len(s) > 0 /\ Len(Tail(s)) = Len(s) - 1
      /\ \A n \in 1..(Len(s) - 1) : Tail(s)[n] = s[n + 1]
  BY PopPlaces
<1>2. /\ <<e>> \o Tail(s) \in Seq(S) /\ <<e>> \o Tail(s) # <<>> /\ Head(<<e>> \o Tail(s)) = e
      /\ Len(<<e>> \o Tail(s)) = Len(s) /\ (<<e>> \o Tail(s))[1] = e
      /\ \A n \in 2..Len(s) : (<<e>> \o Tail(s))[n] = Tail(s)[n - 1]
  BY <1>1, PushPlaces
<1>3. ASSUME NEW n \in 2..Len(s) PROVE Tail(s)[n - 1] = s[n]
  <2>1. n - 1 \in 1..(Len(s) - 1) /\ (n - 1) + 1 = n
    BY <1>1
  <2> QED BY <1>1, <2>1
<1> QED BY <1>2, <1>3

\* The beginning of a sequence.
LEMMA PrefixPlaces ==
  ASSUME NEW S, NEW s \in Seq(S), NEW n \in 0..Len(s)
  PROVE  /\ SubSeq(s, 1, n) \in Seq(S) /\ Len(SubSeq(s, 1, n)) = n
         /\ \A k \in 1..n : SubSeq(s, 1, n)[k] = s[k]
<1>1. n \in Nat /\ Len(s) \in Nat /\ \A k \in 1..n : k \in 1..Len(s)
  OBVIOUS
<1>2. SubSeq(s, 1, n) = [k \in 1..n |-> s[k]]
  <2>1. SubSeq(s, 1, n) = [k \in 1..(1 + n - 1) |-> s[k + 1 - 1]]
    BY <1>1
  <2> QED BY <1>1, <2>1
<1>3. \A k \in 1..n : s[k] \in S
  BY <1>1
<1> QED BY <1>1, <1>2, <1>3

\* What libcurl hands to WriteFunction of f, and what snprintf makes of it.
Chunk(f, length) == [k \in 1..length |-> <<f.t, f.got + k>>]
Sent(f, length, p, j) == Expanded(Chunk(f, length), p, j)

LEMMA ChunkCells ==
  ASSUME NEW f \in Frame, NEW length \in ChunkSizes, f.got + length <= MaxReceived,
         NEW p \in PlainParts(length), NEW j \in JunkLengths
  PROVE  /\ length \in Nat \ {0} /\ p \in 0..length /\ j \in Nat
         /\ Received(f, length, p, j) \in Frame
         /\ Received(f, length, p, j).got = f.got + length
         /\ Received(f, length, p, j).plain = IF f.plain = f.got THEN f.plain + p ELSE f.plain
         /\ Received(f, length, p, j).junk = j
         /\ Received(f, length, p, j).curl = f.curl /\ Received(f, length, p, j).t = f.t
         /\ Received(f, length, p, j).from = f.from /\ Received(f, length, p, j).pc = f.pc
<1>1. /\ length \in Nat \ {0} /\ MaxReceived \in Nat /\ f.got \in 0..MaxReceived
      /\ p \in 0..length /\ j \in Nat /\ f.plain \in 0..MaxReceived
  BY ChunkAssumption, LimitAssumption, FormatAssumption DEF Frame, PlainParts
<1>2. PICK plain \in 0..MaxReceived : plain = IF f.plain = f.got THEN f.plain + p ELSE f.plain
  BY <1>1
<1>3. f.got + length \in 0..MaxReceived
  BY <1>1
<1>4. Received(f, length, p, j) = [f EXCEPT !.got = f.got + length, !.plain = plain, !.junk = j]
  BY <1>2 DEF Received
<1> QED BY <1>1, <1>2, <1>3, <1>4 DEF Frame

\* The cells of what is printed: bytes of the chunk, then junk.
LEMMA SentCells ==
  ASSUME NEW f \in Frame, NEW length \in ChunkSizes, f.got + length <= MaxReceived,
         NEW p \in PlainParts(length), NEW j \in JunkLengths
  PROVE  /\ Sent(f, length, p, j) \in [1..(p + j) -> Cells] /\ Len(Sent(f, length, p, j)) = p + j
         /\ \A k \in 1..p : Sent(f, length, p, j)[k] = <<f.t, f.got + k>>
         /\ \A k \in (p + 1)..(p + j) : Sent(f, length, p, j)[k] = Junk
<1>1. /\ length \in Nat \ {0} /\ MaxReceived \in Nat /\ f.got \in 0..MaxReceived
      /\ p \in 0..length /\ j \in Nat /\ f.t \in 1..MaxTransfers
  BY ChunkCells, LimitAssumption DEF Frame
<1>2. ASSUME NEW k \in 1..length PROVE <<f.t, f.got + k>> \in Cells
  <2>1. f.got + k \in 1..MaxReceived
    BY <1>1
  <2> QED BY <1>1, <2>1 DEF Cells, Byte
<1>3. Chunk(f, length) \in Seq(Cells) /\ Len(Chunk(f, length)) = length
  BY <1>1, <1>2 DEF Chunk
<1>4. PICK c \in Seq(Cells) : c = SubSeq(Chunk(f, length), 1, p)
  BY <1>1, <1>3, PrefixPlaces
<1>5. Len(c) = p /\ \A k \in 1..p : c[k] = <<f.t, f.got + k>>
  <2>1. Len(c) = p /\ \A k \in 1..p : c[k] = Chunk(f, length)[k]
    BY <1>1, <1>3, <1>4, PrefixPlaces
  <2>2. \A k \in 1..p : Chunk(f, length)[k] = <<f.t, f.got + k>>
    BY <1>1 DEF Chunk
  <2> QED BY <2>1, <2>2
<1>j. Junk \in Cells
  BY DEF Cells
<1>6. PICK d \in Seq(Cells) : d = [k \in 1..j |-> Junk]
  <2>1. PICK d \in [1..j -> Cells] : d = [k \in 1..j |-> Junk]
    BY <1>j
  <2>2. d \in Seq(Cells)
    BY <1>1
  <2> QED BY <2>1, <2>2
<1>7. Len(d) = j /\ \A k \in 1..j : d[k] = Junk
  BY <1>1, <1>6
<1>8. Sent(f, length, p, j) = c \o d
  BY <1>4, <1>6 DEF Sent, Expanded
<1>9. /\ c \o d \in [1..(p + j) -> Cells] /\ Len(c \o d) = p + j
      /\ \A k \in 1..p : (c \o d)[k] = c[k]
  <2>1. c \o d \in Seq(Cells) /\ Len(c \o d) = p + j
    BY <1>1, <1>5, <1>7, ConcatProperties
  <2>2. c \o d \in [1..(p + j) -> Cells]
    <3>1. PICK w \in Seq(Cells) : w = c \o d
      BY <2>1
    <3>2. w \in [1..Len(w) -> Cells]
      OBVIOUS
    <3> QED BY <2>1, <3>1, <3>2
  <2>3. ASSUME NEW k \in 1..p PROVE (c \o d)[k] = c[k]
    BY <1>1, <1>5, <1>7
  <2> QED BY <2>1, <2>2, <2>3
<1>10. ASSUME NEW k \in (p + 1)..(p + j) PROVE (c \o d)[k] = Junk
  <2>1. k - p \in 1..j /\ k \in 1..(p + j) /\ ~(k <= p)
    BY <1>1
  <2>2. (c \o d)[k] = d[k - p]
    BY <1>1, <1>5, <1>7, <2>1
  <2> QED BY <1>7, <2>1, <2>2
<1> QED BY <1>5, <1>8, <1>9, <1>10

\* snprintf keeps a buffer a buffer.
LEMMA PrintedCells ==
  ASSUME NEW b \in [1..BufferSize -> Cells], NEW offset \in 0..BufferSize,
         NEW length \in Nat, NEW s \in [1..length -> Cells], Len(s) = length
  PROVE  Printed(b, offset, s) \in [1..BufferSize -> Cells]
<1> DEFINE kept == AtMost(Len(s), BufferSize - offset - 1)
<1>1. BufferSize \in Nat /\ offset \in Nat
  BY BufferAssumption
<1>2. CASE offset = BufferSize
  BY <1>2 DEF Printed
<1>3. CASE offset # BufferSize
  <2>1. kept \in Nat /\ kept <= length
    BY <1>1, <1>3 DEF AtMost
  <2>2. Printed(b, offset, s) = [n \in 1..BufferSize |->
              IF n \in (offset + 1)..(offset + kept) THEN s[n - offset]
              ELSE IF n = offset + kept + 1 THEN NUL ELSE b[n]]
    BY <1>3 DEF Printed
  <2> HIDE DEF kept
  <2>3. ASSUME NEW n \in 1..BufferSize, n \in (offset + 1)..(offset + kept)
        PROVE  s[n - offset] \in Cells
    <3>1. n - offset \in 1..length
      BY <1>1, <2>1, <2>3
    <3> QED BY <3>1
  <2>4. NUL \in Cells
    BY DEF Cells
  <2> QED BY <2>2, <2>3, <2>4
<1> QED BY <1>2, <1>3

\* Where snprintf puts what is printed at an offset inside of a buffer: of which it
\* keeps the cells that fit in front of the NUL.
Fits(b, offset, s, b2, kept) ==
  /\ offset + kept < BufferSize /\ (kept < Len(s) => offset + kept = BufferSize - 1)
  /\ \A n \in 1..offset : b2[n] = b[n]
  /\ \A n \in 1..kept : b2[offset + n] = s[n]
  /\ b2[offset + kept + 1] = NUL

LEMMA PrintedAt ==
  ASSUME NEW b \in [1..BufferSize -> Cells], NEW offset \in 0..(BufferSize - 1),
         NEW s, Len(s) \in Nat
  PROVE  \E kept \in 0..Len(s) : Fits(b, offset, s, Printed(b, offset, s), kept)
<1>1. BufferSize \in Nat /\ offset \in Nat /\ offset # BufferSize /\ offset < BufferSize
  BY BufferAssumption
<1>2. PICK kept \in 0..Len(s) :
        /\ kept = AtMost(Len(s), BufferSize - offset - 1)
        /\ offset + kept < BufferSize /\ (kept < Len(s) => offset + kept = BufferSize - 1)
  <2>1. PICK free \in Nat : free = BufferSize - offset - 1
    BY <1>1
  <2>2. CASE Len(s) < free
    <3>1. AtMost(Len(s), BufferSize - offset - 1) = Len(s)
      BY <2>1, <2>2 DEF AtMost
    <3> QED BY <1>1, <2>1, <2>2, <3>1
  <2>3. CASE ~(Len(s) < free)
    <3>1. AtMost(Len(s), BufferSize - offset - 1) = free
      BY <2>1, <2>3 DEF AtMost
    <3>2. free \in 0..Len(s)
      BY <2>3
    <3> QED BY <1>1, <2>1, <3>1, <3>2
  <2> QED BY <2>2, <2>3
<1>3. Printed(b, offset, s) =
        [n \in 1..BufferSize |->
           IF n \in (offset + 1)..(offset + kept) THEN s[n - offset]
           ELSE IF n = offset + kept + 1 THEN NUL ELSE b[n]]
  BY <1>1, <1>2 DEF Printed
<1>4. ASSUME NEW n \in 1..offset PROVE Printed(b, offset, s)[n] = b[n]
  <2>1. n \in 1..BufferSize /\ n \notin (offset + 1)..(offset + kept) /\ n # offset + kept + 1
    BY <1>1, <1>2
  <2> QED BY <1>3, <2>1
<1>5. ASSUME NEW n \in 1..kept PROVE Printed(b, offset, s)[offset + n] = s[n]
  <2>1. /\ offset + n \in 1..BufferSize /\ offset + n \in (offset + 1)..(offset + kept)
        /\ (offset + n) - offset = n
    BY <1>1, <1>2
  <2> QED BY <1>3, <2>1
<1>6. /\ offset + kept + 1 \in 1..BufferSize
      /\ offset + kept + 1 \notin (offset + 1)..(offset + kept)
  BY <1>1, <1>2
<1>7. Printed(b, offset, s)[offset + kept + 1] = NUL
  BY <1>3, <1>6
<1> QED BY <1>2, <1>4, <1>5, <1>7 DEF Fits

\* The text stays one of bytes in order, wherever a chunk is printed that comes
\* after all that came: behind the end of the text it is not seen.
LEMMA PrintedInOrder ==
  ASSUME NEW f \in Frame, NEW length \in ChunkSizes, f.got + length <= MaxReceived,
         NEW p \in PlainParts(length), NEW j \in JunkLengths,
         NEW b \in [1..BufferSize -> Cells], NEW offset \in 0..BufferSize,
         f.got > 0 => InOrder(b, f.t, f.got), f.got = 0 => offset = 0
  PROVE  InOrder(Printed(b, offset, Sent(f, length, p, j)), f.t, f.got + length)
<1>1. /\ length \in Nat \ {0} /\ p \in 0..length /\ j \in Nat /\ f.got \in Nat
      /\ BufferSize \in Nat /\ BufferSize > 1
  BY ChunkCells, BufferAssumption, LimitAssumption DEF Frame
<1>2. PICK s : s = Sent(f, length, p, j)
  OBVIOUS
<1>3. /\ Len(s) = p + j /\ p + j \in Nat
      /\ \A k \in 1..p : s[k] = <<f.t, f.got + k>>
      /\ \A k \in (p + 1)..(p + j) : s[k] = Junk
  BY <1>1, <1>2, SentCells
<1>4. CASE offset = BufferSize
  <2>1. Printed(b, offset, s) = b /\ f.got > 0
    BY <1>1, <1>4 DEF Printed
  <2>2. PICK e \in 0..(BufferSize - 1) : b[e + 1] = NUL /\ Ordered(b, f.t, f.got, e)
    BY <2>1 DEF InOrder
  <2>3. 1..f.got \subseteq 1..(f.got + length)
    BY <1>1
  <2>4. Ordered(b, f.t, f.got + length, e)
    BY <2>2, <2>3 DEF Ordered
  <2> QED BY <1>2, <2>1, <2>2, <2>4 DEF InOrder
<1>5. CASE offset # BufferSize
  <2>1. offset \in 0..(BufferSize - 1)
    BY <1>1, <1>5
  <2>2. PICK b2 : b2 = Printed(b, offset, s)
    OBVIOUS
  <2>k. PICK kept \in 0..Len(s) : Fits(b, offset, s, b2, kept)
    <3>1. Len(s) \in Nat
      BY <1>3
    <3> QED BY <2>1, <2>2, <3>1, PrintedAt, Zenon
  <2>3. /\ kept \in 0..(p + j) /\ offset + kept < BufferSize
        /\ \A n \in 1..offset : b2[n] = b[n]
        /\ \A n \in 1..kept : b2[offset + n] = s[n]
        /\ b2[offset + kept + 1] = NUL
    BY <1>3, <2>k DEF Fits
  <2>4. CASE \E e \in 0..(BufferSize - 1) :
               e < offset /\ b[e + 1] = NUL /\ Ordered(b, f.t, f.got, e) /\ f.got > 0
    <3>1. PICK e \in 0..(BufferSize - 1) :
               e < offset /\ b[e + 1] = NUL /\ Ordered(b, f.t, f.got, e) /\ f.got > 0
      BY <2>4
    <3>2. e + 1 \in 1..offset /\ 1..e \subseteq 1..offset /\ \A k \in 1..e : 1..(k - 1) \subseteq 1..offset
      BY <1>1, <2>1, <3>1
    <3>3. 1..f.got \subseteq 1..(f.got + length)
      BY <1>1
    <3>4. b2[e + 1] = NUL
      BY <2>3, <3>1, <3>2
    <3>5. Ordered(b2, f.t, f.got + length, e)
      BY <2>3, <3>1, <3>2, <3>3 DEF Ordered
    <3> QED BY <1>2, <2>2, <3>4, <3>5 DEF InOrder
  <2>5. CASE ~\E e \in 0..(BufferSize - 1) :
               e < offset /\ b[e + 1] = NUL /\ Ordered(b, f.t, f.got, e) /\ f.got > 0
    <3>1. \A k \in 1..offset : b[k] # Junk =>
            /\ b[k] \in {f.t} \X (1..f.got)
            /\ \A m \in 1..(k - 1) : b[m] # Junk => b[m][2] < b[k][2]
      <4>1. CASE f.got = 0
        <5>1. 1..offset = {}
          BY <2>1, <4>1
        <5> QED BY <5>1
      <4>2. CASE f.got # 0
        <5>1. f.got > 0
          BY <1>1, <4>2
        <5>2. PICK e \in 0..(BufferSize - 1) : b[e + 1] = NUL /\ Ordered(b, f.t, f.got, e)
          BY <5>1 DEF InOrder
        <5>3. offset <= e
          BY <1>1, <2>1, <2>5, <5>1, <5>2
        <5>4. 1..offset \subseteq 1..e
          BY <1>1, <2>1, <5>3
        <5> QED BY <5>2, <5>4 DEF Ordered
      <4> QED BY <4>1, <4>2
    <3>2. ASSUME NEW k \in 1..(offset + kept), b2[k] # Junk
          PROVE  /\ b2[k] \in {f.t} \X (1..(f.got + length))
                 /\ k > offset => k - offset \in 1..p /\ b2[k] = <<f.t, f.got + (k - offset)>>
                 /\ k <= offset => b2[k] = b[k] /\ b[k][2] \in 1..f.got
      <4>1. CASE k <= offset
        <5>1. k \in 1..offset
          BY <1>1, <2>1, <4>1
        <5>2. b2[k] = b[k] /\ b[k] \in {f.t} \X (1..f.got)
          BY <2>3, <3>1, <3>2, <5>1
        <5>3. 1..f.got \subseteq 1..(f.got + length)
          BY <1>1
        <5>4. ~(k > offset)
          BY <1>1, <2>1, <4>1
        <5> QED BY <5>2, <5>3, <5>4
      <4>2. CASE k > offset
        <5>1. PICK i \in 1..kept : i = k - offset /\ offset + i = k
          BY <1>1, <2>1, <4>2
        <5>2. b2[k] = s[i] /\ i \in 1..(p + j)
          BY <1>1, <2>3, <5>1
        <5>3. i \in 1..p
          <6>1. i \notin (p + 1)..(p + j)
            BY <1>3, <3>2, <5>2
          <6> QED BY <1>1, <5>2, <6>1
        <5>4. f.got + i \in 1..(f.got + length) /\ ~(k <= offset)
          BY <1>1, <2>1, <4>2, <5>3
        <5>5. b2[k] = <<f.t, f.got + i>>
          BY <1>3, <5>2, <5>3
        <5>6. b2[k] \in {f.t} \X (1..(f.got + length))
          BY <5>4, <5>5
        <5>7. k - offset \in 1..p /\ b2[k] = <<f.t, f.got + (k - offset)>>
          BY <5>1, <5>3, <5>5
        <5> QED BY <5>4, <5>6, <5>7
      <4> QED BY <1>1, <2>1, <4>1, <4>2
    <3>3. ASSUME NEW k \in 1..(offset + kept), b2[k] # Junk, NEW m \in 1..(k - 1), b2[m] # Junk
          PROVE  b2[m][2] < b2[k][2]
      <4>1. m \in 1..(offset + kept) /\ m < k
        BY <1>1, <2>1
      <4>2. CASE k <= offset
        <5>1. k \in 1..offset /\ m \in 1..offset /\ m <= offset
          BY <1>1, <2>1, <4>1, <4>2
        <5>2. b2[k] = b[k] /\ b2[m] = b[m]
          BY <2>3, <5>1
        <5> QED BY <3>1, <3>3, <5>1, <5>2
      <4>3. CASE k > offset /\ m > offset
        <5>1. /\ b2[k][2] = f.got + (k - offset) /\ b2[m][2] = f.got + (m - offset)
          BY <3>2, <3>3, <4>1, <4>3
        <5> QED BY <1>1, <2>1, <4>1, <5>1
      <4>4. CASE k > offset /\ m <= offset
        <5>1. b2[k][2] = f.got + (k - offset) /\ b2[m] = b[m] /\ b[m][2] \in 1..f.got
          BY <3>2, <3>3, <4>1, <4>4
        <5>2. PICK i \in Nat \ {0} : i = k - offset
          BY <1>1, <2>1, <2>3, <4>4
        <5>3. PICK x \in 1..f.got : x = b2[m][2]
          BY <5>1
        <5>4. x < f.got + i
          BY <1>1
        <5> QED BY <5>1, <5>2, <5>3, <5>4
      <4> QED BY <1>1, <2>1, <4>1, <4>2, <4>3, <4>4
    <3>4. Ordered(b2, f.t, f.got + length, offset + kept)
      BY <3>2, <3>3 DEF Ordered
    <3>5. offset + kept \in 0..(BufferSize - 1)
      BY <1>1, <2>1, <2>3
    <3> QED BY <1>2, <2>2, <2>3, <3>4, <3>5 DEF InOrder
  <2> QED BY <2>4, <2>5
<1> QED BY <1>4, <1>5

\* A chunk that fits, with a NUL, leaves the plain bytes alone, and continues them
\* when all before were plain.
LEMMA PrintedSpells ==
  ASSUME NEW f \in Frame, NEW length \in ChunkSizes, f.got + length <= MaxReceived,
         NEW p \in PlainParts(length), NEW j \in JunkLengths,
         NEW b \in [1..BufferSize -> Cells], f.got + length < BufferSize,
         f.plain <= f.got, Spelled(b, f.t, f.plain),
         NEW r, r = Received(f, length, p, j), NEW b2, b2 = Printed(b, f.got, Sent(f, length, p, j))
  PROVE  /\ Spelled(b2, f.t, r.plain) /\ r.plain <= r.got
         /\ r.plain = r.got /\ r.junk = 0 => b2[r.got + 1] = NUL
<1>1. /\ length \in Nat \ {0} /\ p \in 0..length /\ j \in Nat /\ f.got \in Nat /\ f.plain \in Nat
      /\ BufferSize \in Nat
      /\ r.got = f.got + length /\ r.junk = j
      /\ r.plain = IF f.plain = f.got THEN f.plain + p ELSE f.plain
  BY ChunkCells, BufferAssumption, LimitAssumption DEF Frame
<1>2. PICK s : s = Sent(f, length, p, j)
  OBVIOUS
<1>3. Len(s) = p + j /\ p + j \in Nat /\ \A k \in 1..p : s[k] = <<f.t, f.got + k>>
  BY <1>1, <1>2, SentCells
<1>k. PICK kept \in 0..Len(s) : Fits(b, f.got, s, b2, kept)
  <2>1. f.got \in 0..(BufferSize - 1) /\ b2 = Printed(b, f.got, s) /\ Len(s) \in Nat
    BY <1>1, <1>2, <1>3
  <2> QED BY <2>1, PrintedAt, Zenon
<1>4. /\ kept \in 0..(p + j) /\ f.got + kept < BufferSize
      /\ (kept < p + j => f.got + kept = BufferSize - 1)
      /\ \A n \in 1..f.got : b2[n] = b[n]
      /\ \A n \in 1..kept : b2[f.got + n] = s[n]
      /\ b2[f.got + kept + 1] = NUL
  BY <1>3, <1>k DEF Fits
<1>5. p <= kept
  BY <1>1, <1>4
<1>6. ASSUME NEW k \in 1..f.plain PROVE b2[k] = <<f.t, k>>
  <2>1. k \in 1..f.got
    BY <1>1
  <2> QED BY <1>4, <2>1 DEF Spelled
<1>7. CASE f.plain # f.got
  <2>1. r.plain = f.plain /\ r.plain < r.got
    BY <1>1, <1>7
  <2> QED BY <1>1, <1>6, <2>1 DEF Spelled
<1>8. CASE f.plain = f.got
  <2>1. r.plain = f.got + p
    BY <1>1, <1>8
  <2>2. ASSUME NEW k \in 1..r.plain PROVE b2[k] = <<f.t, k>>
    <3>1. CASE k \in 1..f.plain
      BY <1>6, <3>1
    <3>2. CASE k \notin 1..f.plain
      <4>1. PICK i \in 1..p : f.got + i = k
        <5>1. k - f.got \in 1..p /\ f.got + (k - f.got) = k
          BY <1>1, <1>8, <2>1, <3>2
        <5> QED BY <5>1
      <4>2. i \in 1..kept
        BY <1>1, <1>5
      <4> QED BY <1>3, <1>4, <4>1, <4>2
    <3> QED BY <3>1, <3>2
  <2>3. ASSUME r.plain = r.got, r.junk = 0 PROVE b2[r.got + 1] = NUL
    <3>1. p = length /\ j = 0
      BY <1>1, <2>1, <2>3
    <3>2. kept = length
      BY <1>1, <1>4, <3>1
    <3> QED BY <1>1, <1>4, <3>2
  <2> QED BY <1>1, <2>1, <2>2, <2>3 DEF Spelled
<1> QED BY <1>7, <1>8
-----------------------------------------------------------------------------
(* What the actions do to objects and calls *)

\* WriteFunction stores a chunk or, past the end, stops the model.
LEMMA StoreCases ==
  ASSUME NEW f, NEW length, NEW p, NEW j, WriteFunction(f, length, p, j)
  PROVE  /\ ~damaged /\ f.pc = "perform" /\ f.got + length <= MaxReceived
         /\ UNCHANGED <<owner, last_error, started, told, spoiled>>
         /\ \/ /\ size[f.curl] > BufferSize /\ damaged' = TRUE
               /\ UNCHANGED <<buf, size>>
            \/ /\ ~(size[f.curl] > BufferSize) /\ damaged' = FALSE
               /\ buf' = [buf EXCEPT ![f.curl] = Printed(@, size[f.curl], Sent(f, length, p, j))]
               /\ size' = [size EXCEPT ![f.curl] =
                            (IF @ = BufferSize THEN 0 ELSE @) + AtMost(length, BufferSize)]
<1>1. Store(f.curl, length, Sent(f, length, p, j))
  BY DEF WriteFunction, Chunk, Sent
<1>2. /\ ~damaged /\ f.pc = "perform" /\ f.got + length <= MaxReceived
      /\ UNCHANGED <<owner, last_error, started, told, spoiled>>
  BY DEF WriteFunction
<1>3. damaged' = (size[f.curl] > BufferSize)
  BY <1>1 DEF Store
<1>4. CASE size[f.curl] > BufferSize
  <2>1. damaged' = TRUE
    BY <1>3, <1>4, Zenon
  <2>2. UNCHANGED <<buf, size>>
    BY <1>1, <2>1 DEF Store
  <2> QED BY <1>2, <1>4, <2>1, <2>2
<1>5. CASE ~(size[f.curl] > BufferSize)
  <2> DEFINE outside == size[f.curl] > BufferSize
  <2>0. ~outside /\ damaged' = outside /\ outside \in BOOLEAN
    BY <1>3, <1>5
  <2> HIDE DEF outside
  <2>1. damaged' = FALSE
    BY <2>0
  <2>2. /\ buf' = [buf EXCEPT ![f.curl] = Printed(@, size[f.curl], Sent(f, length, p, j))]
        /\ size' = [size EXCEPT ![f.curl] =
                      (IF @ = BufferSize THEN 0 ELSE @) + AtMost(length, BufferSize)]
    BY <1>1, <2>1 DEF Store
  <2> QED BY <1>2, <1>5, <2>1, <2>2
<1> QED BY <1>4, <1>5

\* A store keeps the types and touches the object of its transfer only.
LEMMA StoreKeeps ==
  ASSUME TypeOK, NEW f \in Frame, NEW length \in ChunkSizes,
         NEW p \in PlainParts(length), NEW j \in JunkLengths, WriteFunction(f, length, p, j)
  PROVE  /\ buf' \in [Curls -> [1..BufferSize -> Cells]] /\ size' \in [Curls -> Nat]
         /\ damaged' \in BOOLEAN
         /\ \A c \in Curls : c # f.curl => buf'[c] = buf[c] /\ size'[c] = size[c]
<1> USE DEF TypeOK
<1>1. CASE damaged' = TRUE /\ UNCHANGED <<buf, size>>
  BY <1>1
<1>2. CASE /\ ~(size[f.curl] > BufferSize) /\ damaged' = FALSE
           /\ buf' = [buf EXCEPT ![f.curl] = Printed(@, size[f.curl], Sent(f, length, p, j))]
           /\ size' = [size EXCEPT ![f.curl] =
                         (IF @ = BufferSize THEN 0 ELSE @) + AtMost(length, BufferSize)]
  <2>0. f.curl \in Curls /\ size[f.curl] \in Nat
    BY DEF Frame
  <2>1. /\ f.got + length <= MaxReceived /\ BufferSize \in Nat
    BY StoreCases, BufferAssumption
  <2>s. size[f.curl] \in 0..BufferSize
    BY <1>2, <2>0, <2>1
  <2>2. /\ Len(Sent(f, length, p, j)) = p + j /\ length \in Nat /\ p + j \in Nat
        /\ Sent(f, length, p, j) \in [1..(p + j) -> Cells]
    BY <2>1, ChunkCells, SentCells
  <2>3. Printed(buf[f.curl], size[f.curl], Sent(f, length, p, j)) \in [1..BufferSize -> Cells]
    <3>1. PICK b \in [1..BufferSize -> Cells] : b = buf[f.curl]
      BY <2>0
    <3>2. PICK offset \in 0..BufferSize : offset = size[f.curl]
      BY <2>s
    <3>3. PICK text \in [1..(p + j) -> Cells] : text = Sent(f, length, p, j)
      BY <2>2
    <3>4. Printed(b, offset, text) \in [1..BufferSize -> Cells]
      BY <2>2, <3>3, PrintedCells
    <3> QED BY <3>1, <3>2, <3>3, <3>4
  <2>4. (IF size[f.curl] = BufferSize THEN 0 ELSE size[f.curl])
           + AtMost(length, BufferSize) \in Nat
    BY <2>1, <2>2, <2>s DEF AtMost
  <2>5. buf' \in [Curls -> [1..BufferSize -> Cells]]
    BY <1>2, <2>0, <2>3
  <2>6. size' \in [Curls -> Nat]
    BY <1>2, <2>0, <2>4
  <2>7. \A c \in Curls : c # f.curl => buf'[c] = buf[c] /\ size'[c] = size[c]
    BY <1>2, <2>0
  <2> QED BY <1>2, <2>5, <2>6, <2>7
<1>3. \/ damaged' = TRUE /\ UNCHANGED <<buf, size>>
      \/ /\ ~(size[f.curl] > BufferSize) /\ damaged' = FALSE
         /\ buf' = [buf EXCEPT ![f.curl] = Printed(@, size[f.curl], Sent(f, length, p, j))]
         /\ size' = [size EXCEPT ![f.curl] =
                       (IF @ = BufferSize THEN 0 ELSE @) + AtMost(length, BufferSize)]
  BY StoreCases
<1> QED BY <1>1, <1>2, <1>3

\* Every variable keeps its type.
LEMMA TypeStep == TypeOK /\ [Next]_vars => TypeOK'
<1> SUFFICES ASSUME TypeOK, [Next]_vars PROVE TypeOK'
  OBVIOUS
<1> USE DEF TypeOK, objects
<1>l. MaxTransfers \in Nat
  BY LimitAssumption
<1>0. \A c \in Curls : started < MaxTransfers => NewFrame(c) \in Frame /\ started + 1 \in 0..MaxTransfers
  BY LimitAssumption DEF NewFrame, Frame
<1>1. ASSUME NEW c \in Curls, CurlInit(c) PROVE TypeOK'
  <2>1. \A cell \in {Junk, NUL} : [n \in 1..BufferSize |-> cell] \in [1..BufferSize -> Cells]
    BY DEF Cells
  <2>2. buf' \in [Curls -> [1..BufferSize -> Cells]]
    BY <1>1, <2>1 DEF CurlInit
  <2>3. spoiled' \subseteq Curls
    BY <1>1 DEF CurlInit
  <2>4. /\ owner' \in [Curls -> {"none", "plugin", "worker"}] /\ size' \in [Curls -> Nat]
        /\ last_error' \in [Curls -> 0..MaxTransfers]
    BY <1>1, <1>l DEF CurlInit
  <2> QED BY <1>1, <2>2, <2>3, <2>4 DEF CurlInit
<1>2. ASSUME NEW c \in Curls, CurlExec(c) PROVE TypeOK'
  <2>1. calls' \in Seq(Frame)
    BY <1>0, <1>2, PushPlaces DEF CurlExec
  <2> QED BY <1>0, <1>2, <2>1 DEF CurlExec
<1>3. ASSUME NEW c \in Curls, RunThread(c) PROVE TypeOK'
  BY <1>0, <1>3 DEF RunThread
<1>4. ASSUME NEW c \in Curls, NEW d \in Curls, CurlDupHandle(c, d) \/ CurlThreadExec(c, d) PROVE TypeOK'
  <2>1. MakeDuplicate(c, d) /\ owner' \in [Curls -> {"none", "plugin", "worker"}]
    BY <1>4 DEF CurlDupHandle, CurlThreadExec
  <2>2. spoiled' \subseteq Curls
    BY <2>1 DEF MakeDuplicate
  <2>3. /\ buf' \in [Curls -> [1..BufferSize -> Cells]] /\ size' \in [Curls -> Nat]
        /\ last_error' \in [Curls -> 0..MaxTransfers]
    BY <2>1 DEF MakeDuplicate
  <2> QED BY <2>1, <2>2, <2>3 DEF MakeDuplicate
<1>5. ASSUME NEW length \in ChunkSizes, ExecReceives(length) PROVE TypeOK'
  <2>1. PICK f \in Frame : f = Head(calls)
    BY <1>5, PopPlaces DEF ExecReceives
  <2>2. PICK p \in PlainParts(length), j \in JunkLengths :
        WriteFunction(f, length, p, j) /\ calls' = <<Received(f, length, p, j)>> \o Tail(calls) /\ UNCHANGED jobs
    BY <1>5, <2>1 DEF ExecReceives
  <2>3. Received(f, length, p, j) \in Frame
    BY <2>2, StoreCases, ChunkCells
  <2>4. calls' \in Seq(Frame)
    BY <1>5, <2>2, <2>3, ReplacedPlaces DEF ExecReceives
  <2> QED BY <2>2, <2>4, StoreCases, StoreKeeps
<1>6. ASSUME NEW length \in ChunkSizes, ThreadReceives(length) PROVE TypeOK'
  <2>1. PICK f \in jobs, p \in PlainParts(length), j \in JunkLengths :
                          /\ WriteFunction(f, length, p, j)
                          /\ jobs' = (jobs \ {f}) \cup {Received(f, length, p, j)}
                          /\ UNCHANGED calls
    BY <1>6 DEF ThreadReceives
  <2>2. f \in Frame /\ Received(f, length, p, j) \in Frame
    BY <2>1, StoreCases, ChunkCells
  <2> QED BY <2>1, <2>2, StoreCases, StoreKeeps
<1>7. CASE ExecAnswers
  <2>1. PICK f \in Frame : f = Head(calls)
    BY <1>7, PopPlaces DEF ExecAnswers
  <2>2. [f EXCEPT !.pc = "callback"] \in Frame
    BY DEF Frame
  <2>4. f.t \in 0..MaxTransfers /\ f.curl \in Curls
    BY <1>l DEF Frame
  <2>3. calls' \in Seq(Frame)
    BY <1>7, <2>1, <2>2, ReplacedPlaces DEF ExecAnswers
  <2> QED BY <1>7, <2>1, <2>3, <2>4 DEF ExecAnswers, Performed
<1>8. CASE ExecReturns
  <2>1. calls' \in Seq(Frame)
    BY <1>8, PopPlaces DEF ExecReturns
  <2> QED BY <1>8, <2>1 DEF ExecReturns, Flush
<1>9. CASE ExecUnknownCallback
  <2>1. PICK f \in Frame : f = Head(calls)
    BY <1>9, PopPlaces DEF ExecUnknownCallback
  <2>2. f.t \in 0..MaxTransfers /\ f.curl \in Curls
    BY <1>l DEF Frame
  <2>3. calls' \in Seq(Frame)
    BY <1>9, PopPlaces DEF ExecUnknownCallback
  <2>4. spoiled' \subseteq Curls
    BY <1>9, <2>1, <2>2 DEF ExecUnknownCallback
  <2> QED BY <1>9, <2>1, <2>2, <2>3, <2>4 DEF ExecUnknownCallback, Performed
<1>10. CASE ThreadTerminates
  <2>1. PICK f \in jobs : /\ jobs' = (jobs \ {f}) \cup {[f EXCEPT !.pc = "done"]}
                          /\ last_error' = [last_error EXCEPT ![f.curl] = f.t]
                          /\ UNCHANGED <<owner, buf, size, calls, started, damaged, told, spoiled>>
    BY <1>10 DEF ThreadTerminates, Performed
  <2>2. [f EXCEPT !.pc = "done"] \in Frame
    BY DEF Frame
  <2>3. f \in Frame /\ f.t \in 0..MaxTransfers /\ f.curl \in Curls
    BY <1>l DEF Frame
  <2> QED BY <2>1, <2>2, <2>3
<1>11. CASE FrameAnswers
  <2>1. PICK f \in jobs : /\ jobs' = (jobs \ {f}) \cup {[f EXCEPT !.pc = "callback"]}
                          /\ UNCHANGED <<objects, calls, started, damaged, spoiled>>
    BY <1>11 DEF FrameAnswers
  <2>2. [f EXCEPT !.pc = "callback"] \in Frame
    BY DEF Frame
  <2> QED BY <2>1, <2>2
<1>12. CASE FrameDeletes
  BY <1>12 DEF FrameDeletes
<1>13. CASE UNCHANGED vars
  BY <1>13 DEF vars
<1> QED BY <1>1, <1>2, <1>3, <1>4, <1>5, <1>6, <1>7, <1>8, <1>9, <1>10, <1>11, <1>12, <1>13 DEF Next

\* What a job's record becomes keeps the jobs apart.
LEMMA JobReplaced ==
  ASSUME Owned, NEW f \in jobs, NEW g, g.curl = f.curl, owner' = owner,
         jobs' = (jobs \ {f}) \cup {g}
  PROVE  /\ \A h \in jobs' : owner'[h.curl] = "worker"
         /\ \A h, i \in jobs' : h.curl = i.curl => h = i
  BY DEF Owned

\* The same for the innermost call, replaced or dropped.
LEMMA CallReplaced ==
  ASSUME TypeOK, Owned, calls # <<>>, NEW g \in Frame, g.curl = Head(calls).curl,
         owner' = owner, calls' = <<g>> \o Tail(calls)
  PROVE  \A n \in 1..Len(calls') :
           owner'[calls'[n].curl] = "plugin" /\ (n > 1 => calls'[n].pc = "callback")
<1>1. /\ Len(calls') = Len(calls) /\ Len(calls) \in Nat /\ Len(calls) > 0
      /\ calls'[1] = g /\ Head(calls) = calls[1]
      /\ \A n \in 2..Len(calls) : calls'[n] = calls[n]
  BY PopPlaces, ReplacedPlaces DEF TypeOK
<1>2. ASSUME NEW n \in 1..Len(calls')
      PROVE  owner'[calls'[n].curl] = "plugin" /\ (n > 1 => calls'[n].pc = "callback")
  <2>1. CASE n = 1
    BY <1>1, <2>1 DEF Owned
  <2>2. CASE n # 1
    <3>1. n \in 2..Len(calls) /\ n \in 1..Len(calls)
      BY <1>1, <2>2
    <3> QED BY <1>1, <3>1 DEF Owned
  <2> QED BY <2>1, <2>2
<1> QED BY <1>2

LEMMA CallDropped ==
  ASSUME TypeOK, Owned, calls # <<>>, owner' = owner, calls' = Tail(calls)
  PROVE  /\ \A n \in 1..Len(calls') :
              owner'[calls'[n].curl] = "plugin" /\ (n > 1 => calls'[n].pc = "callback")
         /\ calls' # <<>> => Head(calls').pc = "callback"
<1>1. /\ Len(calls') = Len(calls) - 1 /\ Len(calls) \in Nat /\ Len(calls) > 0
      /\ \A n \in 1..(Len(calls) - 1) : calls'[n] = calls[n + 1]
      /\ calls' # <<>> => Head(calls') = calls[2] /\ Len(calls) > 1
  BY PopPlaces DEF TypeOK
<1>2. ASSUME NEW n \in 1..Len(calls')
      PROVE  owner'[calls'[n].curl] = "plugin" /\ (n > 1 => calls'[n].pc = "callback")
  <2>1. n \in 1..(Len(calls) - 1) /\ n + 1 \in 1..Len(calls) /\ n + 1 > 1
    BY <1>1
  <2> QED BY <1>1, <2>1 DEF Owned
<1>3. ASSUME calls' # <<>> PROVE Head(calls').pc = "callback"
  <2>1. 2 \in 1..Len(calls)
    BY <1>1, <1>3
  <2> QED BY <1>1, <1>3, <2>1 DEF Owned
<1> QED BY <1>2, <1>3

\* An object nobody uses can be given to anybody.
LEMMA OwnerGiven ==
  ASSUME TypeOK, Owned, NEW c \in Curls, owner[c] = "none", NEW who \in {"plugin", "worker"},
         owner' = [owner EXCEPT ![c] = who], UNCHANGED <<calls, jobs>>
  PROVE  Owned'
<1>1. ASSUME NEW n \in 1..Len(calls)
      PROVE  owner'[calls[n].curl] = "plugin" /\ (n > 1 => calls[n].pc = "callback")
  <2>1. calls[n] \in Frame /\ owner[calls[n].curl] = "plugin"
    BY DEF TypeOK, Owned
  <2> QED BY <2>1 DEF TypeOK, Owned, Frame
<1>2. ASSUME NEW f \in jobs PROVE owner'[f.curl] = "worker"
  <2>1. f \in Frame /\ owner[f.curl] = "worker"
    BY DEF TypeOK, Owned
  <2> QED BY <2>1 DEF TypeOK, Frame
<1> QED BY <1>1, <1>2 DEF Owned

\* Every step keeps the owners.
LEMMA OwnedStep == TypeOK /\ Owned /\ [Next]_vars => Owned'
<1> SUFFICES ASSUME TypeOK, Owned, [Next]_vars PROVE Owned'
  OBVIOUS
<1> USE DEF objects
<1>1. ASSUME NEW c \in Curls, CurlInit(c) PROVE Owned'
  BY <1>1, OwnerGiven DEF CurlInit
<1>2. ASSUME NEW c \in Curls, CurlExec(c) PROVE Owned'
  <2>1. /\ calls' = <<NewFrame(c)>> \o calls /\ UNCHANGED <<owner, jobs>>
        /\ owner[c] = "plugin" /\ (calls # <<>> => Head(calls).pc = "callback")
        /\ started < MaxTransfers
    BY <1>2 DEF CurlExec, InPlugin
  <2>2. NewFrame(c) \in Frame /\ NewFrame(c).curl = c
    BY <2>1, LimitAssumption DEF NewFrame, Frame, TypeOK
  <2>3. /\ Len(calls) \in Nat /\ Len(calls') = Len(calls) + 1 /\ calls'[1] = NewFrame(c)
        /\ \A n \in 2..(Len(calls) + 1) : calls'[n] = calls[n - 1]
    BY <2>1, <2>2, PushPlaces DEF TypeOK
  <2>4. ASSUME NEW n \in 1..Len(calls')
        PROVE  owner'[calls'[n].curl] = "plugin" /\ (n > 1 => calls'[n].pc = "callback")
    <3>1. CASE n = 1
      BY <2>1, <2>2, <2>3, <3>1
    <3>2. CASE n # 1
      <4>1. n \in 2..(Len(calls) + 1) /\ n - 1 \in 1..Len(calls) /\ Len(calls) > 0
        BY <2>3, <3>2
      <4>2. owner'[calls'[n].curl] = "plugin"
        BY <2>1, <2>3, <4>1 DEF Owned
      <4>3. calls'[n].pc = "callback"
        <5>1. CASE n = 2
          <6>1. calls # <<>> /\ Head(calls) = calls[1] /\ n - 1 = 1
            BY <4>1, <5>1 DEF TypeOK
          <6> QED BY <2>1, <2>3, <4>1, <6>1
        <5>2. CASE n # 2
          <6>1. n - 1 > 1
            BY <4>1, <5>2
          <6> QED BY <2>3, <4>1, <6>1 DEF Owned
        <5> QED BY <5>1, <5>2
      <4> QED BY <4>2, <4>3
    <3> QED BY <3>1, <3>2
  <2> QED BY <2>1, <2>4 DEF Owned
<1>3. ASSUME NEW c \in Curls, RunThread(c) PROVE Owned'
  <2>1. /\ jobs' = jobs \cup {NewFrame(c)} /\ UNCHANGED <<owner, calls>>
        /\ owner[c] = "worker" /\ \A f \in jobs : f.curl # c
    BY <1>3 DEF RunThread
  <2>2. NewFrame(c).curl = c
    BY DEF NewFrame
  <2> QED BY <2>1, <2>2 DEF Owned
<1>4. ASSUME NEW c \in Curls, NEW d \in Curls, CurlDupHandle(c, d) \/ CurlThreadExec(c, d) PROVE Owned'
  <2>1. owner[d] = "none" /\ UNCHANGED <<calls, jobs>>
    BY <1>4 DEF CurlDupHandle, CurlThreadExec, MakeDuplicate
  <2>2. PICK who \in {"plugin", "worker"} : owner' = [owner EXCEPT ![d] = who]
    BY <1>4 DEF CurlDupHandle, CurlThreadExec
  <2> QED BY <2>1, <2>2, OwnerGiven
<1>5. ASSUME NEW length \in ChunkSizes, ExecReceives(length) PROVE Owned'
  <2>1. PICK f \in Frame : f = Head(calls)
    BY <1>5, PopPlaces DEF ExecReceives, TypeOK
  <2>2. PICK p \in PlainParts(length), j \in JunkLengths :
        /\ WriteFunction(f, length, p, j) /\ calls' = <<Received(f, length, p, j)>> \o Tail(calls)
        /\ UNCHANGED jobs /\ calls # <<>>
    BY <1>5, <2>1 DEF ExecReceives
  <2>s. owner' = owner /\ f.got + length <= MaxReceived
    BY <2>2, StoreCases
  <2>3. owner' = owner /\ Received(f, length, p, j) \in Frame /\ Received(f, length, p, j).curl = f.curl
    BY <2>s, ChunkCells
  <2>4. PICK g \in Frame : g = Received(f, length, p, j)
    BY <2>3
  <2>5. \A n \in 1..Len(calls') :
          owner'[calls'[n].curl] = "plugin" /\ (n > 1 => calls'[n].pc = "callback")
    BY <2>1, <2>2, <2>3, <2>4, CallReplaced
  <2> QED BY <2>2, <2>3, <2>5 DEF Owned
<1>6. ASSUME NEW length \in ChunkSizes, ThreadReceives(length) PROVE Owned'
  <2>1. PICK f \in jobs, p \in PlainParts(length), j \in JunkLengths :
                          /\ WriteFunction(f, length, p, j)
                          /\ jobs' = (jobs \ {f}) \cup {Received(f, length, p, j)}
                          /\ UNCHANGED calls
    BY <1>6 DEF ThreadReceives
  <2>s. owner' = owner /\ f.got + length <= MaxReceived /\ f \in Frame
    BY <2>1, StoreCases DEF TypeOK
  <2>2. owner' = owner /\ Received(f, length, p, j).curl = f.curl
    BY <2>s, ChunkCells
  <2> QED BY <2>1, <2>2, JobReplaced DEF Owned
<1>7. CASE ExecAnswers
  <2>1. PICK f \in Frame : f = Head(calls)
    BY <1>7, PopPlaces DEF ExecAnswers, TypeOK
  <2>2. PICK g \in Frame : g = [f EXCEPT !.pc = "callback"]
    BY DEF Frame
  <2>3. g.curl = Head(calls).curl
    BY <2>1, <2>2 DEF Frame
  <2>4. \A n \in 1..Len(calls') :
          owner'[calls'[n].curl] = "plugin" /\ (n > 1 => calls'[n].pc = "callback")
    BY <1>7, <2>1, <2>2, <2>3, CallReplaced DEF ExecAnswers
  <2> QED BY <1>7, <2>4 DEF ExecAnswers, Owned
<1>8. CASE ExecReturns
  <2>1. /\ calls # <<>> /\ owner' = owner /\ calls' = Tail(calls) /\ UNCHANGED jobs
    BY <1>8 DEF ExecReturns
  <2> QED BY <2>1, CallDropped DEF Owned
<1>9. CASE ExecUnknownCallback
  <2>1. /\ calls # <<>> /\ owner' = owner /\ calls' = Tail(calls) /\ UNCHANGED jobs
    BY <1>9 DEF ExecUnknownCallback
  <2> QED BY <2>1, CallDropped DEF Owned
<1>10. CASE ThreadTerminates
  <2>1. PICK f \in jobs : /\ jobs' = (jobs \ {f}) \cup {[f EXCEPT !.pc = "done"]}
                          /\ UNCHANGED <<owner, calls>>
    BY <1>10 DEF ThreadTerminates
  <2>2. f \in Frame
    BY DEF TypeOK
  <2>3. PICK g \in Frame : g = [f EXCEPT !.pc = "done"]
    BY <2>2 DEF Frame
  <2>4. g.curl = f.curl
    BY <2>2, <2>3 DEF Frame
  <2> QED BY <2>1, <2>3, <2>4, JobReplaced DEF Owned
<1>11. CASE FrameAnswers
  <2>1. PICK f \in jobs : /\ jobs' = (jobs \ {f}) \cup {[f EXCEPT !.pc = "callback"]}
                          /\ UNCHANGED <<owner, calls>>
    BY <1>11 DEF FrameAnswers
  <2>2. f \in Frame
    BY DEF TypeOK
  <2>3. PICK g \in Frame : g = [f EXCEPT !.pc = "callback"]
    BY <2>2 DEF Frame
  <2>4. g.curl = f.curl
    BY <2>2, <2>3 DEF Frame
  <2> QED BY <2>1, <2>3, <2>4, JobReplaced DEF Owned
<1>12. CASE FrameDeletes
  <2>1. PICK f \in jobs : /\ jobs' = jobs \ {f} /\ calls = <<>> /\ UNCHANGED calls
                          /\ owner' = [owner EXCEPT ![f.curl] = "none"]
    BY <1>12 DEF FrameDeletes
  <2>2. \A g \in jobs' : owner'[g.curl] = "worker"
    BY <2>1 DEF Owned, TypeOK, Frame
  <2>3. Len(calls') = 0
    BY <2>1
  <2> QED BY <2>1, <2>2, <2>3 DEF Owned
<1>13. CASE UNCHANGED vars
  BY <1>13 DEF vars, Owned
<1> QED BY <1>1, <1>2, <1>3, <1>4, <1>5, <1>6, <1>7, <1>8, <1>9, <1>10, <1>11, <1>12, <1>13 DEF Next

-----------------------------------------------------------------------------
(* The buffers of transfers *)

\* Two transfers never use one object, and nobody else may use it.
LEMMA HeldApart ==
  ASSUME TypeOK, Owned
  PROVE  /\ Held \subseteq Frame
         /\ \A f \in Held : f.curl \in Curls /\ owner[f.curl] \in {"plugin", "worker"}
         /\ \A f, g \in Held : f.curl = g.curl => f = g
<1>1. ASSUME calls # <<>>
      PROVE  Head(calls) \in Frame /\ owner[Head(calls).curl] = "plugin"
  <2>1. Head(calls) \in Frame /\ Head(calls) = calls[1] /\ 1 \in 1..Len(calls)
    BY <1>1, PopPlaces DEF TypeOK
  <2> QED BY <2>1 DEF Owned
<1>2. ASSUME NEW f \in jobs PROVE f \in Frame /\ owner[f.curl] = "worker"
  BY DEF TypeOK, Owned
<1>3. Held \subseteq Frame
  BY <1>1, <1>2 DEF Held
<1>4. ASSUME NEW f \in Held PROVE f.curl \in Curls /\ owner[f.curl] \in {"plugin", "worker"}
  BY <1>1, <1>2, <1>3 DEF Held, Frame
<1>5. ASSUME NEW f \in Held, NEW g \in Held, f.curl = g.curl PROVE f = g
  BY <1>1, <1>2, <1>5 DEF Held, Owned
<1> QED BY <1>3, <1>4, <1>5

\* A transfer whose object is left alone stays as it is.
LEMMA FrameKept ==
  ASSUME NEW f, FrameOK(f), buf'[f.curl] = buf[f.curl], size'[f.curl] = size[f.curl],
         last_error'[f.curl] = last_error[f.curl]
  PROVE  FrameOK(f)'
  BY DEF FrameOK, InOrder, Ordered, Spelled

\* So does one that only goes on in its callback.
LEMMA FrameAnswered ==
  ASSUME NEW f \in Frame, FrameOK(f), f.pc # "perform", NEW g \in Frame,
         g.curl = f.curl, g.t = f.t, g.from = f.from, g.got = f.got,
         g.plain = f.plain, g.junk = f.junk,
         UNCHANGED <<buf, size, last_error>>
  PROVE  FrameOK(g)'
  BY DEF FrameOK, InOrder, Ordered, Spelled

\* A transfer begins with what its object holds.
LEMMA FrameBegins ==
  ASSUME TypeOK, NEW c \in Curls, started < MaxTransfers, UNCHANGED <<buf, size>>
  PROVE  \E g \in Frame : g = NewFrame(c) /\ FrameOK(g)'
<1>1. NewFrame(c) \in Frame
  BY LimitAssumption DEF NewFrame, Frame, TypeOK
<1>2. PICK g \in Frame : g = NewFrame(c)
  BY <1>1
<1>3. g.curl = c /\ g.from = size[c] /\ g.got = 0 /\ g.plain = 0 /\ g.pc = "perform" /\ size'[c] = size[c]
  BY <1>2 DEF NewFrame
<1>4. FrameOK(g)'
  <2>1. size[c] \in Nat
    BY DEF TypeOK
  <2> QED BY <1>3, <2>1 DEF FrameOK, Spelled
<1> QED BY <1>2, <1>4

\* A store counts what it received and keeps the text one of f.
LEMMA FrameStores ==
  ASSUME TypeOK, NEW f \in Frame, FrameOK(f), NEW length \in ChunkSizes,
         NEW p \in PlainParts(length), NEW j \in JunkLengths, WriteFunction(f, length, p, j)
  PROVE  FrameOK(Received(f, length, p, j))'
<1>0. f.pc = "perform" /\ f.got + length <= MaxReceived
  BY StoreCases
<1>1. PICK g \in Frame : g = Received(f, length, p, j)
  BY <1>0, ChunkCells
<1>2. /\ length \in Nat \ {0} /\ p \in 0..length /\ j \in Nat
      /\ g.got = f.got + length /\ g.curl = f.curl /\ g.t = f.t /\ g.from = f.from /\ g.pc = "perform"
  BY <1>0, <1>1, ChunkCells
<1>3. /\ f.curl \in Curls /\ f.got \in Nat /\ f.from \in Nat /\ BufferSize \in Nat
      /\ f.plain \in Nat /\ size[f.curl] \in Nat /\ buf[f.curl] \in [1..BufferSize -> Cells]
      /\ size \in [Curls -> Nat] /\ buf \in [Curls -> [1..BufferSize -> Cells]]
  <2>1. /\ f.curl \in Curls /\ f.got \in Nat /\ f.from \in Nat /\ BufferSize \in Nat
        /\ f.plain \in Nat
    BY BufferAssumption, LimitAssumption DEF Frame
  <2>2. size \in [Curls -> Nat] /\ buf \in [Curls -> [1..BufferSize -> Cells]]
    BY DEF TypeOK
  <2> QED BY <2>1, <2>2
<1>4. /\ size[f.curl] <= f.from + f.got
      /\ f.from + f.got <= BufferSize => size[f.curl] = f.from + f.got
      /\ f.plain <= f.got
  BY DEF FrameOK
<1>p. g.plain <= g.got
  <2>1. g.plain = IF f.plain = f.got THEN f.plain + p ELSE f.plain
    BY <1>0, <1>1, ChunkCells
  <2> QED BY <1>2, <1>3, <1>4, <2>1
<1>5. CASE size[f.curl] > BufferSize /\ UNCHANGED <<buf, size>>
  <2>1. f.from + f.got > BufferSize
    BY <1>3, <1>4, <1>5
  <2>2. size'[g.curl] <= g.from + g.got /\ g.from + g.got > BufferSize
    BY <1>2, <1>3, <1>4, <1>5, <2>1
  <2>3. ~(g.from + g.got <= BufferSize) /\ ~(g.from = 0 /\ g.got < BufferSize)
    BY <1>2, <1>3, <2>2
  <2>4. ASSUME g.from = 0 PROVE InOrder(buf'[g.curl], g.t, g.got)
    <3>1. f.got > 0 /\ buf'[g.curl] = buf[f.curl] /\ 1..f.got \subseteq 1..g.got
      BY <1>2, <1>3, <1>5, <2>1, <2>4
    <3>2. PICK e \in 0..(BufferSize - 1) : buf[f.curl][e + 1] = NUL /\ Ordered(buf[f.curl], f.t, f.got, e)
      BY <1>2, <2>4, <3>1 DEF FrameOK, InOrder
    <3>3. Ordered(buf[f.curl], f.t, g.got, e)
      BY <3>1, <3>2 DEF Ordered
    <3> QED BY <1>2, <3>1, <3>2, <3>3 DEF InOrder
  <2>5. FrameOK(g)'
    BY <1>2, <1>p, <2>2, <2>3, <2>4 DEF FrameOK, InOrder, Ordered
  <2> QED BY <1>1, <2>5 DEF FrameOK, InOrder, Ordered, Spelled, Received
<1>6. CASE /\ ~(size[f.curl] > BufferSize)
           /\ buf' = [buf EXCEPT ![f.curl] = Printed(@, size[f.curl], Sent(f, length, p, j))]
           /\ size' = [size EXCEPT ![f.curl] =
                         (IF @ = BufferSize THEN 0 ELSE @) + AtMost(length, BufferSize)]
  <2>1. /\ size'[g.curl] = (IF size[f.curl] = BufferSize THEN 0 ELSE size[f.curl]) + AtMost(length, BufferSize)
        /\ buf'[g.curl] = Printed(buf[f.curl], size[f.curl], Sent(f, length, p, j))
    BY <1>2, <1>3, <1>6
  <2>2. /\ size'[g.curl] <= g.from + g.got
        /\ g.from + g.got <= BufferSize => size'[g.curl] = g.from + g.got
    <3>1. size'[g.curl] <= size[f.curl] + length /\ size'[g.curl] \in Nat
      BY <1>2, <1>3, <2>1 DEF AtMost
    <3>4. size'[g.curl] <= g.from + g.got
      BY <1>2, <1>3, <1>4, <3>1
    <3>5. ASSUME g.from + g.got <= BufferSize PROVE size'[g.curl] = g.from + g.got
      <4>1. size[f.curl] = f.from + f.got /\ size[f.curl] # BufferSize /\ AtMost(length, BufferSize) = length
        BY <1>2, <1>3, <1>4, <3>5 DEF AtMost
      <4> QED BY <1>2, <1>3, <2>1, <4>1
    <3> QED BY <3>4, <3>5
  <2>b. PICK b \in [1..BufferSize -> Cells] : b = buf[f.curl]
    BY <1>3
  <2>3. ASSUME g.from = 0 PROVE InOrder(buf'[g.curl], g.t, g.got)
    <3>1. PICK offset \in 0..BufferSize : offset = size[f.curl]
      BY <1>3, <1>6
    <3>2. f.got = 0 => offset = 0
      BY <1>2, <1>3, <1>4, <2>3, <3>1
    <3>3. f.got > 0 => InOrder(b, f.t, f.got)
      BY <1>2, <2>3, <2>b DEF FrameOK
    <3>4. InOrder(Printed(b, offset, Sent(f, length, p, j)), f.t, f.got + length)
      BY <1>0, <3>2, <3>3, PrintedInOrder
    <3> QED BY <1>2, <2>1, <2>b, <3>1, <3>4
  <2>4. ASSUME g.from = 0, g.got < BufferSize
        PROVE  /\ Spelled(buf'[g.curl], g.t, g.plain)
               /\ g.plain = g.got /\ g.junk = 0 => buf'[g.curl][g.got + 1] = NUL
    <3>1. f.from = 0 /\ f.got + length < BufferSize /\ f.got < BufferSize
      BY <1>2, <1>3, <2>4
    <3>2. size[f.curl] = f.got
      BY <1>3, <1>4, <3>1
    <3>3. Spelled(b, f.t, f.plain)
      BY <2>b, <3>1 DEF FrameOK
    <3>4. PICK b2 : b2 = Printed(b, f.got, Sent(f, length, p, j))
      OBVIOUS
    <3>5. /\ Spelled(b2, f.t, g.plain)
          /\ g.plain = g.got /\ g.junk = 0 => b2[g.got + 1] = NUL
      BY <1>0, <1>1, <1>4, <3>1, <3>3, <3>4, PrintedSpells
    <3> QED BY <1>2, <2>1, <2>b, <3>2, <3>4, <3>5
  <2>5. FrameOK(g)'
    BY <1>2, <1>p, <2>2, <2>3, <2>4 DEF FrameOK, InOrder, Ordered, Spelled
  <2> QED BY <1>1, <2>5 DEF FrameOK, InOrder, Ordered, Spelled, Received
<1> QED BY <1>5, <1>6, StoreCases

\* Every step keeps what each transfer's object holds.
LEMMA FrameStep ==
  TypeOK /\ Owned /\ (\A f \in Held : FrameOK(f)) /\ [Next]_vars => (\A f \in Held : FrameOK(f))'
<1> SUFFICES ASSUME TypeOK, Owned, \A f \in Held : FrameOK(f), [Next]_vars
             PROVE  (\A f \in Held : FrameOK(f))'
  OBVIOUS
<1> USE DEF objects
<1>a. /\ Held \subseteq Frame
      /\ \A f \in Held : f.curl \in Curls /\ owner[f.curl] \in {"plugin", "worker"}
      /\ \A f, g \in Held : f.curl = g.curl => f = g
  BY HeldApart
<1>t. /\ buf \in [Curls -> [1..BufferSize -> Cells]] /\ size \in [Curls -> Nat]
      /\ last_error \in [Curls -> 0..MaxTransfers]
  BY DEF TypeOK
<1>u. \A f \in jobs : f \in Held /\ f \in Frame
  BY <1>a DEF Held
<1>h. ASSUME calls # <<>>, Head(calls).pc = "perform"
      PROVE  Head(calls) \in Held /\ \A f \in jobs : f.curl # Head(calls).curl
  <2>1. Head(calls) \in Held
    BY <1>h DEF Held
  <2>2. Head(calls) = calls[1] /\ 1 \in 1..Len(calls)
    BY <1>h, PopPlaces DEF TypeOK
  <2> QED BY <2>1, <2>2 DEF Owned
<1>1. ASSUME NEW c \in Curls, CurlInit(c) PROVE (\A f \in Held : FrameOK(f))'
  <2>1. Held' = Held
    BY <1>1 DEF CurlInit, Held
  <2>2. ASSUME NEW f \in Held PROVE FrameOK(f)'
    <3>1. f.curl # c
      BY <1>1, <1>a DEF CurlInit
    <3>2. /\ buf'[f.curl] = buf[f.curl] /\ size'[f.curl] = size[f.curl]
          /\ last_error'[f.curl] = last_error[f.curl]
      BY <1>1, <1>a, <1>t, <3>1 DEF CurlInit
    <3> QED BY <3>2, FrameKept
  <2> QED BY <2>1, <2>2
<1>2. ASSUME NEW c \in Curls, CurlExec(c) PROVE (\A f \in Held : FrameOK(f))'
  <2>1. PICK g \in Frame : g = NewFrame(c) /\ FrameOK(g)'
    BY <1>2, FrameBegins DEF CurlExec
  <2>2. Head(calls') = g
    BY <1>2, <2>1, PushPlaces DEF CurlExec, TypeOK
  <2>3. Held' \subseteq jobs \cup {g}
    BY <1>2, <2>2 DEF CurlExec, Held
  <2>4. ASSUME NEW f \in jobs PROVE FrameOK(f)'
    BY <1>2, <1>u, FrameKept DEF CurlExec
  <2> QED BY <2>1, <2>3, <2>4
<1>3. ASSUME NEW c \in Curls, RunThread(c) PROVE (\A f \in Held : FrameOK(f))'
  <2>1. PICK g \in Frame : g = NewFrame(c) /\ FrameOK(g)'
    BY <1>3, FrameBegins DEF RunThread
  <2>2. Held' = Held \cup {g}
    BY <1>3, <2>1 DEF RunThread, Held
  <2>3. ASSUME NEW f \in Held PROVE FrameOK(f)'
    BY <1>3, FrameKept DEF RunThread
  <2> QED BY <2>1, <2>2, <2>3
<1>4. ASSUME NEW c \in Curls, NEW d \in Curls, CurlDupHandle(c, d) \/ CurlThreadExec(c, d)
      PROVE  (\A f \in Held : FrameOK(f))'
  <2>0. MakeDuplicate(c, d)
    BY <1>4 DEF CurlDupHandle, CurlThreadExec
  <2>1. Held' = Held
    BY <2>0 DEF MakeDuplicate, Held
  <2>2. ASSUME NEW f \in Held PROVE FrameOK(f)'
    <3>1. f.curl # d
      BY <2>0, <1>a DEF MakeDuplicate
    <3>2. /\ buf'[f.curl] = buf[f.curl] /\ size'[f.curl] = size[f.curl]
          /\ last_error'[f.curl] = last_error[f.curl]
      BY <2>0, <1>a, <1>t, <3>1 DEF MakeDuplicate
    <3> QED BY <3>2, FrameKept
  <2> QED BY <2>1, <2>2
<1>5. ASSUME NEW length \in ChunkSizes, ExecReceives(length) PROVE (\A f \in Held : FrameOK(f))'
  <2>1. PICK f \in Frame : f = Head(calls)
    BY <1>5, PopPlaces DEF ExecReceives, TypeOK
  <2>2. PICK p \in PlainParts(length), j \in JunkLengths :
        /\ WriteFunction(f, length, p, j) /\ calls' = <<Received(f, length, p, j)>> \o Tail(calls)
        /\ UNCHANGED jobs /\ calls # <<>>
    BY <1>5, <2>1 DEF ExecReceives
  <2>3. f.pc = "perform" /\ last_error' = last_error
    BY <2>2, StoreCases
  <2>4. f \in Held /\ \A g \in jobs : g.curl # f.curl
    BY <1>h, <2>1, <2>2, <2>3
  <2>5. FrameOK(Received(f, length, p, j))'
    BY <2>2, <2>4, FrameStores
  <2>6. ASSUME NEW g \in jobs PROVE FrameOK(g)'
    <3>1. g.curl \in Curls /\ FrameOK(g) /\ g.curl # f.curl
      BY <1>a, <1>u, <2>4
    <3>2. buf'[g.curl] = buf[g.curl] /\ size'[g.curl] = size[g.curl]
      BY <2>2, <3>1, StoreKeeps
    <3> QED BY <2>3, <3>1, <3>2, FrameKept
  <2>7. PICK r \in Frame : r = Received(f, length, p, j)
    BY <2>2, StoreCases, ChunkCells
  <2>8. Head(calls') = r
    BY <2>2, <2>7, ReplacedPlaces DEF TypeOK
  <2>9. Held' \subseteq jobs \cup {r}
    BY <2>2, <2>8 DEF Held
  <2>10. FrameOK(r)'
    BY <2>5, <2>7 DEF FrameOK, InOrder, Ordered, Spelled, Received
  <2> QED BY <2>6, <2>9, <2>10
<1>6. ASSUME NEW length \in ChunkSizes, ThreadReceives(length) PROVE (\A f \in Held : FrameOK(f))'
  <2>1. PICK f \in jobs, p \in PlainParts(length), j \in JunkLengths :
                          /\ WriteFunction(f, length, p, j)
                          /\ jobs' = (jobs \ {f}) \cup {Received(f, length, p, j)}
                          /\ UNCHANGED calls
    BY <1>6 DEF ThreadReceives
  <2>2. last_error' = last_error /\ f \in Held /\ f \in Frame
    BY <1>u, <2>1, StoreCases
  <2>3. FrameOK(Received(f, length, p, j))'
    BY <2>1, <2>2, FrameStores
  <2>4. PICK r \in Frame : r = Received(f, length, p, j)
    BY <2>1, <2>2, StoreCases, ChunkCells
  <2>5. FrameOK(r)'
    BY <2>3, <2>4 DEF FrameOK, InOrder, Ordered, Spelled, Received
  <2>6. ASSUME NEW g \in Held, g # f PROVE FrameOK(g)'
    <3>1. g.curl \in Curls /\ FrameOK(g) /\ g.curl # f.curl
      BY <1>a, <2>2, <2>6
    <3>2. buf'[g.curl] = buf[g.curl] /\ size'[g.curl] = size[g.curl]
      BY <2>1, <2>2, <3>1, StoreKeeps
    <3> QED BY <2>2, <3>1, <3>2, FrameKept
  <2>7. calls # <<>> /\ Head(calls).pc = "perform" => Head(calls) # f
    BY <1>h, <2>1
  <2>8. Held' \subseteq (Held \ {f}) \cup {r}
    BY <2>1, <2>4, <2>7 DEF Held
  <2> QED BY <2>5, <2>6, <2>8
<1>7. CASE ExecAnswers
  <2>1. PICK f \in Frame : f = Head(calls)
    BY <1>7, PopPlaces DEF ExecAnswers, TypeOK
  <2>2. PICK r \in Frame : r = [f EXCEPT !.pc = "callback"]
    BY DEF Frame
  <2>3. Head(calls') = r /\ r.pc = "callback"
    BY <1>7, <2>1, <2>2, ReplacedPlaces DEF ExecAnswers, TypeOK, Frame
  <2>4. Held' = jobs
    BY <1>7, <2>3 DEF ExecAnswers, Held
  <2>5. ASSUME NEW g \in jobs PROVE FrameOK(g)'
    <3>1. g.curl \in Curls /\ FrameOK(g) /\ g.curl # f.curl
      BY <1>7, <1>a, <1>h, <1>u, <2>1 DEF ExecAnswers
    <3>2. last_error'[g.curl] = last_error[g.curl]
      BY <1>7, <1>t, <2>1, <3>1 DEF ExecAnswers, Performed
    <3> QED BY <1>7, <3>1, <3>2, FrameKept DEF ExecAnswers
  <2> QED BY <2>4, <2>5
<1>8. CASE ExecReturns
  <2>1. PICK f \in Frame : f = Head(calls)
    BY <1>8, PopPlaces DEF ExecReturns, TypeOK
  <2>2. calls' # <<>> => Head(calls').pc = "callback"
    BY <1>8, CallDropped DEF ExecReturns
  <2>3. Held' = jobs
    BY <1>8, <2>2 DEF ExecReturns, Held
  <2>4. f = calls[1] /\ 1 \in 1..Len(calls)
    BY <1>8, <2>1, PopPlaces DEF ExecReturns, TypeOK
  <2>5. ASSUME NEW g \in jobs PROVE FrameOK(g)'
    <3>1. g.curl \in Curls /\ FrameOK(g) /\ g.curl # f.curl
      BY <1>a, <1>u, <2>4 DEF Owned
    <3>2. size'[g.curl] = size[g.curl]
      BY <1>8, <1>t, <2>1, <3>1 DEF ExecReturns, Flush
    <3> QED BY <1>8, <3>1, <3>2, FrameKept DEF ExecReturns
  <2> QED BY <2>3, <2>5
<1>9. CASE ExecUnknownCallback
  <2>1. PICK f \in Frame : f = Head(calls)
    BY <1>9, PopPlaces DEF ExecUnknownCallback, TypeOK
  <2>2. calls' # <<>> => Head(calls').pc = "callback"
    BY <1>9, CallDropped DEF ExecUnknownCallback
  <2>3. Held' = jobs
    BY <1>9, <2>2 DEF ExecUnknownCallback, Held
  <2>5. ASSUME NEW g \in jobs PROVE FrameOK(g)'
    <3>1. g.curl \in Curls /\ FrameOK(g) /\ g.curl # f.curl
      BY <1>9, <1>a, <1>h, <1>u, <2>1 DEF ExecUnknownCallback
    <3>2. last_error'[g.curl] = last_error[g.curl]
      BY <1>9, <1>t, <2>1, <3>1 DEF ExecUnknownCallback, Performed
    <3> QED BY <1>9, <3>1, <3>2, FrameKept DEF ExecUnknownCallback
  <2> QED BY <2>3, <2>5
<1>10. CASE ThreadTerminates
  <2>1. PICK f \in jobs : /\ jobs' = (jobs \ {f}) \cup {[f EXCEPT !.pc = "done"]}
                          /\ last_error' = [last_error EXCEPT ![f.curl] = f.t]
                          /\ UNCHANGED <<buf, size, calls>>
    BY <1>10 DEF ThreadTerminates, Performed
  <2>2. f \in Held /\ f \in Frame /\ f.curl \in Curls
    BY <1>a, <1>u
  <2>3. PICK r \in Frame : r = [f EXCEPT !.pc = "done"]
    BY <2>2 DEF Frame
  <2>4. /\ r.curl = f.curl /\ r.t = f.t /\ r.from = f.from /\ r.got = f.got
        /\ r.plain = f.plain /\ r.junk = f.junk
    BY <2>2, <2>3 DEF Frame
  <2>5. FrameOK(r)'
    <3>1. last_error'[r.curl] = r.t /\ buf' = buf /\ size' = size
      BY <1>t, <2>1, <2>2, <2>4
    <3> QED BY <2>2, <2>4, <3>1 DEF FrameOK, InOrder, Ordered, Spelled
  <2>6. ASSUME NEW g \in Held, g # f PROVE FrameOK(g)'
    <3>1. g.curl \in Curls /\ FrameOK(g) /\ g.curl # f.curl
      BY <1>a, <2>2, <2>6
    <3>2. last_error'[g.curl] = last_error[g.curl]
      BY <1>t, <2>1, <3>1
    <3> QED BY <2>1, <3>1, <3>2, FrameKept
  <2>7. calls # <<>> /\ Head(calls).pc = "perform" => Head(calls) # f
    BY <1>h
  <2>8. Held' \subseteq (Held \ {f}) \cup {r}
    BY <2>1, <2>3, <2>7 DEF Held
  <2> QED BY <2>5, <2>6, <2>8
<1>11. CASE FrameAnswers
  <2>1. PICK f \in jobs : /\ jobs' = (jobs \ {f}) \cup {[f EXCEPT !.pc = "callback"]}
                          /\ f.pc = "done" /\ UNCHANGED <<objects, calls>>
    BY <1>11 DEF FrameAnswers
  <2>2. f \in Held /\ f \in Frame /\ FrameOK(f)
    BY <1>u
  <2>3. PICK r \in Frame : r = [f EXCEPT !.pc = "callback"]
    BY <2>2 DEF Frame
  <2>4. /\ r.curl = f.curl /\ r.t = f.t /\ r.from = f.from /\ r.got = f.got
        /\ r.plain = f.plain /\ r.junk = f.junk
    BY <2>2, <2>3 DEF Frame
  <2>5. FrameOK(r)'
    BY <2>1, <2>2, <2>4, FrameAnswered
  <2>6. ASSUME NEW g \in Held PROVE FrameOK(g)'
    BY <2>1, FrameKept
  <2>7. Held' \subseteq Held \cup {r}
    BY <2>1, <2>3 DEF Held
  <2> QED BY <2>5, <2>6, <2>7
<1>12. CASE FrameDeletes
  <2>1. Held' \subseteq Held /\ UNCHANGED <<buf, size, last_error>>
    BY <1>12 DEF FrameDeletes, Held
  <2>2. ASSUME NEW g \in Held PROVE FrameOK(g)'
    BY <2>1, FrameKept
  <2> QED BY <2>1, <2>2
<1>13. CASE UNCHANGED vars
  <2>1. Held' = Held /\ UNCHANGED <<buf, size, last_error>>
    BY <1>13 DEF vars, Held
  <2>2. ASSUME NEW g \in Held PROVE FrameOK(g)'
    BY <2>1, FrameKept
  <2> QED BY <2>1, <2>2
<1> QED BY <1>1, <1>2, <1>3, <1>4, <1>5, <1>6, <1>7, <1>8, <1>9, <1>10, <1>11, <1>12, <1>13 DEF Next

-----------------------------------------------------------------------------
(* What callbacks are given, what stays, and when the model stops *)

\* The reader of a buffer gets the cells in front of its first NUL.
LEMMA TextEnds ==
  ASSUME NEW b \in [1..BufferSize -> Cells], NEW n \in 0..(BufferSize - 1), b[n + 1] = NUL,
         \A m \in 1..n : b[m] # NUL
  PROVE  Len(Text(b)) = n /\ \A k \in 1..n : Text(b)[k] = b[k]
<1> DEFINE Ends(e) == /\ e = BufferSize \/ b[e + 1] = NUL
                      /\ \A m \in 1..e : b[m] # NUL
<1> DEFINE end == CHOOSE e \in 0..BufferSize : Ends(e)
<1>1. BufferSize \in Nat /\ n \in 0..BufferSize /\ n \in Nat
  BY BufferAssumption
<1>3. Ends(n)
  OBVIOUS
<1>4. ASSUME NEW e \in 0..BufferSize, Ends(e) PROVE e = n
  <2>1. CASE e < n
    <3>1. e + 1 \in 1..n /\ e # BufferSize
      BY <1>1, <2>1
    <3> QED BY <1>4, <3>1
  <2>2. CASE e > n
    <3>1. n + 1 \in 1..e
      BY <1>1, <2>2
    <3> QED BY <1>4, <3>1
  <2> QED BY <1>1, <2>1, <2>2
<1>5. end = n
  <2>1. \E e \in 0..BufferSize : Ends(e)
    BY <1>1, <1>3
  <2>2. end \in 0..BufferSize /\ Ends(end)
    BY <2>1
  <2> HIDE DEF end, Ends
  <2> QED BY <1>4, <2>2
<1>6. Text(b) = SubSeq(b, 1, n)
  BY <1>5 DEF Text
<1>7. b \in Seq(Cells) /\ Len(b) = BufferSize
  BY <1>1
<1>8. Len(SubSeq(b, 1, n)) = n /\ \A k \in 1..n : SubSeq(b, 1, n)[k] = b[k]
  BY <1>1, <1>7
<1> QED BY <1>6, <1>8

\* Cells in order have no NUL among them.
LEMMA OrderedCells ==
  ASSUME NEW b, NEW t \in 1..MaxTransfers, NEW n \in 0..MaxReceived, NEW e \in Nat,
         Ordered(b, t, n, e)
  PROVE  \A k \in 1..e : b[k] # NUL
<1> SUFFICES ASSUME NEW k \in 1..e PROVE b[k] # NUL
  OBVIOUS
<1>1. CASE b[k] = Junk
  BY <1>1, CellAssumption
<1>2. CASE b[k] # Junk
  <2>1. PICK i \in 1..n : b[k] = <<t, i>>
    BY <1>2 DEF Ordered
  <2>2. i \in 1..MaxReceived
    BY LimitAssumption
  <2>3. b[k] \in Byte
    BY <2>1, <2>2 DEF Byte
  <2> QED BY <2>3, CellAssumption
<1> QED BY <1>1, <1>2

\* What the two invariants of responses ask of one answer.
PlainArrive(a) ==
  /\ a.code = a.t
  /\ a.from = 0 /\ a.got \in 1..(BufferSize - 1) =>
       /\ \A k \in 1..a.plain : k <= Len(a.text) /\ a.text[k] = <<a.t, k>>
       /\ a.plain = a.got /\ a.junk = 0 => Len(a.text) = a.got

OwnInOrder(a) == a.from = 0 /\ a.got > 0 =>
  \A n \in 1..Len(a.text) :
    a.text[n] # Junk =>
      /\ a.text[n] \in {a.t} \X (1..a.got)
      /\ \A m \in 1..(n - 1) : a.text[m] # Junk => a.text[m][2] < a.text[n][2]

\* A callback of a transfer that was performed gets its code, and its bytes.
LEMMA AnswerIsOwn ==
  ASSUME TypeOK, NEW f \in Frame, FrameOK(f), NEW a \in Answer(f, f.t)
  PROVE  PlainArrive(a) /\ OwnInOrder(a)
<1>1. /\ a.code = f.t /\ a.t = f.t /\ a.from = f.from /\ a.got = f.got
      /\ a.plain = f.plain /\ a.junk = f.junk /\ a.text = Text(buf[f.curl])
  BY DEF Answer
<1>2. CASE ~(f.from = 0 /\ f.got > 0)
  <2>1. ~(a.from = 0 /\ a.got \in 1..(BufferSize - 1))
    BY <1>1, <1>2, BufferAssumption
  <2> QED BY <1>1, <1>2, <2>1 DEF PlainArrive, OwnInOrder
<1>3. CASE f.from = 0 /\ f.got > 0
  <2>1. /\ f.curl \in Curls /\ f.t \in 1..MaxTransfers /\ f.got \in 0..MaxReceived
        /\ f.got \in Nat /\ f.plain \in Nat /\ BufferSize \in Nat
    BY BufferAssumption, LimitAssumption DEF Frame
  <2>2. PICK b \in [1..BufferSize -> Cells] : b = buf[f.curl]
    BY <2>1 DEF TypeOK
  <2>3. PICK e \in 0..(BufferSize - 1) : b[e + 1] = NUL /\ Ordered(b, f.t, f.got, e)
    BY <1>3, <2>2 DEF FrameOK, InOrder
  <2>4. \A k \in 1..e : b[k] # NUL
    BY <2>1, <2>3, OrderedCells
  <2>5. Len(a.text) = e /\ \A k \in 1..e : a.text[k] = b[k]
    BY <1>1, <2>2, <2>3, <2>4, TextEnds
  <2>6. OwnInOrder(a)
    <3>1. \A k \in 1..e : 1..(k - 1) \subseteq 1..e
      BY <2>1
    <3> QED BY <1>1, <2>3, <2>5, <3>1 DEF OwnInOrder, Ordered
  <2>7. ASSUME f.got \in 1..(BufferSize - 1)
        PROVE  /\ \A k \in 1..a.plain : k <= Len(a.text) /\ a.text[k] = <<a.t, k>>
               /\ a.plain = a.got /\ a.junk = 0 => Len(a.text) = a.got
    <3>1. /\ f.plain <= f.got /\ f.got < BufferSize
          /\ \A k \in 1..f.plain : b[k] = <<f.t, k>>
          /\ f.plain = f.got /\ f.junk = 0 => b[f.got + 1] = NUL
      BY <1>3, <2>1, <2>2, <2>7 DEF FrameOK, Spelled
    <3>2. f.plain <= e
      <4>1. ASSUME e < f.plain PROVE FALSE
        <5>1. e + 1 \in 1..f.plain
          BY <2>1, <4>1
        <5>2. e + 1 \in 1..MaxReceived
          BY <2>1, <3>1, <5>1, LimitAssumption
        <5>3. b[e + 1] \in Byte
          <6>1. b[e + 1] = <<f.t, e + 1>>
            BY <3>1, <5>1
          <6> QED BY <2>1, <5>2, <6>1 DEF Byte
        <5> QED BY <2>3, <5>3, CellAssumption
      <4> QED BY <2>1, <4>1
    <3>3. \A k \in 1..f.plain : k \in 1..e /\ k <= e
      BY <2>1, <3>2
    <3>4. ASSUME f.plain = f.got, f.junk = 0 PROVE e = f.got
      <4>1. ~(f.got + 1 \in 1..e)
        BY <2>4, <3>1, <3>4
      <4> QED BY <2>1, <3>2, <3>4, <4>1
    <3> QED BY <1>1, <2>5, <3>1, <3>3, <3>4
  <2> QED BY <1>1, <2>6, <2>7 DEF PlainArrive
<1> QED BY <1>2, <1>3

LEMMA ResponseStep ==
  TypeOK /\ Owned /\ (\A f \in Held : FrameOK(f)) /\ PlainBytesArrive /\ BytesInOrder /\ [Next]_vars
    => PlainBytesArrive' /\ BytesInOrder'
<1> SUFFICES ASSUME TypeOK, Owned, \A f \in Held : FrameOK(f), PlainBytesArrive, BytesInOrder,
                    [Next]_vars
             PROVE  PlainBytesArrive' /\ BytesInOrder'
  OBVIOUS
<1>0. (\A a \in told' : PlainArrive(a) /\ OwnInOrder(a)) => PlainBytesArrive' /\ BytesInOrder'
  BY DEF PlainBytesArrive, BytesInOrder, PlainArrive, OwnInOrder
<1>1. CASE told' = told
  BY <1>1 DEF PlainBytesArrive, BytesInOrder
<1>2. ASSUME NEW f \in Held, told' = Answer(f, f.t) PROVE PlainBytesArrive' /\ BytesInOrder'
  <2>1. f \in Frame /\ FrameOK(f)
    BY HeldApart
  <2>2. \A a \in Answer(f, f.t) : PlainArrive(a) /\ OwnInOrder(a)
    BY <2>1, AnswerIsOwn
  <2> QED BY <1>0, <1>2, <2>2
<1>3. CASE ExecAnswers
  <2>1. Head(calls) \in Held
    BY <1>3 DEF ExecAnswers, Held
  <2> QED BY <1>2, <1>3, <2>1 DEF ExecAnswers
<1>4. CASE FrameAnswers
  <2>1. PICK f \in jobs : f.pc = "done" /\ told' = Answer(f, last_error[f.curl])
    BY <1>4 DEF FrameAnswers
  <2>2. f \in Held /\ last_error[f.curl] = f.t
    <3>1. f \in Held
      BY DEF Held
    <3> QED BY <2>1, <3>1 DEF FrameOK
  <2> QED BY <1>2, <2>1, <2>2
<1>5. CASE \E length \in ChunkSizes : ExecReceives(length) \/ ThreadReceives(length)
  BY <1>1, <1>5 DEF ExecReceives, ThreadReceives, WriteFunction
<1>6. CASE UNCHANGED vars
  BY <1>1, <1>6 DEF vars
<1>7. CASE \E c \in Curls : CurlInit(c) \/ CurlExec(c) \/ RunThread(c)
  BY <1>1, <1>7 DEF CurlInit, CurlExec, RunThread
<1>8. CASE \E c, d \in Curls : CurlDupHandle(c, d) \/ CurlThreadExec(c, d)
  BY <1>1, <1>8 DEF CurlDupHandle, CurlThreadExec, MakeDuplicate
<1>9. CASE ExecReturns \/ ExecUnknownCallback \/ ThreadTerminates \/ FrameDeletes
  BY <1>1, <1>9 DEF ExecReturns, ExecUnknownCallback, ThreadTerminates, FrameDeletes
<1> QED BY <1>3, <1>4, <1>5, <1>6, <1>7, <1>8, <1>9 DEF Next

\* The store that would begin outside of a buffer is of a transfer that filled it.
LEMMA DamageStep ==
  TypeOK /\ Owned /\ (\A f \in Held : FrameOK(f)) /\ DamageNeedsOverflow /\ [Next]_vars
    => DamageNeedsOverflow'
<1> SUFFICES ASSUME TypeOK, Owned, \A f \in Held : FrameOK(f), DamageNeedsOverflow, [Next]_vars
             PROVE  DamageNeedsOverflow'
  OBVIOUS
<1>1. CASE ~damaged'
  BY <1>1 DEF DamageNeedsOverflow
<1>2. ASSUME NEW f \in Held, NEW length \in ChunkSizes,
         NEW p \in PlainParts(length), NEW j \in JunkLengths, WriteFunction(f, length, p, j), damaged' = TRUE
      PROVE  /\ f \in Frame
             /\ Received(f, length, p, j).pc = "perform"
             /\ Received(f, length, p, j).from + Received(f, length, p, j).got > BufferSize + 1
  <2>1. /\ f \in Frame /\ FrameOK(f) /\ f.curl \in Curls
    BY HeldApart
  <2>2. f.pc = "perform" /\ f.got + length <= MaxReceived /\ size[f.curl] > BufferSize
    BY <1>2, StoreCases
  <2>3. /\ length \in Nat \ {0} /\ Received(f, length, p, j).got = f.got + length
        /\ Received(f, length, p, j).from = f.from /\ Received(f, length, p, j).pc = f.pc
    BY <2>1, <2>2, ChunkCells
  <2>4. /\ size[f.curl] \in Nat /\ f.from \in Nat /\ f.got \in Nat /\ BufferSize \in Nat
        /\ size[f.curl] <= f.from + f.got
    BY <2>1, BufferAssumption, LimitAssumption DEF TypeOK, Frame, FrameOK
  <2>5. f.from + (f.got + length) > BufferSize + 1
    BY <2>2, <2>3, <2>4
  <2> QED BY <2>1, <2>2, <2>3, <2>5
<1>3. ASSUME NEW length \in ChunkSizes, ExecReceives(length), damaged' = TRUE
      PROVE  DamageNeedsOverflow'
  <2>1. PICK f \in Frame : f = Head(calls)
    BY <1>3, PopPlaces DEF ExecReceives, TypeOK
  <2>2. PICK p \in PlainParts(length), j \in JunkLengths :
        /\ WriteFunction(f, length, p, j) /\ calls' = <<Received(f, length, p, j)>> \o Tail(calls)
        /\ calls # <<>>
    BY <1>3, <2>1 DEF ExecReceives
  <2>3. f \in Held
    BY <2>1, <2>2 DEF WriteFunction, Held
  <2>4. PICK r \in Frame : r = Received(f, length, p, j)
    BY <2>2, StoreCases, ChunkCells
  <2>5. r.pc = "perform" /\ r.from + r.got > BufferSize + 1
    BY <1>2, <1>3, <2>2, <2>3, <2>4
  <2>6. calls' # <<>> /\ Head(calls') = r
    BY <2>2, <2>4, ReplacedPlaces DEF TypeOK
  <2>7. r \in Performing'
    BY <2>5, <2>6 DEF Performing
  <2> QED BY <2>5, <2>7 DEF DamageNeedsOverflow
<1>4. ASSUME NEW length \in ChunkSizes, ThreadReceives(length), damaged' = TRUE
      PROVE  DamageNeedsOverflow'
  <2>1. PICK f \in jobs, p \in PlainParts(length), j \in JunkLengths :
                          /\ WriteFunction(f, length, p, j)
                          /\ jobs' = (jobs \ {f}) \cup {Received(f, length, p, j)}
    BY <1>4 DEF ThreadReceives
  <2>2. f \in Held /\ f \in Frame
    BY DEF Held, TypeOK
  <2>3. PICK r \in Frame : r = Received(f, length, p, j)
    BY <2>1, <2>2, StoreCases, ChunkCells
  <2>4. r.pc = "perform" /\ r.from + r.got > BufferSize + 1
    BY <1>2, <1>4, <2>1, <2>2, <2>3
  <2>5. r \in Performing'
    BY <2>1, <2>3, <2>4 DEF Performing
  <2> QED BY <2>4, <2>5 DEF DamageNeedsOverflow
<1>5. ASSUME NEW length \in ChunkSizes, ExecReceives(length) \/ ThreadReceives(length)
      PROVE  damaged' = TRUE \/ damaged' = FALSE
  BY <1>5, StoreCases DEF ExecReceives, ThreadReceives
<1>6. CASE UNCHANGED vars
  BY <1>6 DEF vars, DamageNeedsOverflow, Performing
<1>7. CASE \E c \in Curls : CurlInit(c) \/ CurlExec(c) \/ RunThread(c)
  BY <1>1, <1>7 DEF CurlInit, CurlExec, RunThread, InPlugin
<1>8. CASE \E c, d \in Curls : CurlDupHandle(c, d) \/ CurlThreadExec(c, d)
  BY <1>1, <1>8 DEF CurlDupHandle, CurlThreadExec, MakeDuplicate, InPlugin
<1>9. CASE \/ ExecAnswers \/ ExecReturns \/ ExecUnknownCallback
           \/ ThreadTerminates \/ FrameAnswers \/ FrameDeletes
  BY <1>1, <1>9 DEF ExecAnswers, ExecReturns, ExecUnknownCallback, ThreadTerminates,
                    FrameAnswers, FrameDeletes
<1> QED BY <1>1, <1>3, <1>4, <1>5, <1>6, <1>7, <1>8, <1>9 DEF Next

\* A buffer that holds counted bytes is accounted for: those of other objects stay
\* when one object's calls, counter or owner change.
LEMMA LeftoversKept ==
  ASSUME LeftoversExplained, NEW c \in Curls,
         \A d \in Curls : d # c => /\ size'[d] = size[d]
                                   /\ owner'[d] = "plugin" => owner[d] = "plugin"
                                   /\ d \in spoiled => d \in spoiled'
                                   /\ (\E n \in 1..Len(calls) : calls[n].curl = d)
                                        => (\E n \in 1..Len(calls') : calls'[n].curl = d),
         size'[c] > 0 /\ owner'[c] = "plugin" =>
           c \in spoiled' \/ \E n \in 1..Len(calls') : calls'[n].curl = c
  PROVE  LeftoversExplained'
  BY DEF LeftoversExplained

LEMMA LeftoversStep ==
  TypeOK /\ Owned /\ LeftoversExplained /\ [Next]_vars => LeftoversExplained'
<1> SUFFICES ASSUME TypeOK, Owned, LeftoversExplained, [Next]_vars PROVE LeftoversExplained'
  OBVIOUS
<1> USE DEF objects
<1>t. /\ owner \in [Curls -> {"none", "plugin", "worker"}] /\ size \in [Curls -> Nat]
      /\ spoiled \subseteq Curls /\ calls \in Seq(Frame)
  BY DEF TypeOK
<1>1. ASSUME NEW c \in Curls, CurlInit(c) PROVE LeftoversExplained'
  <2>1. /\ size' = [size EXCEPT ![c] = 0] /\ spoiled' = spoiled \ {c} /\ calls' = calls
        /\ owner' = [owner EXCEPT ![c] = "plugin"]
    BY <1>1 DEF CurlInit
  <2>2. \A d \in Curls : d # c => /\ size'[d] = size[d] /\ owner'[d] = owner[d]
                                  /\ d \in spoiled => d \in spoiled'
    BY <1>t, <2>1
  <2>3. ~(size'[c] > 0)
    BY <1>t, <2>1
  <2> QED BY <2>1, <2>2, <2>3, LeftoversKept
<1>2. ASSUME NEW c \in Curls, CurlExec(c) PROVE LeftoversExplained'
  <2>1. PICK g \in Frame : g = NewFrame(c)
    BY <1>2, FrameBegins DEF CurlExec
  <2>2. calls' = <<g>> \o calls /\ UNCHANGED <<size, owner, spoiled>>
    BY <1>2, <2>1 DEF CurlExec
  <2>3. /\ Len(calls) \in Nat /\ Len(calls') = Len(calls) + 1
        /\ \A n \in 2..(Len(calls) + 1) : calls'[n] = calls[n - 1]
    BY <1>t, <2>2, PushPlaces
  <2>4. ASSUME NEW n \in 1..Len(calls)
        PROVE  n + 1 \in 1..Len(calls') /\ calls'[n + 1].curl = calls[n].curl
    <3>1. n + 1 \in 2..(Len(calls) + 1) /\ (n + 1) - 1 = n /\ n + 1 \in 1..Len(calls')
      BY <2>3
    <3> QED BY <2>3, <3>1
  <2>5. ASSUME NEW d \in Curls, size[d] > 0, owner[d] = "plugin"
        PROVE  d \in spoiled \/ \E n \in 1..Len(calls') : calls'[n].curl = d
    BY <2>4, <2>5 DEF LeftoversExplained
  <2> QED BY <2>2, <2>5 DEF LeftoversExplained
<1>3. ASSUME NEW c \in Curls, NEW d \in Curls, CurlDupHandle(c, d) \/ CurlThreadExec(c, d)
      PROVE  LeftoversExplained'
  <2>1. /\ size' = [size EXCEPT ![d] = size[c]] /\ calls' = calls
        /\ spoiled' = IF size[c] > 0 THEN spoiled \cup {d} ELSE spoiled \ {d}
    BY <1>3 DEF CurlDupHandle, CurlThreadExec, MakeDuplicate
  <2>2. PICK who : owner' = [owner EXCEPT ![d] = who]
    BY <1>3 DEF CurlDupHandle, CurlThreadExec
  <2>3. \A e \in Curls : e # d => /\ size'[e] = size[e] /\ owner'[e] = owner[e]
                                  /\ e \in spoiled => e \in spoiled'
    BY <1>t, <2>1, <2>2
  <2>4. size'[d] > 0 => d \in spoiled'
    BY <1>t, <2>1
  <2> QED BY <2>1, <2>3, <2>4, LeftoversKept
<1>4. ASSUME NEW length \in ChunkSizes, ExecReceives(length) PROVE LeftoversExplained'
  <2>1. PICK f \in Frame : f = Head(calls)
    BY <1>4, <1>t, PopPlaces DEF ExecReceives
  <2>2. PICK p \in PlainParts(length), j \in JunkLengths :
        /\ WriteFunction(f, length, p, j) /\ calls' = <<Received(f, length, p, j)>> \o Tail(calls)
        /\ calls # <<>>
    BY <1>4, <2>1 DEF ExecReceives
  <2>s. f.got + length <= MaxReceived
    BY <2>2, StoreCases
  <2>3. PICK r \in Frame : r = Received(f, length, p, j) /\ r.curl = f.curl
    BY <2>s, ChunkCells
  <2>4. /\ Len(calls') = Len(calls) /\ Len(calls) \in Nat /\ Len(calls) > 0 /\ calls'[1] = r
        /\ calls[1] = f /\ \A n \in 2..Len(calls) : calls'[n] = calls[n]
    BY <1>t, <2>1, <2>2, <2>3, PopPlaces, ReplacedPlaces
  <2>5. ASSUME NEW n \in 1..Len(calls) PROVE n \in 1..Len(calls') /\ calls'[n].curl = calls[n].curl
    <3>1. CASE n = 1
      BY <2>3, <2>4, <3>1
    <3>2. CASE n # 1
      <4>1. n \in 2..Len(calls)
        BY <2>4, <3>2
      <4> QED BY <2>4, <4>1
    <3> QED BY <3>1, <3>2
  <2>6. /\ owner' = owner /\ spoiled' = spoiled
        /\ \A c \in Curls : c # f.curl => size'[c] = size[c]
    BY <2>2, StoreCases, StoreKeeps
  <2>7. 1 \in 1..Len(calls') /\ calls'[1].curl = f.curl /\ f.curl \in Curls
    BY <2>3, <2>4 DEF Frame
  <2>8. \A d \in Curls : (\E n \in 1..Len(calls) : calls[n].curl = d)
                           => (\E n \in 1..Len(calls') : calls'[n].curl = d)
    BY <2>5
  <2>9. PICK c \in Curls : c = f.curl
    BY <2>7
  <2> QED BY <2>6, <2>7, <2>8, <2>9, LeftoversKept
<1>5. ASSUME NEW length \in ChunkSizes, ThreadReceives(length) PROVE LeftoversExplained'
  <2>1. PICK f \in jobs, p \in PlainParts(length), j \in JunkLengths :
          WriteFunction(f, length, p, j) /\ UNCHANGED calls
    BY <1>5 DEF ThreadReceives
  <2>2. f \in Frame /\ f.curl \in Curls /\ owner[f.curl] = "worker"
    BY DEF TypeOK, Frame, Owned
  <2>3. /\ owner' = owner /\ spoiled' = spoiled
        /\ \A c \in Curls : c # f.curl => size'[c] = size[c]
    BY <2>1, <2>2, StoreCases, StoreKeeps
  <2>4. PICK c \in Curls : c = f.curl
    BY <2>2
  <2> QED BY <2>1, <2>2, <2>3, <2>4, LeftoversKept
<1>6. CASE ExecAnswers
  <2>1. PICK f \in Frame : f = Head(calls)
    BY <1>6, <1>t, PopPlaces DEF ExecAnswers
  <2>2. PICK r \in Frame : r = [f EXCEPT !.pc = "callback"]
    BY DEF Frame
  <2>3. /\ r.curl = f.curl /\ calls' = <<r>> \o Tail(calls) /\ calls # <<>>
        /\ UNCHANGED <<owner, size, spoiled>>
    BY <1>6, <2>1, <2>2 DEF ExecAnswers, Frame
  <2>4. /\ Len(calls') = Len(calls) /\ Len(calls) \in Nat /\ Len(calls) > 0 /\ calls'[1] = r
        /\ calls[1] = f /\ \A n \in 2..Len(calls) : calls'[n] = calls[n]
    BY <1>t, <2>1, <2>3, PopPlaces, ReplacedPlaces
  <2>5. ASSUME NEW n \in 1..Len(calls) PROVE n \in 1..Len(calls') /\ calls'[n].curl = calls[n].curl
    <3>1. CASE n = 1
      BY <2>3, <2>4, <3>1
    <3>2. CASE n # 1
      <4>1. n \in 2..Len(calls)
        BY <2>4, <3>2
      <4> QED BY <2>4, <4>1
    <3> QED BY <3>1, <3>2
  <2> QED BY <2>3, <2>5 DEF LeftoversExplained
<1>7. ASSUME calls # <<>>, calls' = Tail(calls)
      PROVE  \A d \in Curls : d # Head(calls).curl =>
               ((\E n \in 1..Len(calls) : calls[n].curl = d)
                 => \E n \in 1..Len(calls') : calls'[n].curl = d)
  <2>1. /\ Head(calls) = calls[1] /\ Len(calls) \in Nat /\ Len(calls) > 0
        /\ Len(calls') = Len(calls) - 1 /\ \A n \in 1..(Len(calls) - 1) : calls'[n] = calls[n + 1]
    BY <1>t, <1>7, PopPlaces
  <2>2. ASSUME NEW d \in Curls, d # Head(calls).curl, NEW n \in 1..Len(calls), calls[n].curl = d
        PROVE  n - 1 \in 1..Len(calls') /\ calls'[n - 1].curl = d
    <3>1. n # 1
      BY <2>1, <2>2
    <3>2. n - 1 \in 1..(Len(calls) - 1) /\ (n - 1) + 1 = n
      BY <2>1, <3>1
    <3> QED BY <2>1, <2>2, <3>2
  <2> QED BY <2>2
<1>8. CASE ExecReturns
  <2>1. Head(calls) \in Frame /\ calls # <<>> /\ calls' = Tail(calls) /\ owner' = owner
    BY <1>8, <1>t, PopPlaces DEF ExecReturns
  <2>2. PICK c \in Curls : c = Head(calls).curl
    BY <2>1 DEF Frame
  <2>3. size' = [size EXCEPT ![c] = 0] /\ spoiled' = spoiled \ {c}
    BY <1>8, <2>2 DEF ExecReturns, Flush
  <2>4. \A d \in Curls : d # c => size'[d] = size[d] /\ (d \in spoiled => d \in spoiled')
    BY <1>t, <2>3
  <2>5. ~(size'[c] > 0)
    BY <1>t, <2>3
  <2>6. \A d \in Curls : d # c =>
               ((\E n \in 1..Len(calls) : calls[n].curl = d)
                 => \E n \in 1..Len(calls') : calls'[n].curl = d)
    BY <1>7, <2>1, <2>2
  <2> QED BY <2>1, <2>4, <2>5, <2>6, LeftoversKept
<1>9. CASE ExecUnknownCallback
  <2>1. /\ Head(calls) \in Frame /\ calls # <<>> /\ calls' = Tail(calls)
        /\ UNCHANGED <<owner, size>>
    BY <1>9, <1>t, PopPlaces DEF ExecUnknownCallback
  <2>2. PICK c \in Curls : c = Head(calls).curl
    BY <2>1 DEF Frame
  <2>3. spoiled' = IF size[c] > 0 THEN spoiled \cup {c} ELSE spoiled
    BY <1>9, <2>2 DEF ExecUnknownCallback
  <2>4. (\A d \in Curls : d \in spoiled => d \in spoiled') /\ (size[c] > 0 => c \in spoiled')
    BY <2>3
  <2>6. \A d \in Curls : d # c =>
               ((\E n \in 1..Len(calls) : calls[n].curl = d)
                 => \E n \in 1..Len(calls') : calls'[n].curl = d)
    BY <1>7, <2>1, <2>2
  <2> QED BY <2>1, <2>4, <2>6, LeftoversKept
<1>10. CASE FrameDeletes
  <2>1. PICK f \in jobs : owner' = [owner EXCEPT ![f.curl] = "none"] /\ UNCHANGED <<size, calls, spoiled>>
    BY <1>10 DEF FrameDeletes
  <2>2. \A c \in Curls : owner'[c] = "plugin" => owner[c] = "plugin"
    BY <1>t, <2>1
  <2> QED BY <2>1, <2>2 DEF LeftoversExplained
<1>11. CASE \/ ThreadTerminates \/ FrameAnswers \/ UNCHANGED vars
            \/ \E c \in Curls : RunThread(c)
  <2>1. UNCHANGED <<owner, size, spoiled, calls>>
    BY <1>11 DEF ThreadTerminates, FrameAnswers, vars, RunThread
  <2> QED BY <2>1 DEF LeftoversExplained
<1> QED BY <1>1, <1>2, <1>3, <1>4, <1>5, <1>6, <1>8, <1>9, <1>10, <1>11 DEF Next
-----------------------------------------------------------------------------
(* Theorems *)

LEMMA BufferInit == Init => IInv
<1> SUFFICES ASSUME Init PROVE IInv
  OBVIOUS
<1> USE DEF Init
<1>1. TypeOK
  <2>1. [n \in 1..BufferSize |-> Junk] \in [1..BufferSize -> Cells]
    BY DEF Cells
  <2>2. 0 \in 0..MaxTransfers
    BY LimitAssumption
  <2>3. buf \in [Curls -> [1..BufferSize -> Cells]]
    BY <2>1
  <2>4. calls \in Seq(Frame)
    OBVIOUS
  <2>5. owner \in [Curls -> {"none", "plugin", "worker"}] /\ size \in [Curls -> Nat]
        /\ last_error \in [Curls -> 0..MaxTransfers]
    BY <2>2
  <2> QED BY <2>2, <2>3, <2>4, <2>5 DEF TypeOK
<1>2. Owned /\ (\A f \in Held : FrameOK(f))
  BY DEF Owned, Held
<1>3. LeftoversExplained
  BY DEF LeftoversExplained
<1>4. PlainBytesArrive /\ BytesInOrder /\ DamageNeedsOverflow
  BY DEF PlainBytesArrive, BytesInOrder, DamageNeedsOverflow
<1> QED BY <1>1, <1>2, <1>3, <1>4 DEF IInv

LEMMA BufferStep == IInv /\ [Next]_vars => IInv'
<1> SUFFICES ASSUME IInv, [Next]_vars PROVE IInv'
  OBVIOUS
<1> USE DEF IInv
<1>1. TypeOK'
  BY TypeStep
<1>2. Owned'
  BY OwnedStep
<1>3. (\A f \in Held : FrameOK(f))'
  BY FrameStep
<1>4. LeftoversExplained'
  BY LeftoversStep
<1>5. PlainBytesArrive' /\ BytesInOrder'
  BY ResponseStep
<1>6. DamageNeedsOverflow'
  BY DamageStep
<1> QED BY <1>1, <1>2, <1>3, <1>4, <1>5, <1>6

\* A transfer has its object to itself, counts in it what it received, and has there
\* bytes of its own only, in order, the plain ones it began with in place, in every
\* state of the plugin, of the worker and of libcurl.
THEOREM BufferInductive == Spec => []IInv
  BY BufferInit, BufferStep, PTL DEF Spec

\* Buffers stay buffers and counters natural numbers, even after the NUL that
\* snprintf puts behind a full buffer.
THEOREM BufferTypeCorrect == Spec => []TypeOK
<1>1. IInv => TypeOK
  BY DEF IInv
<1> QED BY <1>1, BufferInductive, PTL

\* WriteFunction: nobody writes between the bytes of a transfer that began on an
\* empty buffer.
THEOREM CountsCorrect == Spec => []CountsOwnBytes
<1>1. IInv => CountsOwnBytes
  <2> SUFFICES ASSUME IInv, NEW f \in Performing, f.from = 0, f.got < BufferSize
               PROVE  size[f.curl] = f.got
    BY DEF CountsOwnBytes
  <2>1. f \in Held
    BY DEF Performing, Held
  <2>2. f \in Frame /\ FrameOK(f)
    BY <2>1, HeldApart DEF IInv
  <2>3. f.got \in Nat /\ BufferSize \in Nat
    BY <2>2, BufferAssumption, LimitAssumption DEF Frame
  <2>4. 0 + f.got <= BufferSize /\ 0 + f.got = f.got
    BY <2>3
  <2> QED BY <2>2, <2>4 DEF FrameOK
<1> QED BY <1>1, BufferInductive, PTL

\* curl_exec, StartFrame: a callback gets the code of the transfer whose response it
\* gets, and the plain bytes a short response begins with.
THEOREM ResponseCorrect == Spec => []PlainBytesArrive
<1>1. IInv => PlainBytesArrive
  BY DEF IInv
<1> QED BY <1>1, BufferInductive, PTL

\* WriteFunction: whatever was lost, misplaced or rewritten on the way, no byte of
\* another transfer and none out of order is in the text of a transfer that began on
\* an empty buffer.
THEOREM OrderCorrect == Spec => []BytesInOrder
<1>1. IInv => BytesInOrder
  BY DEF IInv
<1> QED BY <1>1, BufferInductive, PTL

\* Flush, MakeDuplicate: what a buffer holds between calls came from an unknown
\* callback or with a duplicate.
THEOREM LeftoversCorrect == Spec => []LeftoversExplained
<1>1. IInv => LeftoversExplained
  BY DEF IInv
<1> QED BY <1>1, BufferInductive, PTL

\* WriteFunction begins outside of a buffer only after more bytes than fit in it.
THEOREM DamageCorrect == Spec => []DamageNeedsOverflow
<1>1. IInv => DamageNeedsOverflow
  BY DEF IInv
<1> QED BY <1>1, BufferInductive, PTL
=============================================================================
