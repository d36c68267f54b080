---------------------- MODULE LoopbackConnection_proofs ----------------------
(***************************************************************************)
(* Proofs about LoopbackConnection, for any number of requests, any sizes  *)
(* of requests, responses and the stream's space.                          *)
(***************************************************************************)
EXTENDS LoopbackConnection, SequenceTheorems, TLAPS

PieceAt(i) == Exchange!PieceAt(i)

\* The k-th piece of the response that comes after f whole ones.
LEMMA PieceOfResponse ==
  ASSUME NEW f \in Nat, NEW k \in 1 .. ResponseLength
  PROVE  PieceAt(ResponseLength * f + k) = <<f + 1, k>>
<1>1. ResponseLength \in Nat \ {0} /\ k - 1 \in 0 .. ResponseLength - 1
  BY SizesAssumption
<1>2. /\ (ResponseLength * f + (k - 1)) \div ResponseLength = f
      /\ (ResponseLength * f + (k - 1)) % ResponseLength = k - 1
  BY <1>1
<1>3. ResponseLength * f + k - 1 = ResponseLength * f + (k - 1)
  BY <1>1
<1> QED BY <1>1, <1>2, <1>3 DEF PieceAt, Exchange!PieceAt

-----------------------------------------------------------------------------
(* What is on its way. *)

Sendings == [c : Connections, out : OutputStreams, finished : 0 .. MaxRequests]

\* The requests listed are those that are not finished, ...
Listed(x) ==
  /\ x.c.parsed = x.finished + Len(x.c.requests)
  /\ \A i \in 1 .. Len(x.c.requests) : x.c.requests[i] = x.finished + i

\* ... and what was written and what is to be written are the responses of the
\* finished ones and of the first that is not, if it is being sent.
InOrder(wire, bytes) ==
  /\ \A i \in 1 .. Len(wire) : wire[i] = PieceAt(i)
  /\ \A j \in 1 .. Len(bytes) : bytes[j] = PieceAt(Len(wire) + j)

Underway(x, bytes) ==
  /\ Len(x.out.wire) >= ResponseLength * x.finished
  /\ Len(x.out.wire) + Len(bytes)
       = ResponseLength * (x.finished + IF x.c.firstResponseDone THEN 1 ELSE 0)
  /\ InOrder(x.out.wire, bytes)

\* The rest that waits for space is of an answered request.
SoundWith(x, bytes) ==
  /\ x.c.answered \subseteq 1 .. x.c.parsed
  /\ x.finished <= x.c.parsed
  /\ x.c.isValid =>
       /\ Listed(x)
       /\ x.c.firstResponseDone => Ready(x)
       /\ ~ x.c.firstResponseDone => bytes = <<>>
       /\ x.out.status # "error" => Underway(x, bytes)

Sound(x) == x \in Sendings /\ SoundWith(x, x.c.obuffer)

\* From x to y the browser gets no pieces but those that are next, and those only
\* of requests that are answered.
Sends(x, y) ==
  /\ y.c.parsed = x.c.parsed /\ y.c.answered = x.c.answered
  /\ y.c.isValid => x.c.isValid
  /\ ~ x.c.isValid => y.out.wire = x.out.wire
  /\ Len(y.out.wire) >= Len(x.out.wire)
  /\ \A i \in 1 .. Len(x.out.wire) : y.out.wire[i] = x.out.wire[i]
  /\ \A i \in Len(x.out.wire) + 1 .. Len(y.out.wire) :
       y.out.wire[i] = PieceAt(i) /\ PieceAt(i)[1] \in x.c.answered

LEMMA SendsOn ==
  ASSUME NEW x \in Sendings, NEW y \in Sendings, NEW z \in Sendings,
         Sends(x, y), Sends(y, z)
  PROVE  Sends(x, z)
<1>1. /\ Len(x.out.wire) \in Nat /\ Len(y.out.wire) \in Nat /\ Len(z.out.wire) \in Nat
  BY DEF Sendings, OutputStreams
<1> DEFINE a == Len(x.out.wire)
           b == Len(y.out.wire)
           d == Len(z.out.wire)
<1>2. /\ a <= b /\ b <= d
      /\ \A i \in 1 .. a : y.out.wire[i] = x.out.wire[i]
      /\ \A i \in 1 .. b : z.out.wire[i] = y.out.wire[i]
      /\ \A i \in a + 1 .. b : y.out.wire[i] = PieceAt(i) /\ PieceAt(i)[1] \in x.c.answered
      /\ \A i \in b + 1 .. d : z.out.wire[i] = PieceAt(i) /\ PieceAt(i)[1] \in x.c.answered
  BY DEF Sends
<1>3. /\ z.c.parsed = x.c.parsed /\ z.c.answered = x.c.answered
      /\ z.c.isValid => x.c.isValid
      /\ ~ x.c.isValid => z.out.wire = x.out.wire
  BY DEF Sends
<1> HIDE DEF a, b, d
<1>4. a \in Nat /\ b \in Nat /\ d \in Nat /\ a <= d
  BY <1>1, <1>2 DEF a, b, d
<1>5. \A i \in 1 .. a : z.out.wire[i] = x.out.wire[i]
  BY <1>2, <1>4
<1>6. \A i \in a + 1 .. d : z.out.wire[i] = PieceAt(i) /\ PieceAt(i)[1] \in x.c.answered
  <2> SUFFICES ASSUME NEW i \in a + 1 .. d
               PROVE  z.out.wire[i] = PieceAt(i) /\ PieceAt(i)[1] \in x.c.answered
    OBVIOUS
  <2>1. CASE i <= b
    <3>1. i \in 1 .. b /\ i \in a + 1 .. b
      BY <1>4, <2>1
    <3> QED BY <1>2, <3>1
  <2>2. CASE i > b
    <3>1. i \in b + 1 .. d
      BY <1>4, <2>2
    <3> QED BY <1>2, <3>1
  <2> QED BY <1>4, <2>1, <2>2
<1> QED BY <1>3, <1>4, <1>5, <1>6 DEF Sends, a, d

LEMMA SendsNothing == ASSUME NEW x \in Sendings PROVE Sends(x, x)
  BY DEF Sends, Sendings, OutputStreams

\* What write:maxLength: does.
LEMMA WriteMakes ==
  ASSUME NEW x \in Sendings, NEW bytes \in Seq(Pieces)
  PROVE  LET y == Write(x, bytes) IN
         /\ y \in Sendings /\ y.finished = x.finished
         /\ y.c = [x.c EXCEPT !.obuffer = y.c.obuffer]
         /\ \/ y.out.status = "error" /\ y.out.wire = x.out.wire /\ y.c.obuffer = <<>>
            \/ \E n \in 0 .. Len(bytes) :
                 /\ x.out.status = "open" /\ y.out.status = "open"
                 /\ y.out.wire = x.out.wire \o SubSeq(bytes, 1, n)
                 /\ y.c.obuffer = SubSeq(bytes, n + 1, Len(bytes))
<1> DEFINE y == Write(x, bytes)
           n == Written(x, bytes)
<1>1. /\ x.c \in Connections /\ x.out \in OutputStreams /\ x.finished \in 0 .. MaxRequests
      /\ x = [c |-> x.c, out |-> x.out, finished |-> x.finished]
  BY DEF Sendings
<1>2. x.out.space \in Nat /\ x.out.space <= StreamSpace /\ x.out.wire \in Seq(Pieces)
  BY <1>1, SizesAssumption DEF OutputStreams
<1>3. CASE x.out.status # "open"
  <2>1. /\ y.c = [x.c EXCEPT !.obuffer = <<>>] /\ y.out = [x.out EXCEPT !.status = "error"]
        /\ y = [c |-> y.c, out |-> y.out, finished |-> x.finished]
    BY <1>1, <1>3 DEF Write
  <2> HIDE DEF y
  <2>2. y.c \in Connections /\ y.out \in OutputStreams
    <3>1. <<>> \in Seq(Pieces)
      OBVIOUS
    <3>2. y.c \in Connections
      BY <1>1, <2>1, <3>1 DEF Connections
    <3>3. y.out \in OutputStreams
      BY <1>1, <2>1 DEF OutputStreams
    <3> QED BY <3>2, <3>3
  <2>3. /\ y.c = [x.c EXCEPT !.obuffer = y.c.obuffer] /\ y.c.obuffer = <<>>
        /\ y.out.status = "error" /\ y.out.wire = x.out.wire
    BY <1>1, <2>1 DEF Connections, OutputStreams
  <2>4. y \in Sendings /\ y.finished = x.finished
    BY <1>1, <2>1, <2>2 DEF Sendings
  <2> QED BY <2>3, <2>4 DEF y
<1>4. CASE x.out.status = "open"
  <2>1. n \in 0 .. Len(bytes)
    BY <1>2, <1>4 DEF Written, Least
  <2>2. /\ y.c = [x.c EXCEPT !.obuffer = SubSeq(bytes, n + 1, Len(bytes))]
        /\ y.out = [x.out EXCEPT !.wire = x.out.wire \o SubSeq(bytes, 1, n),
                                 !.space = IF x.out.space < n THEN 0 ELSE x.out.space - n,
                                 !.hasSpace = TRUE]
        /\ y = [c |-> y.c, out |-> y.out, finished |-> x.finished]
    BY <1>1, <1>4 DEF Write, OutputStreams
  <2> HIDE DEF y, n
  <2>3. /\ SubSeq(bytes, n + 1, Len(bytes)) \in Seq(Pieces)
        /\ SubSeq(bytes, 1, n) \in Seq(Pieces)
    BY <2>1
  <2>4. x.out.wire \o SubSeq(bytes, 1, n) \in Seq(Pieces)
    BY <1>2, <2>3
  <2>5. y.c \in Connections /\ y.c.obuffer = SubSeq(bytes, n + 1, Len(bytes))
    BY <1>1, <2>2, <2>3 DEF Connections
  <2>6. (IF x.out.space < n THEN 0 ELSE x.out.space - n) \in 0 .. StreamSpace
    BY <1>2, <2>1, SizesAssumption
  <2>7. y.out \in OutputStreams /\ y.out.wire = x.out.wire \o SubSeq(bytes, 1, n)
        /\ y.out.status = "open"
    <3>1. y.out = [x.out EXCEPT !.wire = x.out.wire \o SubSeq(bytes, 1, n),
                                !.space = IF x.out.space < n THEN 0 ELSE x.out.space - n,
                                !.hasSpace = TRUE]
      BY <2>2
    <3> QED BY <1>1, <1>4, <2>4, <2>6, <3>1 DEF OutputStreams
  <2>8. y \in Sendings /\ y.finished = x.finished
    <3>1. y = [c |-> y.c, out |-> y.out, finished |-> x.finished]
      BY <2>2
    <3>2. y.finished = x.finished
      BY <3>1
    <3> QED BY <1>1, <2>5, <2>7, <3>1, <3>2 DEF Sendings
  <2> QED BY <1>4, <2>1, <2>2, <2>5, <2>7, <2>8 DEF y
<1> QED BY <1>3, <1>4

LEMMA Joined ==
  ASSUME NEW p \in Seq(Pieces), NEW q \in Seq(Pieces)
  PROVE  /\ Len(p \o q) = Len(p) + Len(q)
         /\ \A i \in 1 .. Len(p) : (p \o q)[i] = p[i]
         /\ \A i \in Len(p) + 1 .. Len(p) + Len(q) : (p \o q)[i] = q[i - Len(p)]
  OBVIOUS

\* A write of what is next is sound, and sends what is next.
LEMMA WriteSends ==
  ASSUME NEW x \in Sendings, NEW bytes \in Seq(Pieces), SoundWith(x, bytes),
         x.c.isValid, x.c.firstResponseDone, x.out.status # "error"
  PROVE  LET y == Write(x, bytes) IN
         /\ Sound(y) /\ Sends(x, y)
         /\ y.c.isValid /\ y.c.firstResponseDone /\ Ready(y)
<1> DEFINE y == Write(x, bytes)
<1>1. /\ y \in Sendings /\ y.finished = x.finished
      /\ y.c = [x.c EXCEPT !.obuffer = y.c.obuffer]
      /\ \/ y.out.status = "error" /\ y.out.wire = x.out.wire /\ y.c.obuffer = <<>>
         \/ \E n \in 0 .. Len(bytes) :
              /\ x.out.status = "open" /\ y.out.status = "open"
              /\ y.out.wire = x.out.wire \o SubSeq(bytes, 1, n)
              /\ y.c.obuffer = SubSeq(bytes, n + 1, Len(bytes))
  BY WriteMakes
<1> HIDE DEF y
<1>2. /\ x.c \in Connections /\ x.out.wire \in Seq(Pieces) /\ x.finished \in Nat
  BY SizesAssumption DEF Sendings, OutputStreams
<1>3. /\ y.c.answered = x.c.answered /\ y.c.parsed = x.c.parsed
      /\ y.c.requests = x.c.requests /\ y.c.isValid /\ y.c.firstResponseDone
  BY <1>1, <1>2 DEF Connections
<1>4. /\ Ready(x) /\ Listed(x) /\ Underway(x, bytes)
      /\ x.c.answered \subseteq 1 .. x.c.parsed /\ x.finished <= x.c.parsed
  BY DEF SoundWith
<1>5. Ready(y) /\ Listed(y)
  BY <1>1, <1>3, <1>4 DEF Ready, Listed
<1>6. x.finished + 1 \in x.c.answered
  <2>1. x.c.requests \in Seq(RequestIds) /\ x.c.requests # <<>>
    BY <1>2, <1>4 DEF Connections, Ready
  <2>2. Head(x.c.requests) = x.finished + 1
    BY <1>4, <2>1 DEF Listed
  <2> QED BY <1>4, <2>2 DEF Ready
<1>7. CASE y.out.status = "error" /\ y.out.wire = x.out.wire /\ y.c.obuffer = <<>>
  <2>1. Sends(x, y)
    BY <1>2, <1>3, <1>7 DEF Sends
  <2>2. Sound(y)
    BY <1>1, <1>3, <1>4, <1>5, <1>7 DEF Sound, SoundWith
  <2> QED BY <1>3, <1>5, <2>1, <2>2 DEF y
<1>8. ASSUME NEW n \in 0 .. Len(bytes),
             y.out.wire = x.out.wire \o SubSeq(bytes, 1, n),
             y.c.obuffer = SubSeq(bytes, n + 1, Len(bytes))
      PROVE  Sends(x, y) /\ Sound(y)
  <2> DEFINE w == Len(x.out.wire)
  <2>1. /\ Len(y.out.wire) = w + n /\ Len(y.c.obuffer) = Len(bytes) - n
        /\ \A i \in 1 .. w : y.out.wire[i] = x.out.wire[i]
        /\ \A i \in w + 1 .. w + n : y.out.wire[i] = bytes[i - w]
        /\ \A j \in 1 .. Len(bytes) - n : y.c.obuffer[j] = bytes[n + j]
    <3>1. bytes \in Seq(Pieces) /\ Len(bytes) \in Nat /\ n \in 0 .. Len(bytes)
      BY <1>8
    <3> DEFINE first == SubSeq(bytes, 1, n)
               rest == SubSeq(bytes, n + 1, Len(bytes))
    <3>2. /\ first \in Seq(Pieces) /\ Len(first) = n
          /\ \A i \in 1 .. n : first[i] = bytes[i]
      BY <3>1
    <3>3. /\ rest \in Seq(Pieces) /\ Len(rest) = Len(bytes) - n
          /\ \A j \in 1 .. Len(bytes) - n : rest[j] = bytes[n + j]
      BY <3>1
    <3> HIDE DEF first, rest
    <3>4. y.out.wire = x.out.wire \o first /\ y.c.obuffer = rest
      BY <1>8 DEF first, rest
    <3>5. /\ Len(y.out.wire) = w + n
          /\ \A i \in 1 .. w : y.out.wire[i] = x.out.wire[i]
          /\ \A i \in w + 1 .. w + n : y.out.wire[i] = first[i - w]
      <4>1. /\ Len(x.out.wire \o first) = w + Len(first)
            /\ \A i \in 1 .. w : (x.out.wire \o first)[i] = x.out.wire[i]
            /\ \A i \in w + 1 .. w + Len(first) :
                 (x.out.wire \o first)[i] = first[i - w]
        BY <1>2, <3>2, Joined
      <4>2. Len(first) = n
        BY <3>2
      <4> QED BY <3>4, <4>1, <4>2
    <3>6. \A i \in w + 1 .. w + n : i - w \in 1 .. n
      BY <1>2, <3>1
    <3> QED BY <3>2, <3>3, <3>4, <3>5, <3>6
  <2>2. w \in Nat /\ n \in Nat /\ Len(bytes) \in Nat /\ n <= Len(bytes)
    BY <1>2
  <2>3. /\ w >= ResponseLength * x.finished
        /\ w + Len(bytes) = ResponseLength * (x.finished + 1)
        /\ InOrder(x.out.wire, bytes)
    BY <1>4 DEF Underway
  <2>4. /\ \A i \in 1 .. w : x.out.wire[i] = PieceAt(i)
        /\ \A j \in 1 .. Len(bytes) : bytes[j] = PieceAt(w + j)
    BY <2>3 DEF InOrder
  <2> HIDE DEF w
  <2>5. \A i \in w + 1 .. w + n :
          y.out.wire[i] = PieceAt(i) /\ PieceAt(i)[1] = x.finished + 1
    <3> SUFFICES ASSUME NEW i \in w + 1 .. w + n
                 PROVE  y.out.wire[i] = PieceAt(i) /\ PieceAt(i)[1] = x.finished + 1
      OBVIOUS
    <3>1. i - w \in 1 .. Len(bytes) /\ w + (i - w) = i
      BY <2>2
    <3>2. y.out.wire[i] = PieceAt(i)
      BY <2>1, <2>4, <3>1
    <3> DEFINE k == i - ResponseLength * x.finished
    <3>3. /\ ResponseLength \in Nat /\ ResponseLength * x.finished \in Nat
          /\ ResponseLength * (x.finished + 1) = ResponseLength * x.finished + ResponseLength
      BY <1>2, SizesAssumption
    <3>4. k \in 1 .. ResponseLength /\ i = ResponseLength * x.finished + k
      BY <2>2, <2>3, <3>3
    <3> HIDE DEF k
    <3>5. PieceAt(i) = <<x.finished + 1, k>>
      BY <1>2, <3>4, PieceOfResponse
    <3> QED BY <3>2, <3>5
  <2>6. Sends(x, y)
    <3>1. Len(y.out.wire) >= Len(x.out.wire)
      BY <2>1, <2>2 DEF w
    <3>2. \A i \in Len(x.out.wire) + 1 .. Len(y.out.wire) :
            y.out.wire[i] = PieceAt(i) /\ PieceAt(i)[1] \in x.c.answered
      BY <1>6, <2>1, <2>5 DEF w
    <3>3. \A i \in 1 .. Len(x.out.wire) : y.out.wire[i] = x.out.wire[i]
      BY <2>1 DEF w
    <3> QED BY <1>3, <3>1, <3>2, <3>3 DEF Sends
  <2>7. InOrder(y.out.wire, y.c.obuffer)
    <3>1. \A i \in 1 .. Len(y.out.wire) : y.out.wire[i] = PieceAt(i)
      <4> SUFFICES ASSUME NEW i \in 1 .. w + n PROVE y.out.wire[i] = PieceAt(i)
        BY <2>1
      <4>1. CASE i <= w
        <5>1. i \in 1 .. w
          BY <2>2, <4>1
        <5> QED BY <2>1, <2>4, <5>1
      <4>2. CASE i > w
        <5>1. i \in w + 1 .. w + n
          BY <2>2, <4>2
        <5> QED BY <2>5, <5>1
      <4> QED BY <2>2, <4>1, <4>2
    <3>2. \A j \in 1 .. Len(y.c.obuffer) : y.c.obuffer[j] = PieceAt(Len(y.out.wire) + j)
      <4> SUFFICES ASSUME NEW j \in 1 .. Len(bytes) - n
                   PROVE  y.c.obuffer[j] = PieceAt(w + n + j)
        BY <2>1
      <4>1. n + j \in 1 .. Len(bytes) /\ w + (n + j) = w + n + j
        BY <2>2
      <4> QED BY <2>1, <2>4, <4>1
    <3> QED BY <3>1, <3>2 DEF InOrder
  <2>8. Underway(y, y.c.obuffer)
    <3>1. ResponseLength * x.finished \in Nat
      BY <1>2, SizesAssumption
    <3>2. Len(y.out.wire) >= ResponseLength * x.finished
      BY <2>1, <2>2, <2>3, <3>1
    <3>3. Len(y.out.wire) + Len(y.c.obuffer) = ResponseLength * (x.finished + 1)
      BY <2>1, <2>2, <2>3
    <3> QED BY <1>1, <1>3, <2>7, <3>2, <3>3 DEF Underway
  <2>9. Sound(y)
    BY <1>1, <1>3, <1>4, <1>5, <2>8 DEF Sound, SoundWith
  <2> QED BY <2>6, <2>9
<1> QED BY <1>1, <1>3, <1>5, <1>7, <1>8 DEF y

\* A member of Sendings is known by its parts.
LEMMA Parts ==
  ASSUME NEW x \in Sendings
  PROVE  /\ x.c \in Connections /\ x.out \in OutputStreams
         /\ x.finished \in 0 .. MaxRequests /\ x.finished \in Nat
         /\ x = [c |-> x.c, out |-> x.out, finished |-> x.finished]
         /\ x.c.obuffer \in Seq(Pieces) /\ x.c.requests \in Seq(RequestIds)
         /\ x.c.parsed \in 0 .. MaxRequests /\ x.out.wire \in Seq(Pieces)
         /\ Len(x.out.wire) \in Nat /\ Len(x.c.requests) \in Nat
  BY SizesAssumption DEF Sendings, Connections, OutputStreams

LEMMA WithConnection ==
  ASSUME NEW x \in Sendings, NEW c
  PROVE  LET y == [x EXCEPT !.c = c] IN
         /\ y.c = c /\ y.out = x.out /\ y.finished = x.finished
         /\ y = [c |-> c, out |-> x.out, finished |-> x.finished]
  BY DEF Sendings

LEMMA DrainSends ==
  ASSUME NEW x, Sound(x), HasSpaceAvailable(x)
  PROVE  LET y == Drain(x) IN
         /\ Sound(y) /\ Sends(x, y)
         /\ y.c.isValid
         /\ y.c.firstResponseDone \/ y.out.status # "error"
<1>1. x \in Sendings /\ SoundWith(x, x.c.obuffer) /\ x.c.isValid /\ x.out.status # "error"
  BY DEF Sound, HasSpaceAvailable
<1>2. CASE x.c.obuffer = <<>>
  BY <1>1, <1>2, SendsNothing DEF Drain
<1>3. CASE x.c.obuffer # <<>>
  <2>1. x.c.firstResponseDone /\ x.c.obuffer \in Seq(Pieces)
    BY <1>1, <1>3, Parts DEF SoundWith
  <2>2. Drain(x) = Write(x, x.c.obuffer)
    BY <1>3 DEF Drain
  <2> QED BY <1>1, <2>1, <2>2, WriteSends
<1> QED BY <1>2, <1>3

LEMMA SerializeSends ==
  ASSUME NEW x, Sound(x), x.c.isValid, x.c.obuffer = <<>>, Ready(x),
         x.c.firstResponseDone \/ x.out.status # "error"
  PROVE  LET y == Serialize(x) IN
         /\ Sound(y) /\ Sends(x, y)
         /\ y.c.isValid /\ y.c.firstResponseDone /\ Ready(y)
<1>1. x \in Sendings /\ SoundWith(x, <<>>)
  BY DEF Sound
<1>2. CASE x.c.firstResponseDone
  BY <1>1, <1>2, SendsNothing DEF Serialize
<1>3. CASE ~ x.c.firstResponseDone
  <2> DEFINE r == Head(x.c.requests)
             y == [x EXCEPT !.c.firstResponseDone = TRUE]
             bytes == Response(r)
  <2>1. /\ x.c \in Connections
        /\ y.c = [x.c EXCEPT !.firstResponseDone = TRUE] /\ y.out = x.out
        /\ y = [c |-> y.c, out |-> x.out, finished |-> x.finished]
    <3> DEFINE d == [x.c EXCEPT !.firstResponseDone = TRUE]
    <3>1. y = [x EXCEPT !.c = d]
      OBVIOUS
    <3> HIDE DEF y, d
    <3>2. y.c = d /\ y.out = x.out /\ y = [c |-> d, out |-> x.out, finished |-> x.finished]
      BY <1>1, <3>1, WithConnection
    <3> QED BY <1>1, <3>2, Parts DEF d
  <2>2. /\ y.finished = x.finished /\ y.c.requests = x.c.requests
        /\ y.c.answered = x.c.answered /\ y.c.parsed = x.c.parsed
        /\ y.c.isValid /\ y.c.firstResponseDone /\ y.c \in Connections
    BY <2>1 DEF Connections
  <2>3. y \in Sendings
    BY <1>1, <2>1, <2>2, Parts DEF Sendings
  <2>4. Listed(x) /\ Underway(x, <<>>) /\ x.finished \in Nat
    <3>1. Listed(x) /\ Underway(x, <<>>)
      BY <1>1, <1>3 DEF SoundWith
    <3> QED BY <1>1, <3>1, Parts
  <2>5. r = x.finished + 1 /\ r \in RequestIds
    <3>1. x.c.requests \in Seq(RequestIds) /\ x.c.requests # <<>>
      BY <1>1, Parts DEF Ready
    <3>2. r \in RequestIds /\ r = x.c.requests[1] /\ 1 \in 1 .. Len(x.c.requests)
      BY <3>1
    <3> QED BY <2>4, <3>2 DEF Listed
  <2>6. bytes \in Seq(Pieces) /\ Len(bytes) = ResponseLength
        /\ \A j \in 1 .. Len(bytes) : bytes[j] = <<x.finished + 1, j>>
    BY <2>5, SizesAssumption DEF Response, Pieces
  <2> DEFINE w == Len(x.out.wire)
  <2>7. /\ w = ResponseLength * x.finished /\ w \in Nat
        /\ \A i \in 1 .. w : x.out.wire[i] = PieceAt(i)
    BY <1>1, <1>3, <2>4, Parts, SizesAssumption DEF Underway, InOrder
  <2> HIDE DEF y, bytes, w, r
  <2>8. \A j \in 1 .. Len(bytes) : bytes[j] = PieceAt(w + j)
    BY <2>4, <2>6, <2>7, PieceOfResponse
  <2>9. w + Len(bytes) = ResponseLength * (x.finished + 1)
    BY <2>4, <2>6, <2>7, SizesAssumption
  <2>10. InOrder(y.out.wire, bytes)
    BY <2>1, <2>7, <2>8 DEF InOrder, w
  <2>11. Underway(y, bytes)
    <3>1. w >= ResponseLength * x.finished
      BY <2>7
    <3> QED BY <2>1, <2>2, <2>9, <2>10, <3>1 DEF Underway, w
  <2>12. Listed(y) /\ Ready(y)
    BY <2>2, <2>4 DEF Listed, Ready
  <2>13. SoundWith(y, bytes)
    BY <1>1, <2>2, <2>11, <2>12 DEF SoundWith
  <2>14. y.out.status # "error"
    BY <1>3, <2>1
  <2>15. Serialize(x) = Write(y, bytes)
    BY <1>3 DEF Serialize, y, bytes, r
  <2> DEFINE z == Write(y, bytes)
  <2>16. /\ Sound(z) /\ Sends(y, z)
         /\ z.c.isValid /\ z.c.firstResponseDone /\ Ready(z)
    BY <2>2, <2>3, <2>6, <2>13, <2>14, WriteSends
  <2> HIDE DEF z
  <2>17. Sends(x, z)
    BY <2>1, <2>2, <2>16 DEF Sends
  <2> QED BY <2>15, <2>16, <2>17 DEF z
<1> QED BY <1>2, <1>3

LEMMA InvalidatedSound ==
  ASSUME NEW x, Sound(x), NEW y, y = [x EXCEPT !.c = Invalidated(@)]
  PROVE  Sound(y) /\ Sends(x, y)
<1>1. x \in Sendings /\ x.c.answered \subseteq 1 .. x.c.parsed /\ x.finished <= x.c.parsed
  BY DEF Sound, SoundWith
<1>2. /\ y.c = Invalidated(x.c) /\ y.out = x.out /\ y.finished = x.finished
      /\ y = [c |-> y.c, out |-> x.out, finished |-> x.finished]
  BY <1>1, Parts
<1>3. /\ y.c \in Connections /\ ~ y.c.isValid
      /\ y.c.answered = x.c.answered /\ y.c.parsed = x.c.parsed
  <2>1. <<>> \in Seq(Pieces) /\ <<>> \in Seq(RequestIds) /\ 0 \in Nat
    OBVIOUS
  <2> QED BY <1>1, <1>2, <2>1, Parts, ZenonT(40) DEF Invalidated, Connections
<1>4. y \in Sendings
  BY <1>1, <1>2, <1>3, Parts DEF Sendings
<1>5. Sound(y)
  BY <1>1, <1>2, <1>3, <1>4 DEF Sound, SoundWith
<1>6. Sends(x, y)
  BY <1>1, <1>2, <1>3, Parts DEF Sends
<1> QED BY <1>5, <1>6

LEMMA RemoveSends ==
  ASSUME NEW x, Sound(x), x.c.isValid, x.c.firstResponseDone, x.c.obuffer = <<>>
  PROVE  Sound(Remove(x)) /\ Sends(x, Remove(x))
<1> DEFINE y == [x EXCEPT !.c.requests = Tail(@), !.c.firstResponseDone = FALSE,
                          !.finished = @ + 1]
<1>1. /\ x \in Sendings /\ Listed(x) /\ Ready(x)
      /\ x.out.status # "error" => Underway(x, <<>>)
      /\ x.c.answered \subseteq 1 .. x.c.parsed
  BY DEF Sound, SoundWith
<1>2. /\ y.c = [x.c EXCEPT !.requests = Tail(x.c.requests), !.firstResponseDone = FALSE]
      /\ y.out = x.out /\ y.finished = x.finished + 1
      /\ y = [c |-> y.c, out |-> x.out, finished |-> x.finished + 1]
  <2> DEFINE d == [x.c EXCEPT !.requests = Tail(x.c.requests), !.firstResponseDone = FALSE]
  <2>1. y = [x EXCEPT !.c = d, !.finished = x.finished + 1]
    BY <1>1, Parts DEF Connections
  <2> HIDE DEF y, d
  <2>2. x = [c |-> x.c, out |-> x.out, finished |-> x.finished]
    BY <1>1, Parts
  <2>3. y.c = d /\ y.out = x.out /\ y.finished = x.finished + 1
    BY <2>1, <2>2
  <2>4. y = [c |-> d, out |-> x.out, finished |-> x.finished + 1]
    BY <2>1, <2>2
  <2> QED BY <2>3, <2>4 DEF d
<1>3. /\ Len(x.c.requests) >= 1 /\ Tail(x.c.requests) \in Seq(RequestIds)
      /\ Len(Tail(x.c.requests)) = Len(x.c.requests) - 1
      /\ \A i \in 1 .. Len(x.c.requests) - 1 : Tail(x.c.requests)[i] = x.c.requests[i + 1]
  BY <1>1, Parts DEF Ready
<1>4. /\ y.c.requests = Tail(x.c.requests) /\ ~ y.c.firstResponseDone
      /\ y.c.answered = x.c.answered /\ y.c.parsed = x.c.parsed
      /\ y.c.isValid /\ y.c \in Connections /\ y.c.obuffer = <<>>
      /\ y.c.firstResponseDone = FALSE
  BY <1>1, <1>2, <1>3, Parts, ZenonT(40) DEF Connections
<1> HIDE DEF y
<1>5. x.finished + 1 <= x.c.parsed /\ x.finished + 1 \in 0 .. MaxRequests
  BY <1>1, <1>3, Parts, SizesAssumption DEF Listed
<1>6. y \in Sendings
  BY <1>1, <1>2, <1>4, <1>5, Parts DEF Sendings
<1>7. Listed(y)
  <2>1. \A i \in 1 .. Len(x.c.requests) - 1 :
          i + 1 \in 1 .. Len(x.c.requests) /\ x.finished + (i + 1) = (x.finished + 1) + i
    BY <1>1, Parts
  <2> QED BY <1>1, <1>2, <1>3, <1>4, <2>1, Parts DEF Listed
<1>8. y.out.status # "error" => Underway(y, <<>>)
  <2> SUFFICES ASSUME x.out.status # "error" PROVE Underway(y, <<>>)
    BY <1>2
  <2>1. /\ Len(x.out.wire) = ResponseLength * (x.finished + 1)
        /\ InOrder(x.out.wire, <<>>)
    BY <1>1, Parts DEF Underway
  <2>2. ResponseLength * (x.finished + 1) \in Nat
    BY <1>1, Parts, SizesAssumption
  <2> QED BY <1>2, <1>4, <1>5, <2>1, <2>2 DEF Underway
<1>9. Sound(y)
  BY <1>1, <1>2, <1>4, <1>5, <1>6, <1>7, <1>8 DEF Sound, SoundWith
<1>10. Sends(x, y)
  BY <1>1, <1>2, <1>4, Parts DEF Sends
<1>11. Remove(x) \in {y, [y EXCEPT !.c = Invalidated(@)]}
  <2>1. CASE x.c.atEnd /\ y.c.requests = <<>>
    BY <2>1 DEF Remove, y
  <2>2. CASE ~ (x.c.atEnd /\ y.c.requests = <<>>)
    BY <2>2 DEF Remove, y
  <2> QED BY <2>1, <2>2
<1>12. ASSUME NEW z, z = [y EXCEPT !.c = Invalidated(@)] PROVE Sound(z) /\ Sends(x, z)
  <2>1. Sound(z) /\ Sends(y, z)
    BY <1>9, <1>12, InvalidatedSound
  <2> QED BY <1>1, <1>6, <1>10, <2>1, SendsOn DEF Sound
<1> QED BY <1>9, <1>10, <1>11, <1>12

\* processOutgoingBytes: no branch loses or repeats a piece.
LEMMA ProcessOutgoingSends ==
  ASSUME NEW x, Sound(x)
  PROVE  Sound(ProcessOutgoing(x)) /\ Sends(x, ProcessOutgoing(x))
<1> DEFINE y == Drain(x)
           z == Serialize(y)
<1>1. x \in Sendings
  BY DEF Sound
<1>2. CASE ~ HasSpaceAvailable(x)
  BY <1>1, <1>2, SendsNothing DEF ProcessOutgoing
<1>3. ASSUME HasSpaceAvailable(x)
      PROVE  /\ Sound(y) /\ Sends(x, y) /\ y \in Sendings /\ y.c.isValid
             /\ y.c.firstResponseDone \/ y.out.status # "error"
  BY <1>3, DrainSends DEF Sound
<1>4. CASE HasSpaceAvailable(x) /\ (y.c.obuffer # <<>> \/ ~ Ready(y))
  BY <1>3, <1>4 DEF ProcessOutgoing
<1>5. ASSUME HasSpaceAvailable(x), y.c.obuffer = <<>>, Ready(y)
      PROVE  /\ Sound(z) /\ Sends(x, z) /\ z \in Sendings
             /\ z.c.isValid /\ z.c.firstResponseDone
  <2> HIDE DEF y
  <2>1. /\ Sound(z) /\ Sends(y, z) /\ z.c.isValid /\ z.c.firstResponseDone
    BY <1>3, <1>5, SerializeSends
  <2> HIDE DEF z
  <2> QED BY <1>1, <1>3, <1>5, <2>1, SendsOn DEF Sound
<1>6. CASE HasSpaceAvailable(x) /\ y.c.obuffer = <<>> /\ Ready(y) /\ z.c.obuffer # <<>>
  BY <1>5, <1>6 DEF ProcessOutgoing
<1>7. CASE HasSpaceAvailable(x) /\ y.c.obuffer = <<>> /\ Ready(y) /\ z.c.obuffer = <<>>
  <2>1. ProcessOutgoing(x) = Remove(z)
    BY <1>7 DEF ProcessOutgoing
  <2> HIDE DEF y, z
  <2>2. Sound(Remove(z)) /\ Sends(z, Remove(z))
    BY <1>5, <1>7, RemoveSends
  <2>3. Sends(x, Remove(z))
    BY <1>1, <1>5, <1>7, <2>2, SendsOn DEF Sound
  <2> QED BY <2>1, <2>2, <2>3
<1> QED BY <1>2, <1>4, <1>6, <1>7
-----------------------------------------------------------------------------
(* Steps. *)

LEMMA AnsweredSound ==
  ASSUME NEW x, Sound(x), NEW r \in 1 .. x.c.parsed
  PROVE  LET y == [x EXCEPT !.c.answered = @ \cup {r}] IN
         /\ Sound(y) /\ y.out = x.out
         /\ y.c.isValid = x.c.isValid /\ y.c.parsed = x.c.parsed
         /\ y.c.answered = x.c.answered \cup {r}
<1> DEFINE d == [x.c EXCEPT !.answered = x.c.answered \cup {r}]
           y == [x EXCEPT !.c.answered = @ \cup {r}]
<1>1. x \in Sendings /\ SoundWith(x, x.c.obuffer)
  BY DEF Sound
<1>2. y = [x EXCEPT !.c = d]
  BY <1>1, Parts DEF Connections
<1>3. r \in RequestIds
  BY <1>1, Parts, SizesAssumption DEF RequestIds
<1>4. /\ d \in Connections /\ d.answered = x.c.answered \cup {r}
      /\ d.isValid = x.c.isValid /\ d.parsed = x.c.parsed /\ d.obuffer = x.c.obuffer
      /\ d.requests = x.c.requests /\ d.firstResponseDone = x.c.firstResponseDone
  BY <1>1, <1>3, Parts DEF Connections
<1> HIDE DEF y, d
<1>5. /\ y.c = d /\ y.out = x.out /\ y.finished = x.finished
      /\ y = [c |-> d, out |-> x.out, finished |-> x.finished]
  BY <1>1, <1>2, WithConnection
<1>6. y \in Sendings
  BY <1>1, <1>4, <1>5, Parts DEF Sendings
<1>7. SoundWith(y, y.c.obuffer)
  <2>1. Listed(x) => Listed(y)
    BY <1>4, <1>5 DEF Listed
  <2>2. Ready(x) => Ready(y)
    BY <1>4, <1>5 DEF Ready
  <2>3. Underway(x, x.c.obuffer) => Underway(y, y.c.obuffer)
    BY <1>4, <1>5 DEF Underway
  <2> QED BY <1>1, <1>4, <1>5, <2>1, <2>2, <2>3 DEF SoundWith
<1> QED BY <1>4, <1>5, <1>6, <1>7 DEF Sound, y

\* A step may change what the browser does not see: x.
Advances(x) ==
  /\ Sound(x)
  /\ x.out.wire = output.wire
  /\ x.c.isValid = conn.isValid
  /\ conn.answered \subseteq x.c.answered
  /\ \/ x.c.parsed = conn.parsed
     \/ conn.isValid /\ x.c.parsed = conn.parsed + 1

LEMMA BecomesSends ==
  ASSUME NEW x, Advances(x), NEW y, Sound(y), Sends(x, y),
         NEW held, NEW blocks, Becomes(y, held, blocks)
  PROVE  Sound(Sending)' /\ Sends(x, Sending')
<1>1. x \in Sendings /\ y \in Sendings
  BY DEF Sound, Advances
<1>2. Sending' = [c |-> Settled(y.c, held, blocks), out |-> y.out, finished |-> y.finished]
  BY DEF Sending, Becomes
<1>3. CASE Settled(y.c, held, blocks) = y.c
  BY <1>1, <1>2, <1>3, Parts
<1>4. CASE Settled(y.c, held, blocks) = Invalidated(y.c)
  <2>1. Sending' = [y EXCEPT !.c = Invalidated(@)]
    BY <1>1, <1>2, <1>4, Parts
  <2>2. Sound(Sending') /\ Sends(y, Sending')
    BY <2>1, InvalidatedSound
  <2> QED BY <1>1, <2>2, SendsOn DEF Sound
<1> QED BY <1>3, <1>4 DEF Settled

\* What the browser is sent is what HTTPExchange promises it.
LEMMA ExchangeAdvances ==
  ASSUME Sound(Sending), NEW x, Advances(x), Sound(Sending)', Sends(x, Sending')
  PROVE  Exchange!ExchangeStep
<1>1. /\ x \in Sendings /\ Sending \in Sendings /\ Sending' \in Sendings
      /\ x.c.answered \subseteq 1 .. x.c.parsed
  BY DEF Sound, SoundWith, Advances
<1>2. /\ Sending.c = conn /\ Sending.out = output /\ Sending'.c = conn' /\ Sending'.out = output'
  BY DEF Sending
<1>3. /\ output.wire \in Seq(Pieces) /\ output'.wire \in Seq(Pieces)
      /\ Len(output.wire) \in Nat /\ Len(output'.wire) \in Nat
  BY <1>1, <1>2, Parts
<1>4. /\ conn'.parsed = x.c.parsed /\ conn'.answered = x.c.answered
      /\ conn'.isValid => x.c.isValid
      /\ ~ x.c.isValid => output'.wire = x.out.wire
      /\ Len(output'.wire) >= Len(x.out.wire)
      /\ \A i \in 1 .. Len(x.out.wire) : output'.wire[i] = x.out.wire[i]
      /\ \A i \in Len(x.out.wire) + 1 .. Len(output'.wire) :
           output'.wire[i] = PieceAt(i) /\ PieceAt(i)[1] \in x.c.answered
  BY <1>2 DEF Sends
<1>5. SubSeq(output'.wire, 1, Len(output.wire)) = output.wire
  <2>1. Len(output'.wire) >= Len(output.wire)
        /\ \A i \in 1 .. Len(output.wire) : output'.wire[i] = output.wire[i]
    BY <1>4 DEF Advances
  <2>2. /\ SubSeq(output'.wire, 1, Len(output.wire)) \in Seq(Pieces)
        /\ Len(SubSeq(output'.wire, 1, Len(output.wire))) = Len(output.wire)
        /\ \A i \in 1 .. Len(output.wire) :
             SubSeq(output'.wire, 1, Len(output.wire))[i] = output'.wire[i]
    BY <1>3, <2>1
  <2> QED BY <1>3, <2>1, <2>2, SeqEqual
<1>6. conn'.parsed \in {conn.parsed, conn.parsed + 1}
  BY <1>4 DEF Advances
<1>7. conn.answered \subseteq conn'.answered /\ conn'.answered \subseteq 1 .. conn'.parsed
  BY <1>1, <1>4 DEF Advances
<1>8. \A i \in Len(output.wire) + 1 .. Len(output'.wire) :
        output'.wire[i] = Exchange!PieceAt(i) /\ Exchange!PieceAt(i)[1] \in conn'.answered
  BY <1>4 DEF Advances, PieceAt
<1>9. /\ conn'.isValid => conn.isValid
      /\ ~ conn.isValid => UNCHANGED <<conn.parsed, output.wire>>
  BY <1>4 DEF Advances
<1>10. Len(output'.wire) >= Len(output.wire)
  BY <1>4 DEF Advances
<1> QED BY <1>5, <1>6, <1>7, <1>8, <1>9, <1>10 DEF Exchange!ExchangeStep

LEMMA SendingAdvances ==
  ASSUME Sound(Sending) PROVE Advances(Sending)
  BY DEF Advances, Sending

\* Steps that touch neither the requests nor what is sent.
LEMMA QuietSteps ==
  ASSUME Sound(Sending), conn' \in Connections, output' \in OutputStreams,
         UNCHANGED <<conn.isValid, conn.firstResponseDone, conn.obuffer,
                     conn.requests, conn.parsed, conn.answered, finished>>,
         UNCHANGED output.wire,
         output'.status = "error" \/ output.status # "error"
  PROVE  Sound(Sending)' /\ Exchange!ExchangeStep
<1> DEFINE x == Sending
           y == Sending'
<1>1. /\ x.c = conn /\ x.out = output /\ x.finished = finished
      /\ y.c = conn' /\ y.out = output' /\ y.finished = finished'
      /\ y = [c |-> conn', out |-> output', finished |-> finished']
  BY DEF Sending
<1> HIDE DEF x, y
<1>2. x \in Sendings /\ SoundWith(x, x.c.obuffer)
  BY DEF Sound, x
<1>3. y \in Sendings
  BY <1>1, <1>2, Parts DEF Sendings
<1>4. SoundWith(y, y.c.obuffer)
  <2>1. Listed(x) => Listed(y)
    BY <1>1 DEF Listed
  <2>2. Ready(x) => Ready(y)
    BY <1>1 DEF Ready
  <2>3. Underway(x, x.c.obuffer) => Underway(y, y.c.obuffer)
    BY <1>1 DEF Underway
  <2> QED BY <1>1, <1>2, <2>1, <2>2, <2>3 DEF SoundWith
<1>5. Sound(y)
  BY <1>3, <1>4 DEF Sound
<1>6. Advances(y)
  BY <1>1, <1>5 DEF Advances
<1> QED BY <1>3, <1>5, <1>6, SendsNothing, ExchangeAdvances DEF x, y
-----------------------------------------------------------------------------
(* The invariant: what is on its way is sound, and queued requests were read. *)

Rest ==
  /\ browser \in [sent : Nat, unread : Nat, ended : BOOLEAN]
  /\ processing \in BOOLEAN
  /\ server \in BOOLEAN /\ delegate \in BOOLEAN

Queued ==
  /\ queue \in Seq(RequestIds)
  /\ \A i \in 1 .. Len(queue) : queue[i] \in 1 .. conn.parsed

Inv == Sound(Sending) /\ Rest /\ Queued

LEMMA InvInit == Init => Inv /\ Exchange!ExchangeInit
<1> SUFFICES ASSUME Init PROVE Inv /\ Exchange!ExchangeInit
  OBVIOUS
<1>1. /\ <<>> \in Seq(Pieces) /\ <<>> \in Seq(RequestIds) /\ Len(<<>>) = 0
  OBVIOUS
<1>2. conn \in Connections /\ output \in OutputStreams
  BY <1>1, SizesAssumption DEF Init, Connections, OutputStreams
<1>3. Sending \in Sendings
  BY <1>2, SizesAssumption DEF Init, Sending, Sendings
<1>4. Listed(Sending) /\ Underway(Sending, <<>>)
  BY <1>1, SizesAssumption DEF Init, Sending, Listed, Underway, InOrder
<1>5. SoundWith(Sending, conn.obuffer)
  BY <1>4 DEF Init, Sending, SoundWith
<1>6. Sound(Sending)
  BY <1>3, <1>5 DEF Sound, Sending
<1>7. Rest
  BY DEF Init, Rest
<1>8. Queued
  BY <1>1 DEF Init, Queued
<1>9. Exchange!ExchangeInit
  BY DEF Init, Exchange!ExchangeInit
<1> QED BY <1>6, <1>7, <1>8, <1>9 DEF Inv

LEMMA InvTyped ==
  ASSUME Inv
  PROVE  /\ conn \in Connections /\ output \in OutputStreams
         /\ Sending \in Sendings /\ finished \in 0 .. MaxRequests
         /\ conn.parsed \in 0 .. MaxRequests /\ conn.ibuffer \in Nat
         /\ conn.requests \in Seq(RequestIds)
<1>1. Sending \in Sendings /\ Sending.c = conn /\ Sending.out = output
      /\ Sending.finished = finished
  BY DEF Inv, Sound, Sending
<1> QED BY <1>1, Parts DEF Connections

\* Queued requests stay read.
LEMMA QueueStays ==
  ASSUME Inv, queue' \in Seq(RequestIds), conn'.parsed \in Nat,
         conn'.parsed >= conn.parsed,
         \A i \in 1 .. Len(queue') :
           \/ queue'[i] \in 1 .. conn'.parsed
           \/ \E j \in 1 .. Len(queue) : queue'[i] = queue[j]
  PROVE  Queued'
  BY InvTyped DEF Inv, Queued

LEMMA ExchangeQueue ==
  ASSUME Inv, Exchange!ExchangeStep, Sound(Sending)'
  PROVE  /\ conn'.parsed \in Nat /\ conn'.parsed >= conn.parsed
         /\ queue' = queue => Queued'
<1>1. conn'.parsed \in Nat /\ conn'.parsed >= conn.parsed
  <2>1. conn'.parsed \in {conn.parsed, conn.parsed + 1}
    BY DEF Exchange!ExchangeStep
  <2> QED BY <2>1, InvTyped, SizesAssumption
<1>2. queue' = queue => Queued'
  BY <1>1, QueueStays DEF Inv, Queued
<1> QED BY <1>1, <1>2

\* Steps that leave the connection, its stream and the queue alone.
LEMMA ElsewhereSteps ==
  ASSUME Inv, UNCHANGED <<conn, output, finished, queue>>, Rest'
  PROVE  Inv' /\ Exchange!ExchangeStep
<1>1. Sound(Sending)' /\ Exchange!ExchangeStep
  BY InvTyped, QuietSteps DEF Inv
<1> QED BY <1>1, ExchangeQueue DEF Inv

\* Steps that go on from x by processOutgoingBytes, or not at all.
LEMMA SendingSteps ==
  ASSUME Inv, NEW x, Advances(x), NEW y \in {x, ProcessOutgoing(x)},
         NEW held, NEW blocks, Becomes(y, held, blocks)
  PROVE  Sound(Sending)' /\ Exchange!ExchangeStep
<1>1. Sound(y) /\ Sends(x, y)
  BY ProcessOutgoingSends, SendsNothing DEF Advances, Sound
<1> QED BY <1>1, BecomesSends, ExchangeAdvances DEF Inv

LEMMA BrowserSendsKeeps == ASSUME Inv, BrowserSends PROVE Inv' /\ Exchange!ExchangeStep
<1>1. Rest'
  <2>1. /\ browser' = [browser EXCEPT !.sent = @ + 1, !.unread = @ + 1]
        /\ UNCHANGED <<processing, server, delegate>>
    BY DEF BrowserSends
  <2>2. browser = [sent |-> browser.sent, unread |-> browser.unread, ended |-> browser.ended]
        /\ browser.sent \in Nat /\ browser.unread \in Nat /\ browser.ended \in BOOLEAN
    BY DEF Inv, Rest
  <2>3. browser' = [sent |-> browser.sent + 1, unread |-> browser.unread + 1,
                    ended |-> browser.ended]
    BY <2>1, <2>2
  <2> QED BY <2>1, <2>2, <2>3 DEF Inv, Rest
<1> QED BY <1>1, ElsewhereSteps DEF BrowserSends

LEMMA BrowserEndsKeeps == ASSUME Inv, BrowserEnds PROVE Inv' /\ Exchange!ExchangeStep
<1>1. Rest'
  BY DEF BrowserEnds, Inv, Rest
<1> QED BY <1>1, ElsewhereSteps DEF BrowserEnds

LEMMA BrowserReadsKeeps == ASSUME Inv, BrowserReads PROVE Inv' /\ Exchange!ExchangeStep
<1>1. Rest'
  BY DEF BrowserReads, Inv, Rest
<1>2. /\ output' \in OutputStreams /\ output'.wire = output.wire
      /\ output'.status = output.status
  BY InvTyped, SizesAssumption DEF BrowserReads, OutputStreams
<1>3. Sound(Sending)' /\ Exchange!ExchangeStep
  BY <1>2, InvTyped, QuietSteps DEF BrowserReads, Inv
<1> QED BY <1>1, <1>3, ExchangeQueue DEF BrowserReads, Inv

LEMMA BrowserResetsKeeps == ASSUME Inv, BrowserResets PROVE Inv' /\ Exchange!ExchangeStep
<1>1. Rest'
  BY DEF BrowserResets, Inv, Rest
<1>2. output' \in OutputStreams /\ output'.wire = output.wire
  BY InvTyped, SizesAssumption DEF BrowserResets, OutputStreams
<1>3. Sound(Sending)' /\ Exchange!ExchangeStep
  BY <1>2, InvTyped, QuietSteps DEF BrowserResets, Inv
<1> QED BY <1>1, <1>3, ExchangeQueue DEF BrowserResets, Inv

LEMMA HasBytesAvailableKeeps ==
  ASSUME Inv, HasBytesAvailable PROVE Inv' /\ Exchange!ExchangeStep
<1>1. Rest' /\ browser.unread \in Nat
  BY DEF HasBytesAvailable, Inv, Rest
<1>2. conn.ibuffer + browser.unread \in Nat
  BY <1>1, InvTyped
<1>3. /\ conn' \in Connections
      /\ UNCHANGED <<conn.isValid, conn.firstResponseDone, conn.obuffer,
                     conn.requests, conn.parsed, conn.answered>>
  BY <1>2, InvTyped DEF HasBytesAvailable, Connections
<1>4. Sound(Sending)' /\ Exchange!ExchangeStep
  BY <1>3, InvTyped, QuietSteps DEF HasBytesAvailable, Inv
<1> QED BY <1>1, <1>4, ExchangeQueue DEF HasBytesAvailable, Inv

LEMMA InputEndsKeeps == ASSUME Inv, InputEnds PROVE Inv' /\ Exchange!ExchangeStep
<1>1. Rest'
  BY DEF InputEnds, Inv, Rest
<1>2. /\ conn' \in Connections
      /\ UNCHANGED <<conn.isValid, conn.firstResponseDone, conn.obuffer,
                     conn.requests, conn.parsed, conn.answered>>
  BY InvTyped DEF InputEnds, Connections
<1>3. Sound(Sending)' /\ Exchange!ExchangeStep
  BY <1>2, InvTyped, QuietSteps DEF InputEnds, Inv
<1> QED BY <1>1, <1>3, ExchangeQueue DEF InputEnds, Inv

LEMMA OutputErrorKeeps == ASSUME Inv, OutputError PROVE Inv' /\ Exchange!ExchangeStep
<1>1. Rest'
  BY DEF OutputError, Inv, Rest
<1>2. output' \in OutputStreams /\ output'.wire = output.wire /\ output'.status = "error"
  BY InvTyped DEF OutputError, OutputStreams
<1>3. Sound(Sending)' /\ Exchange!ExchangeStep
  BY <1>2, InvTyped, QuietSteps DEF OutputError, Inv
<1> QED BY <1>1, <1>3, ExchangeQueue DEF OutputError, Inv

LEMMA OutputEndsKeeps == ASSUME Inv, OutputEnds PROVE Inv' /\ Exchange!ExchangeStep
<1>1. Rest' /\ queue' = queue
  BY DEF OutputEnds, Inv, Rest
<1>2. Sending' = [Sending EXCEPT !.c = Invalidated(@)]
  BY DEF OutputEnds, Sending
<1>3. Advances(Sending) /\ Sound(Sending') /\ Sends(Sending, Sending')
  BY <1>2, InvalidatedSound, SendingAdvances DEF Inv
<1>4. Exchange!ExchangeStep
  BY <1>3, ExchangeAdvances DEF Inv
<1> QED BY <1>1, <1>3, <1>4, ExchangeQueue DEF Inv

\* A request is read.
LEMMA RequestRead ==
  ASSUME Inv, conn.isValid, conn.ibuffer >= RequestLength, conn.parsed < MaxRequests
  PROVE  LET r == conn.parsed + 1
             x == [Sending EXCEPT !.c.ibuffer = @ - RequestLength,
                                  !.c.requests = Append(@, r), !.c.parsed = r]
         IN  /\ r \in RequestIds /\ x.c.parsed = r
             /\ Advances(x)
<1> DEFINE r == conn.parsed + 1
           d == [conn EXCEPT !.ibuffer = conn.ibuffer - RequestLength,
                             !.requests = Append(conn.requests, r), !.parsed = r]
           x == [Sending EXCEPT !.c.ibuffer = @ - RequestLength,
                                !.c.requests = Append(@, r), !.c.parsed = r]
<1>1. /\ conn \in Connections /\ Sending \in Sendings /\ Sending.c = conn
      /\ Sending.out = output /\ Sending.finished = finished /\ finished \in Nat
      /\ conn.requests \in Seq(RequestIds) /\ Len(conn.requests) \in Nat
  BY InvTyped, SizesAssumption DEF Sending
<1>2. r \in RequestIds /\ r \in 0 .. MaxRequests /\ conn.ibuffer - RequestLength \in Nat
  BY InvTyped, SizesAssumption DEF RequestIds
<1>3. x = [Sending EXCEPT !.c = d]
  BY <1>1 DEF Sending, Connections
<1>4. /\ Append(conn.requests, r) \in Seq(RequestIds)
      /\ Len(Append(conn.requests, r)) = Len(conn.requests) + 1
      /\ \A i \in 1 .. Len(conn.requests) : Append(conn.requests, r)[i] = conn.requests[i]
      /\ Append(conn.requests, r)[Len(conn.requests) + 1] = r
  BY <1>1, <1>2
<1> HIDE DEF r
<1>5. /\ d \in Connections /\ d.answered = conn.answered /\ d.isValid = conn.isValid
      /\ d.parsed = r /\ d.obuffer = conn.obuffer /\ d.requests = Append(conn.requests, r)
      /\ d.firstResponseDone = conn.firstResponseDone
  BY <1>1, <1>2, <1>4 DEF Connections
<1> HIDE DEF x, d
<1>6. /\ x.c = d /\ x.out = output /\ x.finished = finished
      /\ x = [c |-> d, out |-> output, finished |-> finished]
  BY <1>1, <1>3, WithConnection
<1>7. x \in Sendings
  BY <1>1, <1>5, <1>6, InvTyped DEF Sendings
<1>8. /\ SoundWith(Sending, conn.obuffer)
      /\ Listed(Sending) /\ conn.answered \subseteq 1 .. conn.parsed
      /\ finished <= conn.parsed
  BY <1>1 DEF Inv, Sound, SoundWith
<1>9. Listed(x)
  <2>1. conn.parsed = finished + Len(conn.requests)
        /\ \A i \in 1 .. Len(conn.requests) : conn.requests[i] = finished + i
    BY <1>1, <1>8 DEF Listed
  <2>2. r = finished + (Len(conn.requests) + 1)
    BY <1>1, <2>1 DEF r
  <2>3. \A i \in 1 .. Len(conn.requests) + 1 : Append(conn.requests, r)[i] = finished + i
    <3> SUFFICES ASSUME NEW i \in 1 .. Len(conn.requests) + 1
                 PROVE  Append(conn.requests, r)[i] = finished + i
      OBVIOUS
    <3>1. CASE i = Len(conn.requests) + 1
      BY <1>4, <2>2, <3>1
    <3>2. CASE i # Len(conn.requests) + 1
      <4>1. i \in 1 .. Len(conn.requests)
        BY <1>1, <3>2
      <4> QED BY <1>4, <2>1, <4>1
    <3> QED BY <3>1, <3>2
  <2> QED BY <1>4, <1>5, <1>6, <2>2, <2>3 DEF Listed
<1>10. Ready(Sending) => Ready(x)
  <2>1. conn.requests # <<>> =>
          /\ Append(conn.requests, r) # <<>>
          /\ Head(Append(conn.requests, r)) = Head(conn.requests)
    BY <1>1, <1>2
  <2> QED BY <1>1, <1>5, <1>6, <2>1 DEF Ready
<1>11. Underway(Sending, conn.obuffer) => Underway(x, x.c.obuffer)
  BY <1>1, <1>5, <1>6 DEF Underway
<1>12. conn.answered \subseteq 1 .. r /\ finished <= r
  BY <1>1, <1>8, InvTyped, SizesAssumption DEF r
<1>13. SoundWith(x, x.c.obuffer)
  BY <1>1, <1>5, <1>6, <1>8, <1>9, <1>10, <1>11, <1>12 DEF SoundWith
<1>14. Advances(x)
  <2>1. x.c.parsed = conn.parsed + 1
    BY <1>5, <1>6 DEF r
  <2> QED BY <1>5, <1>6, <1>7, <1>13, <2>1 DEF Advances, Sound
<1> QED BY <1>2, <1>5, <1>6, <1>14 DEF r, x

\* A response that is set goes on as far as there is space.
LEMMA RespondSteps ==
  ASSUME Inv, NEW x, Advances(x), NEW r \in 1 .. x.c.parsed,
         NEW held, NEW blocks, Becomes(Respond(x, r), held, blocks)
  PROVE  Sound(Sending)' /\ Exchange!ExchangeStep
<1> DEFINE y == [x EXCEPT !.c.answered = @ \cup {r}]
<1>1. /\ Sound(y) /\ y.out = x.out
      /\ y.c.isValid = x.c.isValid /\ y.c.parsed = x.c.parsed
      /\ y.c.answered = x.c.answered \cup {r}
  BY AnsweredSound DEF Advances
<1>2. Respond(x, r) = ProcessOutgoing(y)
  BY DEF Respond
<1> HIDE DEF y
<1>3. Advances(y)
  BY <1>1 DEF Advances
<1> QED BY <1>2, <1>3, SendingSteps

LEMMA ProcessIncomingBytesKeeps ==
  ASSUME Inv, ProcessIncomingBytes PROVE Inv' /\ Exchange!ExchangeStep
<1> DEFINE r == conn.parsed + 1
           x == [Sending EXCEPT !.c.ibuffer = @ - RequestLength,
                                !.c.requests = Append(@, r), !.c.parsed = r]
<1>1. Rest'
  BY DEF ProcessIncomingBytes, Inv, Rest
<1>2. r \in RequestIds /\ x.c.parsed = r /\ Advances(x)
  BY RequestRead DEF ProcessIncomingBytes
<1>3. \/ queue' = Append(queue, r) /\ Becomes(x, server, queue')
      \/ Becomes(Respond(x, r), server, queue) /\ queue' = queue
  BY DEF ProcessIncomingBytes
<1> HIDE DEF x
<1>4. CASE queue' = Append(queue, r) /\ Becomes(x, server, queue')
  <2>1. Sound(Sending)' /\ Exchange!ExchangeStep
    BY <1>2, <1>4, SendingSteps
  <2>2. conn'.parsed = r
    BY <1>2, <1>4 DEF Becomes, Settled, Invalidated, Advances, Sound, Sendings, Connections
  <2>3. queue \in Seq(RequestIds) /\ r \in 1 .. r
    BY <1>2, SizesAssumption DEF Inv, Queued, RequestIds
  <2> HIDE DEF r
  <2>4. Queued'
    <3>1. /\ Append(queue, r) \in Seq(RequestIds)
          /\ \A i \in 1 .. Len(Append(queue, r)) :
               \/ Append(queue, r)[i] = r
               \/ \E j \in 1 .. Len(queue) : Append(queue, r)[i] = queue[j]
      BY <1>2, <2>3
    <3> QED BY <1>4, <2>1, <2>2, <2>3, <3>1, ExchangeQueue, QueueStays
  <2> QED BY <1>1, <2>1, <2>4 DEF Inv
<1>5. CASE Becomes(Respond(x, r), server, queue) /\ queue' = queue
  <2>1. r \in 1 .. x.c.parsed
    BY <1>2, SizesAssumption DEF RequestIds
  <2>2. Sound(Sending)' /\ Exchange!ExchangeStep
    BY <1>2, <1>5, <2>1, RespondSteps
  <2> QED BY <1>1, <1>5, <2>2, ExchangeQueue DEF Inv
<1> QED BY <1>3, <1>4, <1>5

LEMMA IncomingBytesProcessedKeeps ==
  ASSUME Inv, IncomingBytesProcessed PROVE Inv' /\ Exchange!ExchangeStep
<1>1. Rest'
  BY DEF IncomingBytesProcessed, Inv, Rest
<1> QED BY <1>1, ElsewhereSteps DEF IncomingBytesProcessed

LEMMA HasSpaceKeeps == ASSUME Inv, HasSpace PROVE Inv' /\ Exchange!ExchangeStep
<1> DEFINE d == [output EXCEPT !.hasSpace = FALSE]
           x == [Sending EXCEPT !.out.hasSpace = FALSE]
<1>1. Rest' /\ queue' = queue
  BY DEF HasSpace, Inv, Rest
<1>2. /\ d \in OutputStreams /\ d.wire = output.wire /\ d.status = output.status
  BY InvTyped DEF OutputStreams
<1>3. x = [c |-> conn, out |-> d, finished |-> finished]
  <2>1. x = [Sending EXCEPT !.out = [Sending.out EXCEPT !.hasSpace = FALSE]]
    OBVIOUS
  <2>2. Sending = [c |-> conn, out |-> output, finished |-> finished]
    BY DEF Sending
  <2> HIDE DEF x
  <2> QED BY <2>1, <2>2
<1> HIDE DEF x, d
<1>4. x \in Sendings
  BY <1>2, <1>3, InvTyped DEF Sendings
<1>5. SoundWith(x, x.c.obuffer)
  <2> DEFINE y == Sending
  <2>1. /\ y.c = x.c /\ y.finished = x.finished
        /\ y.out.wire = x.out.wire /\ y.out.status = x.out.status
    BY <1>2, <1>3 DEF Sending
  <2>2. SoundWith(y, y.c.obuffer)
    BY DEF Inv, Sound
  <2> HIDE DEF y
  <2> QED BY <2>1, <2>2 DEF SoundWith, Listed, Ready, Underway
<1>6. Advances(x)
  BY <1>2, <1>3, <1>4, <1>5 DEF Advances, Sound
<1>7. Sound(Sending)' /\ Exchange!ExchangeStep
  BY <1>6, SendingSteps DEF HasSpace, x
<1> QED BY <1>1, <1>7, ExchangeQueue DEF Inv

LEMMA DidReceiveRequestKeeps ==
  ASSUME Inv, DidReceiveRequest PROVE Inv' /\ Exchange!ExchangeStep
<1>1. Rest'
  BY DEF DidReceiveRequest, Inv, Rest
<1>2. queue # <<>> /\ queue \in Seq(RequestIds) /\ queue' = Tail(queue)
  BY DEF DidReceiveRequest, Inv, Queued
<1>3. Head(queue) \in 1 .. Sending.c.parsed
  <2>1. Head(queue) = queue[1] /\ 1 \in 1 .. Len(queue)
    BY <1>2
  <2> QED BY <2>1 DEF Inv, Queued, Sending
<1>4. Sound(Sending)' /\ Exchange!ExchangeStep
  BY <1>3, SendingAdvances, RespondSteps DEF DidReceiveRequest, Inv
<1>5. Queued'
  <2>1. /\ Tail(queue) \in Seq(RequestIds)
        /\ \A i \in 1 .. Len(Tail(queue)) :
             i + 1 \in 1 .. Len(queue) /\ Tail(queue)[i] = queue[i + 1]
    BY <1>2
  <2> QED BY <1>2, <1>4, <2>1, ExchangeQueue, QueueStays
<1> QED BY <1>1, <1>4, <1>5 DEF Inv

LEMMA ServerStopsKeeps == ASSUME Inv, ServerStops PROVE Inv' /\ Exchange!ExchangeStep
<1>1. Rest' /\ queue' = queue
  BY DEF ServerStops, Inv, Rest
<1>2. Sound(Sending)' /\ Exchange!ExchangeStep
  BY SendingAdvances, SendingSteps DEF ServerStops, Inv
<1> QED BY <1>1, <1>2, ExchangeQueue DEF Inv

LEMMA DelegateGoesKeeps == ASSUME Inv, DelegateGoes PROVE Inv' /\ Exchange!ExchangeStep
<1>1. Rest'
  BY DEF DelegateGoes, Inv, Rest
<1> QED BY <1>1, ElsewhereSteps DEF DelegateGoes

LEMMA InvNext ==
  Inv /\ [Next]_vars => Inv' /\ [Exchange!ExchangeStep]_(Exchange!exchangeVars)
<1> SUFFICES ASSUME Inv, [Next]_vars
             PROVE  Inv' /\ [Exchange!ExchangeStep]_(Exchange!exchangeVars)
  OBVIOUS
<1>1. CASE Next
  <2>1. Inv' /\ Exchange!ExchangeStep
    BY <1>1, BrowserSendsKeeps, BrowserEndsKeeps, BrowserReadsKeeps, BrowserResetsKeeps,
       HasBytesAvailableKeeps, ProcessIncomingBytesKeeps, IncomingBytesProcessedKeeps,
       HasSpaceKeeps, InputEndsKeeps, OutputEndsKeeps, OutputErrorKeeps,
       DidReceiveRequestKeeps, ServerStopsKeeps, DelegateGoesKeeps
       DEF Next, Browser, Events
  <2> QED BY <2>1
<1>2. CASE UNCHANGED vars
  <2>1. Inv'
    BY <1>2 DEF vars, Inv, Sending, Rest, Queued
  <2>2. UNCHANGED Exchange!exchangeVars
    BY <1>2 DEF vars, Exchange!exchangeVars
  <2> QED BY <2>1, <2>2
<1> QED BY <1>1, <1>2

LEMMA InvHolds == Spec => []Inv
<1>1. Init => Inv
  BY InvInit
<1>2. Inv /\ [Next]_vars => Inv'
  BY InvNext
<1> QED BY <1>1, <1>2, PTL DEF Spec
-----------------------------------------------------------------------------
(* What holds for any numbers of requests and pieces. *)

\* Every reachable state is well-typed: TypeOK.
THEOREM TypeCorrect == Spec => []TypeOK
<1>1. Inv => TypeOK
  BY InvTyped DEF Inv, Rest, Queued, TypeOK
<1> QED BY <1>1, InvHolds, PTL

\* No partial write loses, repeats or cuts a response: ResponsesWhole, because
\* what was written and what is buffered are a sound sending.
THEOREM ResponsesAreWhole == Spec => []ResponsesWhole
<1>1. Inv => ResponsesWhole
  <2> SUFFICES ASSUME Inv, output.status # "error", conn.isValid
               PROVE  Len(output.wire) + Len(conn.obuffer)
                        = ResponseLength * (finished + IF conn.firstResponseDone THEN 1 ELSE 0)
    BY DEF ResponsesWhole
  <2> DEFINE x == Sending
  <2>1. x.c = conn /\ x.out = output /\ x.finished = finished
    BY DEF Sending
  <2>2. SoundWith(x, x.c.obuffer)
    BY DEF Inv, Sound
  <2> HIDE DEF x
  <2>3. Underway(x, x.c.obuffer)
    BY <2>1, <2>2 DEF SoundWith
  <2> QED BY <2>1, <2>3 DEF Underway
<1> QED BY <1>1, InvHolds, PTL

\* The connection keeps what HTTPExchange promises the browser: initial states
\* are initial there, and every step is a step of the exchange or none.
THEOREM ExchangeIsKept == Spec => ExchangeKept
<1>1. Init => Exchange!ExchangeInit
  BY InvInit
<1>2. Inv /\ [Next]_vars => [Exchange!ExchangeStep]_(Exchange!exchangeVars)
  BY InvNext
<1> QED BY <1>1, <1>2, InvHolds, PTL DEF Spec, ExchangeKept, Exchange!ExchangeSpec
-----------------------------------------------------------------------------
(* Nothing is left lying: what can be sent has an event that sends it. *)

\* An event of free space is yet to come if something waits to be sent, or if the
\* stream is full.  A response that is being sent is not all sent.
Roused(x) ==
  x.c.isValid /\ x.out.status = "open" =>
    /\ x.c.firstResponseDone => x.c.obuffer # <<>>
    /\ x.c.obuffer # <<>> \/ x.out.space = 0 \/ Ready(x) => x.out.hasSpace

\* Enough for processOutgoingBytes to rouse it: space to write, or the event.
Rousing(x) ==
  x.c.isValid /\ x.out.status = "open" =>
    /\ x.c.firstResponseDone => x.c.obuffer # <<>>
    /\ x.out.space > 0 \/ x.out.hasSpace

LEMMA WriteRouses ==
  ASSUME NEW x \in Sendings, NEW bytes, Write(x, bytes).out.status = "open"
  PROVE  x.out.status = "open" /\ Write(x, bytes).out.hasSpace
<1>1. x.out \in OutputStreams /\ x = [c |-> x.c, out |-> x.out, finished |-> x.finished]
  BY Parts
<1>2. x.out.status = "open"
  <2>1. CASE x.out.status # "open"
    BY <1>1, <2>1 DEF Write, OutputStreams
  <2> QED BY <2>1
<1>3. Write(x, bytes).out.hasSpace
  BY <1>1, <1>2 DEF Write, OutputStreams
<1> QED BY <1>2, <1>3

LEMMA DrainRouses ==
  ASSUME NEW x \in Sendings, Drain(x).out.status = "open"
  PROVE  /\ x.out.status = "open"
         /\ Drain(x).out.hasSpace \/ (Drain(x) = x /\ x.c.obuffer = <<>>)
<1>1. CASE x.c.obuffer = <<>>
  BY <1>1 DEF Drain
<1>2. CASE x.c.obuffer # <<>>
  <2>1. Drain(x) = Write(x, x.c.obuffer)
    BY <1>2 DEF Drain
  <2>2. Write(x, x.c.obuffer).out.status = "open"
    BY <2>1
  <2>3. x.out.status = "open" /\ Write(x, x.c.obuffer).out.hasSpace
    BY <2>2, WriteRouses
  <2> QED BY <2>1, <2>3
<1> QED BY <1>1, <1>2

LEMMA SerializeRouses ==
  ASSUME NEW x \in Sendings, Serialize(x).out.status = "open"
  PROVE  /\ x.out.status = "open"
         /\ Serialize(x).out.hasSpace \/ (Serialize(x) = x /\ x.c.firstResponseDone)
<1> DEFINE y == [x EXCEPT !.c.firstResponseDone = TRUE]
<1>1. CASE x.c.firstResponseDone
  BY <1>1 DEF Serialize
<1>2. CASE ~ x.c.firstResponseDone
  <2>1. y \in Sendings /\ y.out = x.out
    BY DEF Sendings, Connections
  <2>2. Serialize(x) = Write(y, Response(Head(x.c.requests)))
    BY <1>2 DEF Serialize
  <2> DEFINE w == Write(y, Response(Head(x.c.requests)))
  <2> HIDE DEF y
  <2>3. w.out.status = "open"
    BY <2>2
  <2>4. y.out.status = "open" /\ w.out.hasSpace
    BY <2>1, <2>3, WriteRouses
  <2> HIDE DEF w
  <2> QED BY <2>1, <2>2, <2>4 DEF w
<1> QED BY <1>1, <1>2

LEMMA RemoveRouses ==
  ASSUME NEW x \in Sendings, Remove(x).c.isValid, Remove(x).out.status = "open",
         x.out.status = "open" => x.out.hasSpace
  PROVE  Roused(Remove(x))
<1> DEFINE y == [x EXCEPT !.c.requests = Tail(@), !.c.firstResponseDone = FALSE,
                          !.finished = @ + 1]
<1>1. y.out = x.out /\ y.c.firstResponseDone = FALSE
  BY DEF Sendings, Connections
<1>2. Remove(x) = y \/ Remove(x) = [y EXCEPT !.c = Invalidated(@)]
  BY DEF Remove
<1>3. [y EXCEPT !.c = Invalidated(@)].c = Invalidated(y.c)
  BY DEF Sendings
<1>4. ~ Invalidated(y.c).isValid
  <2>1. y.c = [x.c EXCEPT !.requests = Tail(x.c.requests), !.firstResponseDone = FALSE]
    BY DEF Sendings, Connections
  <2> QED BY <2>1, Parts DEF Invalidated, Connections
<1> HIDE DEF y
<1>5. Remove(x) = y
  BY <1>2, <1>3, <1>4
<1> QED BY <1>1, <1>5 DEF Roused

\* What processOutgoingBytes leaves has been roused: each write asks for the event,
\* and it ends without one only if it had space and found nothing to send.
LEMMA ProcessOutgoingRouses ==
  ASSUME NEW x, Sound(x), Rousing(x)
  PROVE  Roused(ProcessOutgoing(x))
<1> DEFINE y == Drain(x)
           z == Serialize(y)
<1>1. x \in Sendings /\ x.out.space \in Nat
  BY SizesAssumption DEF Sound, Sendings, OutputStreams
<1>2. CASE ~ HasSpaceAvailable(x)
  BY <1>1, <1>2 DEF ProcessOutgoing, HasSpaceAvailable, Roused, Rousing
<1>3. ASSUME HasSpaceAvailable(x)
      PROVE  /\ Sound(y) /\ y \in Sendings /\ y.c.isValid
             /\ y.c.firstResponseDone \/ y.out.status # "error"
             /\ y.out.status = "open" =>
                  /\ x.out.status = "open" /\ x.out.space > 0
                  /\ \/ y.out.hasSpace
                     \/ y = x /\ x.c.obuffer = <<>> /\ ~ x.c.firstResponseDone
  <2>1. Sound(y) /\ y.c.isValid /\ (y.c.firstResponseDone \/ y.out.status # "error")
    BY <1>3, DrainSends
  <2>2. y.out.status = "open" =>
          x.out.status = "open" /\ (y.out.hasSpace \/ (y = x /\ x.c.obuffer = <<>>))
    BY <1>1, DrainRouses
  <2> HIDE DEF y
  <2> QED BY <1>3, <2>1, <2>2 DEF Sound, HasSpaceAvailable, Rousing
<1>4. CASE HasSpaceAvailable(x) /\ (y.c.obuffer # <<>> \/ ~ Ready(y))
  <2>1. ProcessOutgoing(x) = y
    BY <1>4 DEF ProcessOutgoing
  <2>2. y.c.firstResponseDone => Ready(y)
    BY <1>3, <1>4 DEF Sound, SoundWith
  <2> HIDE DEF y
  <2>3. CASE y.out.status = "open"
    BY <1>1, <1>3, <1>4, <2>1, <2>2, <2>3 DEF Roused
  <2> QED BY <2>1, <2>3 DEF Roused
<1>5. ASSUME HasSpaceAvailable(x), y.c.obuffer = <<>>, Ready(y)
      PROVE  /\ Sound(z) /\ z \in Sendings
             /\ z.out.status = "open" => z.out.hasSpace
  <2> HIDE DEF y
  <2>1. Sound(z)
    BY <1>3, <1>5, SerializeSends
  <2>2. z.out.status = "open" =>
          y.out.status = "open" /\ (z.out.hasSpace \/ (z = y /\ y.c.firstResponseDone))
    BY <1>3, <1>5, SerializeRouses
  <2> HIDE DEF z
  <2> QED BY <1>3, <1>5, <2>1, <2>2 DEF Sound
<1>6. CASE HasSpaceAvailable(x) /\ y.c.obuffer = <<>> /\ Ready(y) /\ z.c.obuffer # <<>>
  <2>1. ProcessOutgoing(x) = z
    BY <1>6 DEF ProcessOutgoing
  <2> HIDE DEF y, z
  <2> QED BY <1>5, <1>6, <2>1 DEF Roused
<1>7. CASE HasSpaceAvailable(x) /\ y.c.obuffer = <<>> /\ Ready(y) /\ z.c.obuffer = <<>>
  <2>1. ProcessOutgoing(x) = Remove(z)
    BY <1>7 DEF ProcessOutgoing
  <2> HIDE DEF y, z
  <2>2. CASE Remove(z).c.isValid /\ Remove(z).out.status = "open"
    BY <1>5, <1>7, <2>1, <2>2, RemoveRouses
  <2> QED BY <2>1, <2>2 DEF Roused
<1> QED BY <1>2, <1>4, <1>6, <1>7

\* A request that was read is answered, or waits in the main queue to be.
SeenTo ==
  \A r \in 1 .. conn.parsed : r \in conn.answered \/ \E i \in 1 .. Len(queue) : queue[i] = r

\* A connection of a server that was stopped has a request to hold it.
Held == ~ server /\ conn.isValid => conn.requests # <<>> \/ queue # <<>>

AliveInv == Roused(Sending) /\ SeenTo /\ Held

LEMMA BecomesRouses ==
  ASSUME NEW x \in Sendings, Roused(x), NEW held, NEW blocks, Becomes(x, held, blocks)
  PROVE  /\ Roused(Sending)'
         /\ conn'.parsed = x.c.parsed /\ conn'.answered = x.c.answered
         /\ conn'.isValid => held \/ conn'.requests # <<>> \/ blocks # <<>>
<1>1. /\ conn' = Settled(x.c, held, blocks) /\ output' = x.out /\ finished' = x.finished
      /\ x.c \in Connections
  BY Parts DEF Becomes
<1>2. CASE conn' = x.c /\ (held \/ x.c.requests # <<>> \/ blocks # <<>>)
  BY <1>1, <1>2 DEF Roused, Sending, Ready
<1>3. CASE conn' = Invalidated(x.c)
  BY <1>1, <1>3 DEF Roused, Sending, Invalidated, Connections
<1> QED BY <1>1, <1>2, <1>3 DEF Settled

\* Steps that leave requests and queue alone, and do not take an event away.
LEMMA AliveElsewhere ==
  ASSUME Inv, AliveInv,
         UNCHANGED <<conn.firstResponseDone, conn.obuffer, conn.requests, conn.parsed,
                     conn.answered, queue, server>>,
         conn'.isValid => conn.isValid,
         output'.status = "open" =>
           output.status = "open" /\ output'.hasSpace = output.hasSpace,
         output'.space = 0 => output.space = 0
  PROVE  AliveInv'
  BY DEF AliveInv, Roused, SeenTo, Held, Ready, Sending

\* A response that is set rouses the connection.
LEMMA RespondRouses ==
  ASSUME NEW x, Sound(x), Roused(x), NEW r \in 1 .. x.c.parsed
  PROVE  LET p == Respond(x, r) IN
         /\ p \in Sendings /\ Roused(p)
         /\ p.c.parsed = x.c.parsed /\ p.c.answered = x.c.answered \cup {r}
<1> DEFINE y == [x EXCEPT !.c.answered = @ \cup {r}]
<1>1. x \in Sendings /\ x.out.space \in Nat
  BY SizesAssumption DEF Sound, Sendings, OutputStreams
<1>2. /\ Sound(y) /\ y.out = x.out
      /\ y.c.isValid = x.c.isValid /\ y.c.parsed = x.c.parsed
      /\ y.c.answered = x.c.answered \cup {r}
  BY AnsweredSound
<1>3. y.c.firstResponseDone = x.c.firstResponseDone /\ y.c.obuffer = x.c.obuffer
  BY <1>1 DEF Sendings, Connections
<1> HIDE DEF y
<1>4. Rousing(y)
  BY <1>1, <1>2, <1>3 DEF Rousing, Roused
<1>5. /\ Roused(ProcessOutgoing(y)) /\ Sound(ProcessOutgoing(y))
      /\ Sends(y, ProcessOutgoing(y))
  BY <1>2, <1>4, ProcessOutgoingRouses, ProcessOutgoingSends
<1>6. Respond(x, r) = ProcessOutgoing(y)
  BY DEF Respond, y
<1> QED BY <1>2, <1>5, <1>6 DEF Sound, Sends

LEMMA HasSpaceKeepsAlive == ASSUME Inv, AliveInv, HasSpace PROVE AliveInv'
<1> DEFINE d == [output EXCEPT !.hasSpace = FALSE]
           x == [Sending EXCEPT !.out.hasSpace = FALSE]
<1>1. /\ output.space > 0 /\ Becomes(ProcessOutgoing(x), server, queue)
      /\ UNCHANGED <<queue, server>>
  BY DEF HasSpace
<1>2. /\ d \in OutputStreams /\ d.status = output.status /\ d.space = output.space
      /\ d.wire = output.wire
  BY InvTyped DEF OutputStreams
<1>3. x = [c |-> conn, out |-> d, finished |-> finished]
  <2>1. x = [Sending EXCEPT !.out = [Sending.out EXCEPT !.hasSpace = FALSE]]
    OBVIOUS
  <2>2. Sending = [c |-> conn, out |-> output, finished |-> finished]
    BY DEF Sending
  <2> HIDE DEF x
  <2> QED BY <2>1, <2>2
<1> HIDE DEF x, d
<1>4. Sound(x)
  <2>1. x \in Sendings
    BY <1>2, <1>3, InvTyped DEF Sendings
  <2> DEFINE y == Sending
  <2>2. /\ y.c = x.c /\ y.finished = x.finished
        /\ y.out.wire = x.out.wire /\ y.out.status = x.out.status
    BY <1>2, <1>3 DEF Sending
  <2>3. SoundWith(y, y.c.obuffer)
    BY DEF Inv, Sound
  <2> HIDE DEF y
  <2>4. SoundWith(x, x.c.obuffer)
    BY <2>2, <2>3 DEF SoundWith, Listed, Ready, Underway
  <2> QED BY <2>1, <2>4 DEF Sound
<1>5. Rousing(x)
  BY <1>1, <1>2, <1>3 DEF AliveInv, Roused, Rousing, Sending
<1>6. /\ Roused(ProcessOutgoing(x)) /\ Sound(ProcessOutgoing(x))
      /\ Sends(x, ProcessOutgoing(x))
  BY <1>4, <1>5, ProcessOutgoingRouses, ProcessOutgoingSends
<1>7. /\ Roused(Sending)' /\ conn'.parsed = conn.parsed /\ conn'.answered = conn.answered
      /\ conn'.isValid => server \/ conn'.requests # <<>> \/ queue # <<>>
  BY <1>1, <1>3, <1>6, BecomesRouses DEF Sound, Sends
<1> QED BY <1>1, <1>7 DEF AliveInv, SeenTo, Held

\* A request that was read is not the first answered one.
LEMMA ProcessIncomingBytesKeepsAlive ==
  ASSUME Inv, AliveInv, ProcessIncomingBytes PROVE AliveInv'
<1> DEFINE r == conn.parsed + 1
           x == [Sending EXCEPT !.c.ibuffer = @ - RequestLength,
                                !.c.requests = Append(@, r), !.c.parsed = r]
<1>1. r \in RequestIds /\ x.c.parsed = r /\ Advances(x)
  BY RequestRead DEF ProcessIncomingBytes
<1>2. \/ queue' = Append(queue, r) /\ Becomes(x, server, queue')
      \/ Becomes(Respond(x, r), server, queue) /\ queue' = queue
  BY DEF ProcessIncomingBytes
<1>3. server' = server /\ queue \in Seq(RequestIds)
  BY DEF ProcessIncomingBytes, Inv, Queued
<1>4. /\ conn \in Connections /\ output \in OutputStreams /\ conn.parsed \in Nat
      /\ conn.requests \in Seq(RequestIds) /\ conn.answered \subseteq 1 .. conn.parsed
  BY InvTyped, SizesAssumption DEF Inv, Sound, SoundWith, Sending
<1>5. /\ x.out = output /\ x.c.isValid = conn.isValid /\ x.c.answered = conn.answered
      /\ x.c.firstResponseDone = conn.firstResponseDone /\ x.c.obuffer = conn.obuffer
      /\ x.c.requests = Append(conn.requests, r)
  BY <1>4 DEF Sending, Connections
<1>6. Ready(x) => Ready(Sending)
  <2>1. Sending.c = conn /\ r \notin conn.answered
    BY <1>4 DEF Sending
  <2> HIDE DEF x
  <2>2. CASE conn.requests = <<>>
    <3>1. Head(Append(conn.requests, r)) = r
      BY <1>4, <2>2
    <3> QED BY <1>5, <2>1, <3>1 DEF Ready
  <2>3. CASE conn.requests # <<>>
    <3>1. Head(Append(conn.requests, r)) = Head(conn.requests)
      BY <1>1, <1>4, <2>3
    <3> QED BY <1>5, <2>1, <2>3, <3>1 DEF Ready
  <2> QED BY <2>2, <2>3
<1> HIDE DEF x
<1>7. x \in Sendings /\ Sound(x)
  BY <1>1 DEF Advances, Sound
<1>8. Roused(x)
  BY <1>5, <1>6 DEF AliveInv, Roused, Sending
<1>9. \A q \in 1 .. r : q = r \/ q \in 1 .. conn.parsed
  BY <1>4
<1>10. CASE queue' = Append(queue, r) /\ Becomes(x, server, queue')
  <2>1. /\ Roused(Sending)' /\ conn'.parsed = r /\ conn'.answered = conn.answered
        /\ conn'.isValid => server \/ conn'.requests # <<>> \/ queue' # <<>>
    BY <1>1, <1>5, <1>7, <1>8, <1>10, BecomesRouses
  <2>2. /\ Len(queue') = Len(queue) + 1 /\ queue'[Len(queue) + 1] = r
        /\ \A i \in 1 .. Len(queue) : queue'[i] = queue[i]
        /\ Len(queue) \in Nat
    BY <1>1, <1>3, <1>10
  <2>3. 1 .. Len(queue) \subseteq 1 .. Len(queue') /\ Len(queue) + 1 \in 1 .. Len(queue')
    BY <2>2
  <2> HIDE DEF r
  <2>4. SeenTo'
    BY <1>9, <2>1, <2>2, <2>3 DEF AliveInv, SeenTo
  <2> QED BY <1>3, <2>1, <2>4 DEF AliveInv, Held
<1>11. CASE Becomes(Respond(x, r), server, queue) /\ queue' = queue
  <2>1. r \in 1 .. x.c.parsed
    BY <1>1 DEF RequestIds
  <2> HIDE DEF r
  <2>2. /\ Respond(x, r) \in Sendings /\ Roused(Respond(x, r))
        /\ Respond(x, r).c.parsed = r
        /\ Respond(x, r).c.answered = conn.answered \cup {r}
    BY <1>1, <1>5, <1>7, <1>8, <2>1, RespondRouses
  <2>3. /\ Roused(Sending)' /\ conn'.parsed = r /\ conn'.answered = conn.answered \cup {r}
        /\ conn'.isValid => server \/ conn'.requests # <<>> \/ queue # <<>>
    BY <1>11, <2>2, BecomesRouses
  <2>4. SeenTo'
    BY <1>9, <1>11, <2>3 DEF AliveInv, SeenTo
  <2> QED BY <1>3, <1>11, <2>3, <2>4 DEF AliveInv, Held
<1> QED BY <1>2, <1>10, <1>11

LEMMA DidReceiveRequestKeepsAlive ==
  ASSUME Inv, AliveInv, DidReceiveRequest PROVE AliveInv'
<1> DEFINE r == Head(queue)
           p == Respond(Sending, r)
<1>1. /\ queue # <<>> /\ queue \in Seq(RequestIds) /\ queue' = Tail(queue)
      /\ Becomes(p, server', queue')
  BY DEF DidReceiveRequest, Inv, Queued
<1>2. /\ r = queue[1] /\ Len(queue') = Len(queue) - 1 /\ Len(queue) \in Nat
      /\ \A i \in 1 .. Len(queue) : i = 1 \/ i - 1 \in 1 .. Len(queue')
      /\ \A i \in 1 .. Len(queue') : queue'[i] = queue[i + 1]
  BY <1>1
<1>3. r \in 1 .. Sending.c.parsed
  <2>1. 1 \in 1 .. Len(queue)
    BY <1>1
  <2> QED BY <1>2, <2>1 DEF Inv, Queued, Sending
<1>4. /\ p \in Sendings /\ Roused(p)
      /\ p.c.parsed = conn.parsed /\ p.c.answered = conn.answered \cup {r}
  BY <1>3, RespondRouses DEF Inv, AliveInv, Sending
<1> HIDE DEF p
<1>5. /\ Roused(Sending)' /\ conn'.parsed = p.c.parsed /\ conn'.answered = p.c.answered
      /\ conn'.isValid => server' \/ conn'.requests # <<>> \/ queue' # <<>>
  <2>1. PICK held, blocks : held = server' /\ blocks = queue'
    OBVIOUS
  <2>2. Becomes(p, held, blocks)
    BY <1>1, <2>1
  <2>3. /\ Roused(Sending)' /\ conn'.parsed = p.c.parsed /\ conn'.answered = p.c.answered
        /\ conn'.isValid => held \/ conn'.requests # <<>> \/ blocks # <<>>
    BY <1>4, <2>2, BecomesRouses
  <2> QED BY <2>1, <2>3
<1>6. SeenTo'
  <2> SUFFICES ASSUME NEW q \in 1 .. conn.parsed, q \notin conn.answered, q # r
               PROVE  \E i \in 1 .. Len(queue') : queue'[i] = q
    BY <1>4, <1>5 DEF SeenTo
  <2>1. PICK i \in 1 .. Len(queue) : queue[i] = q
    BY DEF AliveInv, SeenTo
  <2>2. i - 1 \in 1 .. Len(queue') /\ (i - 1) + 1 = i
    BY <1>2, <2>1
  <2> QED BY <1>2, <2>1, <2>2
<1> QED BY <1>5, <1>6 DEF AliveInv, Held

LEMMA ServerStopsKeepsAlive == ASSUME Inv, AliveInv, ServerStops PROVE AliveInv'
<1>1. Becomes(Sending, FALSE, queue) /\ server' = FALSE /\ queue' = queue
  BY DEF ServerStops
<1>2. Sending \in Sendings /\ Roused(Sending) /\ Sending.c = conn
  BY InvTyped DEF AliveInv, Sending
<1>3. /\ Roused(Sending)' /\ conn'.parsed = conn.parsed /\ conn'.answered = conn.answered
      /\ conn'.isValid => conn'.requests # <<>> \/ queue # <<>>
  BY <1>1, <1>2, BecomesRouses
<1> QED BY <1>1, <1>3 DEF AliveInv, SeenTo, Held

\* The end of the output: an invalid connection has nothing to send.
LEMMA OutputEndsKeepsAlive == ASSUME Inv, AliveInv, OutputEnds PROVE AliveInv'
<1>1. ~ conn'.isValid /\ conn'.parsed = conn.parsed /\ conn'.answered = conn.answered
  BY InvTyped DEF OutputEnds, Invalidated, Connections
<1>2. queue' = queue
  BY DEF OutputEnds
<1> QED BY <1>1, <1>2 DEF AliveInv, Roused, SeenTo, Held, Sending

LEMMA AliveInit == Init => AliveInv
<1> SUFFICES ASSUME Init PROVE AliveInv
  OBVIOUS
<1>1. conn.parsed = 0 /\ server /\ ~ conn.firstResponseDone /\ output.hasSpace
  BY DEF Init
<1> QED BY <1>1 DEF AliveInv, Roused, SeenTo, Held, Sending

LEMMA AliveNext == Inv /\ AliveInv /\ [Next]_vars => AliveInv'
<1> SUFFICES ASSUME Inv, AliveInv, [Next]_vars PROVE AliveInv'
  OBVIOUS
<1>1. /\ conn \in Connections /\ output \in OutputStreams /\ output.space \in Nat
  BY InvTyped, SizesAssumption DEF OutputStreams
<1>2. CASE HasBytesAvailable \/ InputEnds
  <2>1. /\ UNCHANGED <<conn.firstResponseDone, conn.obuffer, conn.requests, conn.parsed,
                       conn.answered, conn.isValid, output, queue, server>>
    BY <1>1, <1>2 DEF HasBytesAvailable, InputEnds, Connections
  <2> QED BY <2>1, AliveElsewhere
<1>3. CASE BrowserReads \/ BrowserResets \/ OutputError
  <2>1. /\ UNCHANGED <<conn, queue, server>>
        /\ output'.status = "open" =>
             output.status = "open" /\ output'.hasSpace = output.hasSpace
        /\ output'.space = 0 => output.space = 0
    BY <1>1, <1>3 DEF BrowserReads, BrowserResets, OutputError, OutputStreams
  <2> QED BY <2>1, AliveElsewhere
<1>4. CASE BrowserSends \/ BrowserEnds \/ IncomingBytesProcessed \/ DelegateGoes
           \/ UNCHANGED vars
  <2>1. UNCHANGED <<conn, output, queue, server>>
    BY <1>4 DEF BrowserSends, BrowserEnds, IncomingBytesProcessed, DelegateGoes, vars
  <2> QED BY <2>1, AliveElsewhere
<1> QED BY <1>2, <1>3, <1>4, HasSpaceKeepsAlive, ProcessIncomingBytesKeepsAlive,
           DidReceiveRequestKeepsAlive, ServerStopsKeepsAlive, OutputEndsKeepsAlive
        DEF Next, Browser, Events

\* What the requests of the connection wait for is always under way: bytes to send
\* and the response of the first request have their event of free space, a request
\* without a response its block, and a connection that the stopped server no longer
\* holds has one of the two.  This is the safety half of AnswersArrive and
\* ReleasedCloses; the other is that events and blocks are delivered.
NothingIsLeftLying ==
  conn.isValid /\ output.status = "open" =>
    /\ conn.obuffer # <<>> \/ Ready(Sending) => output.hasSpace
    /\ conn.requests # <<>> => output.hasSpace \/ queue # <<>>
    /\ server \/ output.hasSpace \/ queue # <<>>

\* No wakeup is lost: processOutgoingBytes ends without having asked for an event
\* only if there is nothing it could send (OIDLoopbackHTTPServer.m:194-281).
THEOREM EventsAreAsked == Spec => []NothingIsLeftLying
<1>1. Inv /\ AliveInv => NothingIsLeftLying
  <2> SUFFICES ASSUME Inv, AliveInv, conn.isValid, output.status = "open"
               PROVE  /\ conn.obuffer # <<>> \/ Ready(Sending) => output.hasSpace
                      /\ conn.requests # <<>> => output.hasSpace \/ queue # <<>>
                      /\ server \/ output.hasSpace \/ queue # <<>>
    BY DEF NothingIsLeftLying
  <2>1. Sending.c = conn /\ Sending.out = output /\ Sending.finished = finished
    BY DEF Sending
  <2>2. conn.obuffer # <<>> \/ Ready(Sending) => output.hasSpace
    BY <2>1 DEF AliveInv, Roused
  <2>3. ASSUME conn.requests # <<>>, queue = <<>> PROVE Ready(Sending)
    <3>1. /\ conn.requests \in Seq(RequestIds) /\ Len(conn.requests) \in Nat \ {0}
          /\ Head(conn.requests) = conn.requests[1] /\ finished \in Nat
      BY <2>3, InvTyped, SizesAssumption
    <3>2. Listed(Sending)
      BY <2>1 DEF Inv, Sound, SoundWith
    <3>3. Head(conn.requests) \in 1 .. conn.parsed
      BY <2>1, <3>1, <3>2 DEF Listed
    <3>4. Len(queue) = 0
      BY <2>3
    <3>5. Head(conn.requests) \in conn.answered
      BY <3>3, <3>4 DEF AliveInv, SeenTo
    <3> QED BY <2>1, <2>3, <3>5 DEF Ready
  <2>4. server \/ conn.requests # <<>> \/ queue # <<>>
    BY DEF AliveInv, Held
  <2> QED BY <2>2, <2>3, <2>4
<1>2. Spec => []AliveInv
  BY AliveInit, AliveNext, InvHolds, PTL DEF Spec
<1> QED BY <1>1, <1>2, InvHolds, PTL
=============================================================================
