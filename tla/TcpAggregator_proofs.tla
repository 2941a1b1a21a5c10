------------------------ MODULE TcpAggregator_proofs ------------------------
(***************************************************************************)
(* Proofs about TcpAggregator, for any number of clients and batches, any  *)
(* sizes of batches and networks of any capacity: frames stay whole, the   *)
(* client's sizes are what is in flight, and the promise of the trait      *)
(* holds across the network.                                               *)
(*                                                                         *)
(* The argument: an end that reads, writes or is interrupted moves units   *)
(* from one buffer to the next and changes nothing of what is on its way;  *)
(* a send adds a frame behind it, and a receive takes the first one off.   *)
(* So a batch and the proofs it counts are in one place at a time, whatever *)
(* the network does.  An end that goes cuts the tail off, and after that   *)
(* nobody sends on this stream.                                            *)
(***************************************************************************)
EXTENDS TcpAggregator, SequenceLemmas

-----------------------------------------------------------------------------
(* Frames, the same on both streams. *)

Frame(t) == [i \in 1..(2 + Payload(t)) |-> <<t, i>>]

Follows(unit, next) ==
  IF unit[2] = Len(Frame(unit[1])) THEN next[2] = 1
                                   ELSE next = <<unit[1], unit[2] + 1>>

Framed(units) ==
  /\ units # <<>> => units[1][2] = 1
  /\ \A i \in 1..(Len(units) - 1) : Follows(units[i], units[i + 1])

Ends(units) ==
  units # <<>> => units[Len(units)][2] = Len(Frame(units[Len(units)][1]))

LEMMA SameFrames ==
  /\ \A t : Requests!Frame(t) = Frame(t) /\ Responses!Frame(t) = Frame(t)
  /\ \A units : (Requests!Framed(units) <=> Framed(units)) /\ (Requests!Ends(units) <=> Ends(units))
  /\ \A units : (Responses!Framed(units) <=> Framed(units)) /\ (Responses!Ends(units) <=> Ends(units))
<1>1. \A t : Requests!Frame(t) = Frame(t) /\ Responses!Frame(t) = Frame(t)
  BY DEF Frame, Requests!Frame, Responses!Frame, Requests!LenBytesLen, Responses!LenBytesLen
<1>2. \A unit, next : /\ Requests!Follows(unit, next) <=> Follows(unit, next)
                      /\ Responses!Follows(unit, next) <=> Follows(unit, next)
  BY <1>1 DEF Follows, Requests!Follows, Responses!Follows
<1>3. \A units : (Requests!Framed(units) <=> Framed(units)) /\ (Requests!Ends(units) <=> Ends(units))
  BY <1>1, <1>2 DEF Framed, Requests!Framed, Ends, Requests!Ends
<1>4. \A units : (Responses!Framed(units) <=> Framed(units)) /\ (Responses!Ends(units) <=> Ends(units))
  BY <1>1, <1>2 DEF Framed, Responses!Framed, Ends, Responses!Ends
<1>5. QED
  BY <1>1, <1>3, <1>4

LEMMA FrameOK ==
  ASSUME NEW t
  PROVE  /\ IsSeq(Frame(t)) /\ Framed(Frame(t)) /\ Ends(Frame(t))
         /\ Len(Frame(t)) \in Nat \ {0, 1}
         /\ \A i \in 1..Len(Frame(t)) : Frame(t)[i] = <<t, i>>
<1> DEFINE n == 2 + Payload(t)
<1>1. n \in Nat \ {0, 1} /\ Frame(t) \in [1..n -> {t} \X (1..n)]
      /\ \A i \in 1..n : Frame(t)[i] = <<t, i>>
  <2>1. Payload(t) \in Nat
    BY DEF Payload
  <2>2. QED
    BY <2>1 DEF Frame
<1> HIDE DEF n
<1>2. IsSeq(Frame(t)) /\ Len(Frame(t)) = n
  BY <1>1, FunctionIsSeq, SeqIsSeq
<1>3. Framed(Frame(t)) /\ Ends(Frame(t))
  BY <1>1, <1>2 DEF Framed, Ends, Follows
<1>4. QED
  BY <1>1, <1>2, <1>3

LEMMA ConcatFrames ==
  ASSUME NEW s, IsSeq(s), NEW r, IsSeq(r), Framed(s), Ends(s), Framed(r)
  PROVE  Framed(s \o r) /\ (Ends(r) => Ends(s \o r))
<1>1. Len(s) \in Nat /\ Len(r) \in Nat
  BY IsSeqLength
<1>2. CASE s = <<>>
  BY <1>2, ConcatEmpty
<1>3. CASE r = <<>>
  BY <1>3, ConcatEmpty
<1>4. CASE s # <<>> /\ r # <<>>
  <2> DEFINE u == s \o r
  <2>1. Len(s) > 0 /\ Len(r) > 0
    BY <1>1, <1>4, EmptySeq DEF IsSeq
  <2>2. /\ Len(u) = Len(s) + Len(r)
        /\ \A i \in 1..Len(s) : u[i] = s[i]
        /\ \A i \in 1..Len(r) : u[Len(s) + i] = r[i]
    BY <1>1, ConcatIsSeq
  <2> HIDE DEF u
  <2>3. u[1][2] = 1
    BY <1>4, <2>1, <2>2, <1>1 DEF Framed
  <2>4. ASSUME NEW i \in 1..(Len(u) - 1) PROVE Follows(u[i], u[i + 1])
    <3>1. CASE i < Len(s)
      <4>1. i \in 1..(Len(s) - 1) /\ u[i] = s[i] /\ u[i + 1] = s[i + 1]
        BY <1>1, <2>2, <3>1
      <4>2. QED
        BY <4>1 DEF Framed
    <3>2. CASE i = Len(s)
      <4>1. u[i] = s[Len(s)] /\ u[i + 1] = r[1]
        BY <1>1, <2>1, <2>2, <3>2
      <4>2. QED
        BY <1>4, <4>1 DEF Framed, Ends, Follows
    <3>3. CASE i > Len(s)
      <4>1. i - Len(s) \in 1..(Len(r) - 1)
        BY <1>1, <2>2, <3>3
      <4>2. u[i] = r[i - Len(s)] /\ u[i + 1] = r[(i - Len(s)) + 1]
        <5> DEFINE k == i - Len(s)
        <5>1. i = Len(s) + k /\ i + 1 = Len(s) + (k + 1) /\ k \in 1..Len(r) /\ k + 1 \in 1..Len(r)
          BY <1>1, <2>2, <4>1
        <5> HIDE DEF k
        <5>2. u[Len(s) + k] = r[k] /\ u[Len(s) + (k + 1)] = r[k + 1]
          BY <2>2, <5>1
        <5>3. u[i] = r[k] /\ u[i + 1] = r[k + 1]
          BY <5>1, <5>2
        <5>4. QED
          BY <5>3 DEF k
      <4>3. QED
        BY <4>1, <4>2 DEF Framed
    <3>4. QED
      BY <1>1, <2>2, <3>1, <3>2, <3>3
  <2>5. Framed(u)
    BY <2>3, <2>4 DEF Framed
  <2>6. u[Len(u)] = r[Len(r)]
    BY <1>1, <2>1, <2>2
  <2>7. Ends(r) => Ends(u)
    BY <1>4, <2>6 DEF Ends
  <2>8. QED
    BY <2>5, <2>7 DEF u
<1>5. QED
  BY <1>2, <1>3, <1>4

\* What is cut off at the end leaves frames, the last one perhaps in part.
LEMMA PrefixFrames ==
  ASSUME NEW s, IsSeq(s), NEW r, IsSeq(r), Framed(s \o r)
  PROVE  Framed(s)
<1> DEFINE u == s \o r
<1>1. /\ Len(s) \in Nat /\ Len(r) \in Nat /\ Len(u) = Len(s) + Len(r)
      /\ \A i \in 1..Len(s) : u[i] = s[i]
  BY ConcatIsSeq, IsSeqLength
<1>2. Framed(u)
  OBVIOUS
<1> HIDE DEF u
<1>3. ASSUME s # <<>> PROVE s[1][2] = 1
  <2>1. Len(s) > 0 /\ Len(u) > 0
    BY <1>1, <1>3, EmptySeq DEF IsSeq
  <2>2. u # <<>>
    BY <2>1, EmptyIsSeq
  <2>3. QED
    BY <1>1, <1>2, <2>1, <2>2 DEF Framed
<1>4. ASSUME NEW i \in 1..(Len(s) - 1) PROVE Follows(s[i], s[i + 1])
  <2>1. i \in 1..(Len(u) - 1) /\ u[i] = s[i] /\ u[i + 1] = s[i + 1]
    BY <1>1
  <2>2. QED
    BY <1>2, <2>1 DEF Framed
<1>5. QED
  BY <1>3, <1>4 DEF Framed

\* Frames without the first one are frames.
LEMMA SuffixFrames ==
  ASSUME NEW t, NEW r, IsSeq(r), Framed(Frame(t) \o r)
  PROVE  Framed(r) /\ (Ends(Frame(t) \o r) => Ends(r))
<1> DEFINE n == Len(Frame(t))
           u == Frame(t) \o r
<1>1. /\ n \in Nat \ {0, 1} /\ Len(r) \in Nat /\ Len(u) = n + Len(r)
      /\ \A i \in 1..Len(r) : u[n + i] = r[i]
      /\ u[n] = <<t, n>>
  <2>1. /\ IsSeq(Frame(t)) /\ n \in Nat \ {0, 1}
        /\ \A i \in 1..n : Frame(t)[i] = <<t, i>>
    BY FrameOK
  <2>2. /\ Len(r) \in Nat /\ Len(u) = n + Len(r)
        /\ \A i \in 1..n : u[i] = Frame(t)[i]
        /\ \A i \in 1..Len(r) : u[n + i] = r[i]
    BY <2>1, ConcatIsSeq, IsSeqLength
  <2>3. n \in 1..n
    BY <2>1
  <2>4. QED
    BY <2>1, <2>2, <2>3
<1>2. Framed(u)
  OBVIOUS
<1> HIDE DEF u
<1>3. ASSUME r # <<>> PROVE r[1][2] = 1 /\ Len(r) > 0
  <2>1. Len(r) > 0
    BY <1>1, <1>3, EmptySeq DEF IsSeq
  <2>2. n \in 1..(Len(u) - 1) /\ u[n + 1] = r[1]
    BY <1>1, <2>1
  <2>3. Follows(u[n], u[n + 1])
    BY <1>2, <2>2 DEF Framed
  <2>4. QED
    BY <1>1, <2>1, <2>2, <2>3 DEF Follows
<1>4. ASSUME NEW i \in 1..(Len(r) - 1) PROVE Follows(r[i], r[i + 1])
  <2>1. n + i \in 1..(Len(u) - 1) /\ u[n + i] = r[i] /\ u[(n + i) + 1] = r[i + 1]
    <3>1. (n + i) + 1 = n + (i + 1) /\ i + 1 \in 1..Len(r) /\ i \in 1..Len(r)
      BY <1>1
    <3>2. n + i \in 1..(Len(u) - 1)
      BY <1>1
    <3>3. QED
      BY <1>1, <3>1, <3>2
  <2>2. QED
    BY <1>2, <2>1 DEF Framed
<1>5. Framed(r)
  BY <1>3, <1>4 DEF Framed
<1>6. ASSUME Ends(u), r # <<>> PROVE Ends(r)
  <2>1. u[Len(u)] = r[Len(r)] /\ Len(u) > 0
    BY <1>1, <1>3, <1>6
  <2>2. u # <<>>
    BY <2>1, EmptyIsSeq
  <2>3. QED
    BY <1>6, <2>1, <2>2 DEF Ends
<1>7. Ends(u) => Ends(r)
  BY <1>6 DEF Ends
<1>8. QED
  BY <1>5, <1>7 DEF u

-----------------------------------------------------------------------------
(* What is on its way: no read, write or interruption changes it, what is    *)
(* sent comes last, and what is received came first.  The buffers are those  *)
(* of len_bytes, read_buf, wire and write_buf.                               *)

OnWay(l, r, w, b) == l \o r \o w \o b

Buffers(l, r, w, b) == IsSeq(l) /\ IsSeq(r) /\ IsSeq(w) /\ IsSeq(b)

\* A buffer in two parts.
Split(s, first, rest) == IsSeq(first) /\ IsSeq(rest) /\ first \o rest = s

LEMMA OnWayIsSeq ==
  ASSUME NEW l, NEW r, NEW w, NEW b, Buffers(l, r, w, b)
  PROVE  /\ IsSeq(l \o r) /\ IsSeq((l \o r) \o w) /\ IsSeq(OnWay(l, r, w, b))
         /\ OnWay(l, r, w, b) = ((l \o r) \o w) \o b
<1>1. IsSeq(l) /\ IsSeq(r) /\ IsSeq(w) /\ IsSeq(b)
  BY DEF Buffers
<1>2. IsSeq(l \o r)
  BY <1>1, ConcatIsSeq
<1>3. IsSeq((l \o r) \o w)
  BY <1>1, <1>2, ConcatIsSeq
<1>4. IsSeq(((l \o r) \o w) \o b)
  BY <1>1, <1>3, ConcatIsSeq
<1>5. QED
  BY <1>2, <1>3, <1>4, Zenon DEF OnWay

LEMMA WriteKeeps ==
  ASSUME NEW l, NEW r, NEW w, NEW b, Buffers(l, r, w, b),
         NEW first, NEW rest, Split(b, first, rest)
  PROVE  /\ Buffers(l, r, w \o first, rest)
         /\ OnWay(l, r, w \o first, rest) = OnWay(l, r, w, b)
<1> DEFINE x == l \o r
           y == x \o w
<1>1. IsSeq(w) /\ IsSeq(l) /\ IsSeq(r) /\ IsSeq(x) /\ IsSeq(y) /\ IsSeq(first) /\ IsSeq(rest)
  BY OnWayIsSeq DEF Buffers, Split
<1>2. IsSeq(w \o first)
  BY <1>1, ConcatIsSeq
<1>3. Buffers(l, r, w \o first, rest)
  BY <1>1, <1>2 DEF Buffers
<1>4. OnWay(l, r, w \o first, rest) = (x \o (w \o first)) \o rest /\ OnWay(l, r, w, b) = y \o b
  BY Zenon DEF OnWay
<1>5. y = x \o w
  OBVIOUS
<1> HIDE DEF x, y
<1>6. y \o first = x \o (w \o first)
  <2>1. IsSeq(x) /\ IsSeq(w) /\ IsSeq(first)
    BY <1>1
  <2>2. (x \o w) \o first = x \o (w \o first)
    BY <2>1, Associative
  <2>3. QED
    BY <1>5, <2>2, Zenon
<1>7. (y \o first) \o rest = y \o (first \o rest)
  <2>1. IsSeq(y) /\ IsSeq(first) /\ IsSeq(rest)
    BY <1>1
  <2>2. QED
    BY <2>1, Associative
<1>8. QED
  BY <1>3, <1>4, <1>6, <1>7, Zenon DEF Split

LEMMA ReadKeeps ==
  ASSUME NEW l, NEW r, NEW w, NEW b, Buffers(l, r, w, b),
         NEW first, NEW rest, Split(w, first, rest)
  PROVE  /\ Buffers(l, r \o first, rest, b)
         /\ OnWay(l, r \o first, rest, b) = OnWay(l, r, w, b)
<1> DEFINE x == l \o r
<1>1. IsSeq(b) /\ IsSeq(l) /\ IsSeq(r) /\ IsSeq(x) /\ IsSeq(first) /\ IsSeq(rest)
  BY OnWayIsSeq DEF Buffers, Split
<1>2. IsSeq(r \o first)
  BY <1>1, ConcatIsSeq
<1>3. Buffers(l, r \o first, rest, b)
  BY <1>1, <1>2 DEF Buffers
<1>4. /\ OnWay(l, r \o first, rest, b) = ((l \o (r \o first)) \o rest) \o b
      /\ OnWay(l, r, w, b) = (x \o w) \o b
  BY Zenon DEF OnWay
<1>5. x = l \o r
  OBVIOUS
<1> HIDE DEF x
<1>6. x \o first = l \o (r \o first)
  BY <1>1, <1>5, Associative
<1>7. (x \o first) \o rest = x \o (first \o rest)
  BY <1>1, Associative
<1>8. QED
  BY <1>3, <1>4, <1>6, <1>7, Zenon DEF Split

\* The length is in front of what was read, in the hands of try_recv or not.
LEMMA LengthKeeps ==
  ASSUME NEW l, NEW r, NEW w, NEW b, Buffers(l, r, w, b)
  PROVE  Buffers(<<>>, l \o r, w, b) /\ OnWay(<<>>, l \o r, w, b) = OnWay(l, r, w, b)
<1>1. IsSeq(l \o r) /\ IsSeq(w) /\ IsSeq(b)
  BY OnWayIsSeq DEF Buffers
<1>2. <<>> \o (l \o r) = l \o r
  BY <1>1, ConcatEmpty
<1>3. Buffers(<<>>, l \o r, w, b)
  BY <1>1, EmptyIsSeq DEF Buffers
<1>4. OnWay(<<>>, l \o r, w, b) = ((<<>> \o (l \o r)) \o w) \o b
  BY Zenon DEF OnWay
<1>5. OnWay(l, r, w, b) = ((l \o r) \o w) \o b
  BY Zenon DEF OnWay
<1>6. QED
  BY <1>2, <1>3, <1>4, <1>5, Zenon

LEMMA SendAdds ==
  ASSUME NEW l, NEW r, NEW w, NEW b, Buffers(l, r, w, b), NEW f, IsSeq(f)
  PROVE  Buffers(l, r, w, b \o f) /\ OnWay(l, r, w, b \o f) = OnWay(l, r, w, b) \o f
<1> DEFINE x == (l \o r) \o w
<1>1. IsSeq(l) /\ IsSeq(r) /\ IsSeq(w) /\ IsSeq(b) /\ IsSeq(x) /\ IsSeq(f)
  BY OnWayIsSeq DEF Buffers
<1>2. IsSeq(b \o f)
  BY <1>1, ConcatIsSeq
<1>3. Buffers(l, r, w, b \o f)
  BY <1>1, <1>2 DEF Buffers
<1>4. OnWay(l, r, w, b \o f) = x \o (b \o f) /\ OnWay(l, r, w, b) = x \o b
  BY Zenon DEF OnWay
<1> HIDE DEF x
<1>5. (x \o b) \o f = x \o (b \o f)
  BY <1>1, Associative
<1>6. QED
  BY <1>3, <1>4, <1>5, Zenon

LEMMA ReceiveTakes ==
  ASSUME NEW l, NEW r, NEW w, NEW b, Buffers(l, r, w, b),
         NEW first, NEW rest, Split(r, first, rest)
  PROVE  /\ Buffers(<<>>, rest, w, b) /\ IsSeq(l \o first)
         /\ OnWay(l, r, w, b) = (l \o first) \o OnWay(<<>>, rest, w, b)
<1> DEFINE f == l \o first
           x == rest \o w
<1>1. IsSeq(l) /\ IsSeq(w) /\ IsSeq(b) /\ IsSeq(first) /\ IsSeq(rest)
  BY DEF Buffers, Split
<1>2. IsSeq(f) /\ IsSeq(x)
  BY <1>1, ConcatIsSeq
<1>3. Buffers(<<>>, rest, w, b)
  BY <1>1, EmptyIsSeq DEF Buffers
<1>4. <<>> \o rest = rest
  BY <1>1, ConcatEmpty
<1>5. OnWay(<<>>, rest, w, b) = x \o b
  <2>1. OnWay(<<>>, rest, w, b) = ((<<>> \o rest) \o w) \o b
    BY Zenon DEF OnWay
  <2>2. QED
    BY <1>4, <2>1, Zenon
<1>6. OnWay(l, r, w, b) = ((l \o (first \o rest)) \o w) \o b
  BY Zenon DEF OnWay, Split
<1>7. (l \o first) \o rest = l \o (first \o rest)
  BY <1>1, Associative
<1>8. f = l \o first /\ x = rest \o w
  OBVIOUS
<1> HIDE DEF f, x
<1>9. (f \o rest) \o w = f \o x
  <2>1. IsSeq(f) /\ IsSeq(rest) /\ IsSeq(w)
    BY <1>1, <1>2
  <2>2. (f \o rest) \o w = f \o (rest \o w)
    BY <2>1, Associative
  <2>3. QED
    BY <1>8, <2>2, Zenon
<1>10. (f \o x) \o b = f \o (x \o b)
  <2>1. IsSeq(f) /\ IsSeq(x) /\ IsSeq(b)
    BY <1>1, <1>2
  <2>2. QED
    BY <2>1, Associative
<1>11. QED
  BY <1>2, <1>3, <1>5, <1>6, <1>7, <1>8, <1>9, <1>10, Zenon

\* What is in the memory of the sender or in the network when it goes is cut off.
LEMMA CutOff ==
  ASSUME NEW l, NEW r, NEW w, NEW b, Buffers(l, r, w, b)
  PROVE  /\ Buffers(l, r, w, <<>>) /\ OnWay(l, r, w, b) = OnWay(l, r, w, <<>>) \o b
         /\ Buffers(l, r, <<>>, <<>>)
         /\ OnWay(l, r, w, <<>>) = OnWay(l, r, <<>>, <<>>) \o w
<1> DEFINE x == l \o r
           y == x \o w
<1>1. IsSeq(l) /\ IsSeq(r) /\ IsSeq(w) /\ IsSeq(b) /\ IsSeq(x) /\ IsSeq(y)
  BY OnWayIsSeq DEF Buffers
<1>2. Buffers(l, r, w, <<>>) /\ Buffers(l, r, <<>>, <<>>)
  BY <1>1, EmptyIsSeq DEF Buffers
<1>3. /\ OnWay(l, r, w, b) = y \o b
      /\ OnWay(l, r, w, <<>>) = y \o <<>>
      /\ OnWay(l, r, <<>>, <<>>) = (x \o <<>>) \o <<>>
  BY Zenon DEF OnWay
<1>4. y = x \o w
  OBVIOUS
<1> HIDE DEF x, y
<1>5. y \o <<>> = y /\ x \o <<>> = x
  BY <1>1, ConcatEmpty
<1>6. QED
  BY <1>2, <1>3, <1>4, <1>5, Zenon

-----------------------------------------------------------------------------
(* The messages on their way, the ids they bear and the proofs they count.   *)

\* Messages that are on their way at least in part.
Messages(units) == {u[1] : u \in ToSet(units)}

Named(unit) == unit[2] = 1 /\ Bears(unit[1])

Names(units) == {u[1].id : u \in {v \in ToSet(units) : Named(v)}}

NamedOnce(units) ==
  \A i, j \in 1..Len(units) :
    Named(units[i]) /\ Named(units[j]) /\ units[i][1].id = units[j][1].id => i = j

\* What the message counts is a number.
Counts(m) == Proofs(m) \in Nat

LEMMA MessagesConcat ==
  ASSUME NEW s, IsSeq(s), NEW t, IsSeq(t)
  PROVE  Messages(s \o t) = Messages(s) \cup Messages(t)
<1>1. ToSet(s \o t) = ToSet(s) \cup ToSet(t)
  BY ConcatToSet
<1>2. QED
  BY <1>1 DEF Messages

LEMMA MessagesOfFrame ==
  ASSUME NEW t
  PROVE  Messages(Frame(t)) = {t}
<1>1. /\ IsSeq(Frame(t)) /\ Len(Frame(t)) \in Nat \ {0}
      /\ \A i \in 1..Len(Frame(t)) : Frame(t)[i] = <<t, i>>
  BY FrameOK
<1>2. ToSet(Frame(t)) = {Frame(t)[i] : i \in 1..Len(Frame(t))}
  <2>1. Frame(t) \in Seq(ToSet(Frame(t)))
    BY <1>1 DEF IsSeq
  <2>2. QED
    BY <2>1, SeqIsSeq
<1>3. \A u \in ToSet(Frame(t)) : u[1] = t
  BY <1>1, <1>2
<1>4. 1 \in 1..Len(Frame(t))
  BY <1>1
<1>5. Frame(t)[1] \in ToSet(Frame(t))
  BY <1>2, <1>4
<1>6. QED
  BY <1>3, <1>5 DEF Messages

LEMMA NoMessages ==
  /\ IsSeq(<<>>) /\ Messages(<<>>) = {} /\ Names(<<>>) = {} /\ NamedOnce(<<>>)
  /\ Carried(<<>>) = 0
<1>1. IsSeq(<<>>) /\ ToSet(<<>>) = {} /\ Len(<<>>) = 0
  BY EmptyIds, EmptyIsSeq
<1>2. Messages(<<>>) = {} /\ Names(<<>>) = {} /\ NamedOnce(<<>>)
  BY <1>1 DEF Messages, Names, NamedOnce
<1>3. [i \in DOMAIN <<>> |-> IF <<>>[i][2] = 1 THEN Proofs(<<>>[i][1]) ELSE 0] = <<>>
  OBVIOUS
<1>4. QED
  BY <1>1, <1>2, <1>3, TotalEmpty DEF Carried

LEMMA NamesConcat ==
  ASSUME NEW s, IsSeq(s), NEW t, IsSeq(t)
  PROVE  /\ Names(s \o t) = Names(s) \cup Names(t)
         /\ NamedOnce(s \o t)
              <=> NamedOnce(s) /\ NamedOnce(t) /\ Names(s) \cap Names(t) = {}
<1> DEFINE r == s \o t
           m == Len(s)
           k == Len(t)
<1>1. ToSet(r) = ToSet(s) \cup ToSet(t)
  BY ConcatToSet
<1>2. /\ m \in Nat /\ k \in Nat /\ Len(r) = m + k
      /\ \A i \in 1..(m + k) : r[i] = IF i <= m THEN s[i] ELSE t[i - m]
  BY ConcatIsSeq, IsSeqLength
<1>3. /\ \A u : u \in ToSet(s) <=> \E i \in 1..m : u = s[i]
      /\ \A u : u \in ToSet(t) <=> \E i \in 1..k : u = t[i]
  BY SeqIsSeq DEF IsSeq
<1> HIDE DEF r, m, k
<1>4. /\ \A i \in 1..m : i \in 1..(m + k) /\ r[i] = s[i]
      /\ \A i \in 1..k : m + i \in 1..(m + k) /\ r[m + i] = t[i]
      /\ \A i \in 1..(m + k) : i \in 1..m \/ (i - m \in 1..k /\ i = m + (i - m))
  BY <1>2
<1>5. Names(r) = Names(s) \cup Names(t)
  BY <1>1 DEF Names
<1>6. ASSUME NamedOnce(r) PROVE NamedOnce(s) /\ NamedOnce(t) /\ Names(s) \cap Names(t) = {}
  <2>1. NamedOnce(s)
    BY <1>2, <1>4, <1>6 DEF NamedOnce, m
  <2>2. ASSUME NEW i \in 1..k, NEW j \in 1..k,
               Named(t[i]), Named(t[j]), t[i][1].id = t[j][1].id
        PROVE  i = j
    <3>1. m + i = m + j
      <4>1. m + i \in 1..Len(r) /\ m + j \in 1..Len(r) /\ r[m + i] = t[i] /\ r[m + j] = t[j]
        BY <1>2, <1>4
      <4>2. QED
        BY <1>6, <2>2, <4>1 DEF NamedOnce
    <3>2. QED
      BY <1>2, <3>1
  <2>3. NamedOnce(t)
    BY <2>2 DEF NamedOnce, k
  <2>4. ASSUME NEW u \in ToSet(s), NEW v \in ToSet(t), Named(u), Named(v), u[1].id = v[1].id
        PROVE  FALSE
    <3>1. PICK i \in 1..m, j \in 1..k : u = s[i] /\ v = t[j]
      BY <1>3
    <3>2. i = m + j
      BY <1>2, <1>4, <1>6, <2>4, <3>1 DEF NamedOnce
    <3>3. QED
      BY <1>2, <3>2
  <2>5. Names(s) \cap Names(t) = {}
    BY <2>4 DEF Names
  <2>6. QED
    BY <2>1, <2>3, <2>5
<1>7. ASSUME NamedOnce(s), NamedOnce(t), Names(s) \cap Names(t) = {} PROVE NamedOnce(r)
  <2>1. \A i \in 1..m : Named(s[i]) => s[i][1].id \in Names(s)
    BY <1>3 DEF Names
  <2>2. \A i \in 1..k : Named(t[i]) => t[i][1].id \in Names(t)
    BY <1>3 DEF Names
  <2>3. SUFFICES ASSUME NEW i \in 1..(m + k), NEW j \in 1..(m + k),
                        Named(r[i]), Named(r[j]), r[i][1].id = r[j][1].id
                 PROVE  i = j
    BY <1>2 DEF NamedOnce
  <2>4. CASE i \in 1..m /\ j \in 1..m
    BY <1>4, <1>7, <2>3, <2>4 DEF NamedOnce, m
  <2>5. CASE i - m \in 1..k /\ j - m \in 1..k
    <3>1. r[i] = t[i - m] /\ r[j] = t[j - m]
      <4>1. i = m + (i - m) /\ j = m + (j - m)
        BY <1>2
      <4>2. QED
        BY <1>4, <2>5, <4>1
    <3>2. i - m = j - m
      BY <1>7, <2>3, <2>5, <3>1 DEF NamedOnce, k
    <3>3. QED
      BY <1>2, <3>2
  <2>6. CASE i \in 1..m /\ j - m \in 1..k
    <3>1. r[i] = s[i] /\ r[j] = t[j - m]
      <4>1. j = m + (j - m)
        BY <1>2
      <4>2. QED
        BY <1>4, <2>6, <4>1
    <3>2. QED
      BY <1>7, <2>1, <2>2, <2>3, <2>6, <3>1
  <2>7. CASE i - m \in 1..k /\ j \in 1..m
    <3>1. r[i] = t[i - m] /\ r[j] = s[j]
      <4>1. i = m + (i - m)
        BY <1>2
      <4>2. QED
        BY <1>4, <2>7, <4>1
    <3>2. QED
      BY <1>7, <2>1, <2>2, <2>3, <2>7, <3>1
  <2>8. QED
    BY <1>4, <2>4, <2>5, <2>6, <2>7
<1>8. QED
  BY <1>5, <1>6, <1>7 DEF r

LEMMA NamesOfFrame ==
  ASSUME NEW t
  PROVE  /\ NamedOnce(Frame(t))
         /\ Names(Frame(t)) = IF Bears(t) THEN {t.id} ELSE {}
<1>1. /\ IsSeq(Frame(t)) /\ Len(Frame(t)) \in Nat \ {0}
      /\ \A i \in 1..Len(Frame(t)) : Frame(t)[i] = <<t, i>>
  BY FrameOK
<1>2. ToSet(Frame(t)) = {Frame(t)[i] : i \in 1..Len(Frame(t))}
  <2>1. Frame(t) \in Seq(ToSet(Frame(t)))
    BY <1>1 DEF IsSeq
  <2>2. QED
    BY <2>1, SeqIsSeq
<1>3. \A i \in 1..Len(Frame(t)) : Named(Frame(t)[i]) <=> i = 1 /\ Bears(t)
  BY <1>1 DEF Named
<1>4. NamedOnce(Frame(t))
  BY <1>3 DEF NamedOnce
<1>5. \A u : u \in ToSet(Frame(t)) /\ Named(u) <=> u = <<t, 1>> /\ Bears(t)
  <2>1. ASSUME NEW u, u \in ToSet(Frame(t)), Named(u) PROVE u = <<t, 1>> /\ Bears(t)
    <3>1. PICK i \in 1..Len(Frame(t)) : u = Frame(t)[i]
      BY <1>2, <2>1
    <3>2. i = 1 /\ Bears(t)
      BY <1>3, <2>1, <3>1
    <3>3. QED
      BY <1>1, <3>1, <3>2
  <2>2. ASSUME Bears(t) PROVE <<t, 1>> \in ToSet(Frame(t)) /\ Named(<<t, 1>>)
    <3>1. 1 \in 1..Len(Frame(t)) /\ Frame(t)[1] = <<t, 1>>
      BY <1>1
    <3>2. QED
      BY <1>2, <1>3, <2>2, <3>1
  <2>3. QED
    BY <2>1, <2>2
<1>6. Names(Frame(t)) = {u[1].id : u \in {v \in {<<t, 1>>} : Bears(t)}}
  <2>1. {v \in ToSet(Frame(t)) : Named(v)} = {v \in {<<t, 1>>} : Bears(t)}
    BY <1>5
  <2>2. QED
    BY <2>1, Zenon DEF Names
<1>7. Names(Frame(t)) = IF Bears(t) THEN {t.id} ELSE {}
  <2>1. CASE Bears(t)
    <3>1. {v \in {<<t, 1>>} : Bears(t)} = {<<t, 1>>} /\ <<t, 1>>[1] = t
      BY <2>1
    <3>2. Names(Frame(t)) = {u[1].id : u \in {<<t, 1>>}}
      BY <1>6, <3>1, Zenon
    <3>3. QED
      BY <2>1, <3>1, <3>2
  <2>2. CASE ~Bears(t)
    BY <1>6, <2>2
  <2>3. QED
    BY <2>1, <2>2
<1>8. QED
  BY <1>4, <1>7

LEMMA CarriedConcat ==
  ASSUME NEW s, IsSeq(s), NEW t, IsSeq(t), \A m \in Messages(s) \cup Messages(t) : Counts(m)
  PROVE  /\ Carried(s \o t) = Carried(s) + Carried(t)
         /\ Carried(s) \in Nat /\ Carried(t) \in Nat
<1> DEFINE Moved(u) == IF u[2] = 1 THEN Proofs(u[1]) ELSE 0
           r == s \o t
           F == [i \in 1..Len(r) |-> Moved(r[i])]
           G == [i \in 1..Len(s) |-> Moved(s[i])]
           H == [i \in 1..Len(t) |-> Moved(t[i])]
<1>1. /\ IsSeq(r) /\ Len(r) = Len(s) + Len(t) /\ Len(s) \in Nat /\ Len(t) \in Nat
      /\ \A i \in 1..Len(s) : r[i] = s[i]
      /\ \A i \in 1..Len(t) : r[Len(s) + i] = t[i]
  <2>1. Len(s) \in Nat /\ Len(t) \in Nat
    BY IsSeqLength
  <2>2. QED
    BY <2>1, ConcatIsSeq
<1>2. DOMAIN r = 1..Len(r) /\ DOMAIN s = 1..Len(s) /\ DOMAIN t = 1..Len(t)
  BY <1>1, IsSeqLength
<1>3. Carried(r) = Total(F) /\ Carried(s) = Total(G) /\ Carried(t) = Total(H)
  BY <1>2, Zenon DEF Carried
<1>4. /\ \A i \in 1..Len(s) : s[i][1] \in Messages(s)
      /\ \A i \in 1..Len(t) : t[i][1] \in Messages(t)
  <2>1. /\ \A i \in 1..Len(s) : s[i] \in ToSet(s)
        /\ \A i \in 1..Len(t) : t[i] \in ToSet(t)
    BY SeqIsSeq DEF IsSeq
  <2>2. QED
    BY <2>1 DEF Messages
<1>5. /\ \A i \in 1..Len(s) : Moved(s[i]) \in Nat
      /\ \A i \in 1..Len(t) : Moved(t[i]) \in Nat
  BY <1>4 DEF Counts
<1> HIDE DEF Moved
<1>6. \A i \in 1..Len(r) : Moved(r[i]) \in Nat
  <2>1. \A i \in 1..Len(r) : i \in 1..Len(s) \/ (i - Len(s) \in 1..Len(t) /\ i = Len(s) + (i - Len(s)))
    BY <1>1
  <2>2. QED
    BY <1>1, <1>5, <2>1
<1>7. G \in [1..Len(s) -> Nat] /\ H \in [1..Len(t) -> Nat] /\ F \in [1..Len(r) -> Nat]
  BY <1>5, <1>6
<1>8. /\ IsCounts(F) /\ IsCounts(G) /\ IsCounts(H)
      /\ Len(F) = Len(r) /\ Len(G) = Len(s) /\ Len(H) = Len(t)
  <2>1. Len(r) \in Nat /\ Len(s) \in Nat /\ Len(t) \in Nat
    BY <1>1
  <2> HIDE DEF r, F, G, H
  <2>2. F \in Seq(Nat) /\ G \in Seq(Nat) /\ H \in Seq(Nat)
        /\ Len(F) = Len(r) /\ Len(G) = Len(s) /\ Len(H) = Len(t)
    BY <1>7, <2>1, FunctionIsSeq
  <2>3. IsSeq(F) /\ IsSeq(G) /\ IsSeq(H)
    BY <2>2, SeqIsSeq
  <2>4. QED
    BY <1>7, <2>2, <2>3 DEF IsCounts
<1>9. Joins(F, G, H)
  <2>1. \A i \in 1..Len(G) : F[i] = G[i]
    <3>1. \A i \in 1..Len(s) : i \in 1..Len(r)
      BY <1>1
    <3>2. QED
      BY <1>1, <1>8, <3>1
  <2>2. \A i \in 1..Len(H) : F[Len(G) + i] = H[i]
    <3>1. \A i \in 1..Len(t) : Len(s) + i \in 1..Len(r)
      BY <1>1
    <3>2. QED
      BY <1>1, <1>8, <3>1
  <2>3. Len(F) = Len(G) + Len(H)
    BY <1>1, <1>8
  <2> HIDE DEF r, F, G, H
  <2>4. QED
    BY <2>1, <2>2, <2>3 DEF Joins
<1> HIDE DEF r, F, G, H
<1>10. Total(F) = Total(G) + Total(H)
  BY <1>8, <1>9, CountsAreNumbers, TotalJoined
<1>11. Total(G) \in Nat /\ Total(H) \in Nat
  BY <1>8, TotalNat
<1>12. QED
  BY <1>3, <1>10, <1>11 DEF r

LEMMA CarriedByFrame ==
  ASSUME NEW t, Counts(t)
  PROVE  Carried(Frame(t)) = Proofs(t)
<1> DEFINE f == Frame(t)
           G == [i \in 1..Len(f) |-> IF f[i][2] = 1 THEN Proofs(f[i][1]) ELSE 0]
<1>1. /\ IsSeq(f) /\ Len(f) \in Nat \ {0} /\ DOMAIN f = 1..Len(f)
      /\ \A i \in 1..Len(f) : f[i] = <<t, i>>
  BY FrameOK, IsSeqLength
<1>2. Carried(f) = Total(G)
  BY <1>1, Zenon DEF Carried
<1> HIDE DEF f
<1>3. \A i \in 1..Len(f) : G[i] = IF i = 1 THEN Proofs(t) ELSE 0
  BY <1>1
<1>4. G \in [1..Len(f) -> Nat]
  BY <1>3 DEF Counts
<1> HIDE DEF G
<1>5. G \in Seq(Nat) /\ Len(G) = Len(f)
  BY <1>1, <1>4, FunctionIsSeq
<1>6. IsNumbers(G)
  BY <1>4, <1>5, SeqIsSeq DEF IsNumbers
<1>7. 1 \in 1..Len(G) /\ \A i \in 1..Len(G) : i # 1 => G[i] = 0
  BY <1>1, <1>3, <1>5
<1>8. Total(G) = G[1]
  BY <1>6, <1>7, TotalAt
<1>9. QED
  BY <1>2, <1>3, <1>5, <1>7, <1>8 DEF f

-----------------------------------------------------------------------------
(* A stream whose network holds W units, and what its steps do to it.        *)

IsStream(W, l, r, w, b) == Buffers(l, r, w, b) /\ Len(w) <= W /\ Len(l) \in {0, 2}

LEMMA SplitOK ==
  ASSUME NEW s, IsSeq(s), NEW n \in 0..Len(s)
  PROVE  /\ Split(s, SubSeq(s, 1, n), SubSeq(s, n + 1, Len(s)))
         /\ Len(SubSeq(s, 1, n)) = n /\ Len(SubSeq(s, n + 1, Len(s))) = Len(s) - n
<1>1. Split(s, SubSeq(s, 1, n), SubSeq(s, n + 1, Len(s)))
  BY SplitIsSeq DEF Split
<1>2. Len(s) \in Nat /\ s \in Seq(ToSet(s)) /\ \A i \in 1..Len(s) : s[i] \in ToSet(s)
  BY IsSeqLength, SeqIsSeq DEF IsSeq
<1>3. Len(SubSeq(s, 1, n)) = n
  BY <1>2, SubSeqProperties
<1>4. Len(SubSeq(s, n + 1, Len(s))) = Len(s) - n
  BY <1>2, SubSeqProperties
<1>5. QED
  BY <1>1, <1>3, <1>4

LEMMA StreamWrites ==
  ASSUME NEW W \in Nat, NEW l, NEW r, NEW w, NEW b, IsStream(W, l, r, w, b),
         NEW n \in 1..Len(b), n <= W - Len(w)
  PROVE  /\ IsStream(W, l, r, w \o SubSeq(b, 1, n), SubSeq(b, n + 1, Len(b)))
         /\ OnWay(l, r, w \o SubSeq(b, 1, n), SubSeq(b, n + 1, Len(b))) = OnWay(l, r, w, b)
<1> DEFINE first == SubSeq(b, 1, n)
           rest == SubSeq(b, n + 1, Len(b))
<1>1. IsSeq(w) /\ IsSeq(b) /\ Buffers(l, r, w, b) /\ Len(w) \in Nat /\ Len(b) \in Nat
  BY IsSeqLength DEF IsStream, Buffers
<1>2. Split(b, first, rest) /\ Len(first) = n
  BY <1>1, SplitOK
<1> HIDE DEF first, rest
<1>3. Buffers(l, r, w \o first, rest) /\ OnWay(l, r, w \o first, rest) = OnWay(l, r, w, b)
  BY <1>1, <1>2, WriteKeeps
<1>4. Len(w \o first) = Len(w) + n
  BY <1>1, <1>2, ConcatIsSeq DEF Split
<1>5. Len(w \o first) <= W
  BY <1>1, <1>4
<1>6. QED
  BY <1>3, <1>5 DEF IsStream, first, rest

LEMMA StreamReads ==
  ASSUME NEW W \in Nat, NEW l, NEW r, NEW w, NEW b, IsStream(W, l, r, w, b),
         NEW n \in 1..Len(w)
  PROVE  /\ IsStream(W, l, r \o SubSeq(w, 1, n), SubSeq(w, n + 1, Len(w)), b)
         /\ OnWay(l, r \o SubSeq(w, 1, n), SubSeq(w, n + 1, Len(w)), b) = OnWay(l, r, w, b)
<1> DEFINE first == SubSeq(w, 1, n)
           rest == SubSeq(w, n + 1, Len(w))
<1>1. IsSeq(w) /\ Buffers(l, r, w, b) /\ Len(w) \in Nat /\ Len(w) <= W
  BY IsSeqLength DEF IsStream, Buffers
<1>2. Split(w, first, rest) /\ Len(rest) = Len(w) - n
  BY <1>1, SplitOK
<1> HIDE DEF first, rest
<1>3. Buffers(l, r \o first, rest, b) /\ OnWay(l, r \o first, rest, b) = OnWay(l, r, w, b)
  BY <1>1, <1>2, ReadKeeps
<1>4. Len(rest) <= W
  BY <1>1, <1>2
<1>5. QED
  BY <1>3, <1>4 DEF IsStream, first, rest

LEMMA StreamTakes ==
  ASSUME NEW W \in Nat, NEW r, NEW w, NEW b, IsStream(W, <<>>, r, w, b), Len(r) >= 2
  PROVE  /\ IsStream(W, SubSeq(r, 1, 2), SubSeq(r, 2 + 1, Len(r)), w, b)
         /\ OnWay(SubSeq(r, 1, 2), SubSeq(r, 2 + 1, Len(r)), w, b) = OnWay(<<>>, r, w, b)
<1> DEFINE first == SubSeq(r, 1, 2)
           rest == SubSeq(r, 2 + 1, Len(r))
<1>1. IsSeq(r) /\ IsSeq(w) /\ IsSeq(b) /\ Len(r) \in Nat /\ Len(w) <= W
  BY IsSeqLength DEF IsStream, Buffers
<1>2. Split(r, first, rest) /\ Len(first) = 2
  <2>1. 2 \in 0..Len(r)
    BY <1>1
  <2>2. QED
    BY <1>1, <2>1, SplitOK
<1> HIDE DEF first, rest
<1>3. Buffers(first, rest, w, b)
  BY <1>1, <1>2 DEF Buffers, Split
<1>4. OnWay(<<>>, first \o rest, w, b) = OnWay(first, rest, w, b)
  BY <1>3, LengthKeeps
<1>5. OnWay(first, rest, w, b) = OnWay(<<>>, r, w, b)
  BY <1>2, <1>4, Zenon DEF Split
<1>6. QED
  BY <1>1, <1>2, <1>3, <1>5 DEF IsStream, first, rest

LEMMA StreamUnreads ==
  ASSUME NEW W \in Nat, NEW l, NEW r, NEW w, NEW b, IsStream(W, l, r, w, b)
  PROVE  /\ IsStream(W, <<>>, l \o r, w, b)
         /\ OnWay(<<>>, l \o r, w, b) = OnWay(l, r, w, b)
BY LengthKeeps, EmptyIsSeq DEF IsStream

LEMMA StreamSends ==
  ASSUME NEW W \in Nat, NEW l, NEW r, NEW w, NEW b, IsStream(W, l, r, w, b), NEW t
  PROVE  /\ IsStream(W, l, r, w, b \o Frame(t))
         /\ OnWay(l, r, w, b \o Frame(t)) = OnWay(l, r, w, b) \o Frame(t)
BY FrameOK, SendAdds DEF IsStream

\* The prefix and what was read of the payload are one frame.
Completes(l, r, n, t) == l \o SubSeq(r, 1, n) = Frame(t)

LEMMA StreamReceives ==
  ASSUME NEW W \in Nat, NEW l, NEW r, NEW w, NEW b, IsStream(W, l, r, w, b),
         NEW n \in 0..Len(r), NEW t, Completes(l, r, n, t)
  PROVE  /\ IsStream(W, <<>>, SubSeq(r, n + 1, Len(r)), w, b)
         /\ OnWay(l, r, w, b) = Frame(t) \o OnWay(<<>>, SubSeq(r, n + 1, Len(r)), w, b)
<1> DEFINE first == SubSeq(r, 1, n)
           rest == SubSeq(r, n + 1, Len(r))
<1>1. IsSeq(r) /\ Buffers(l, r, w, b) /\ Len(w) <= W
  BY DEF IsStream, Buffers
<1>2. Split(r, first, rest)
  BY <1>1, SplitOK
<1>3. l \o first = Frame(t)
  BY DEF Completes
<1> HIDE DEF first, rest
<1>4. Buffers(<<>>, rest, w, b) /\ OnWay(l, r, w, b) = (l \o first) \o OnWay(<<>>, rest, w, b)
  BY <1>1, <1>2, ReceiveTakes
<1>5. OnWay(l, r, w, b) = Frame(t) \o OnWay(<<>>, rest, w, b)
  BY <1>3, <1>4, Zenon
<1>6. IsStream(W, <<>>, rest, w, b)
  BY <1>1, <1>4, EmptyIsSeq DEF IsStream
<1>7. QED
  BY <1>5, <1>6 DEF rest

LEMMA StreamEmpty ==
  ASSUME NEW W \in Nat
  PROVE  IsStream(W, <<>>, <<>>, <<>>, <<>>) /\ OnWay(<<>>, <<>>, <<>>, <<>>) = <<>>
<1>1. IsSeq(<<>>) /\ Len(<<>>) = 0 /\ <<>> \o <<>> = <<>>
  BY EmptyIsSeq, ConcatEmpty
<1>2. QED
  BY <1>1 DEF IsStream, Buffers, OnWay

-----------------------------------------------------------------------------
(* The two streams. *)

RequestsOnWay == OnWay(req_len_bytes, req_read_buf, req_wire, req_write_buf)
ResponsesOnWay == OnWay(resp_len_bytes, resp_read_buf, resp_wire, resp_write_buf)

RequestStream ==
  IsStream(RequestWindow, req_len_bytes, req_read_buf, req_wire, req_write_buf)
ResponseStream ==
  IsStream(ResponseWindow, resp_len_bytes, resp_read_buf, resp_wire, resp_write_buf)

LEMMA StreamsTyped ==
  /\ RequestStream => Requests!StreamOK /\ IsSeq(RequestsOnWay)
  /\ ResponseStream => Responses!StreamOK /\ IsSeq(ResponsesOnWay)
  /\ Requests!Transit = RequestsOnWay /\ Responses!Transit = ResponsesOnWay
<1>1. RequestStream => Requests!StreamOK
  BY DEF RequestStream, IsStream, Requests!StreamOK, Requests!LenBytesLen
<1>2. ResponseStream => Responses!StreamOK
  BY DEF ResponseStream, IsStream, Responses!StreamOK, Responses!LenBytesLen
<1>3. RequestStream => IsSeq(RequestsOnWay)
  BY OnWayIsSeq DEF RequestStream, IsStream, RequestsOnWay
<1>4. ResponseStream => IsSeq(ResponsesOnWay)
  BY OnWayIsSeq DEF ResponseStream, IsStream, ResponsesOnWay
<1>5. Requests!Transit = RequestsOnWay /\ Responses!Transit = ResponsesOnWay
  BY Zenon DEF Requests!Transit, Responses!Transit, RequestsOnWay, ResponsesOnWay, OnWay
<1>6. QED
  BY <1>1, <1>2, <1>3, <1>4, <1>5

LEMMA NamesAre ==
  ASSUME NEW units, NEW id \in Names(units)
  PROVE  \E m \in Messages(units) : Bears(m) /\ m.id = id
BY DEF Names, Named, Messages

LEMMA CarriedNat ==
  /\ RequestStream /\ (\A m \in Messages(RequestsOnWay) : Counts(m)) => Carried(RequestsOnWay) \in Nat
  /\ ResponseStream /\ (\A m \in Messages(ResponsesOnWay) : Counts(m)) => Carried(ResponsesOnWay) \in Nat
<1>1. IsSeq(<<>>) /\ Messages(<<>>) = {}
  BY NoMessages
<1>2. \A s : IsSeq(s) /\ (\A m \in Messages(s) : Counts(m)) => Carried(s) \in Nat
  BY <1>1, CarriedConcat
<1>3. QED
  BY <1>2, StreamsTyped

LEMMA StreamIsSeq ==
  /\ RequestStream' => IsSeq(RequestsOnWay)'
  /\ ResponseStream' => IsSeq(ResponsesOnWay)'
<1>1. RequestStream' => IsSeq(RequestsOnWay)'
  BY OnWayIsSeq DEF RequestStream, IsStream, RequestsOnWay
<1>2. ResponseStream' => IsSeq(ResponsesOnWay)'
  BY OnWayIsSeq DEF ResponseStream, IsStream, ResponsesOnWay
<1>3. QED
  BY <1>1, <1>2

-----------------------------------------------------------------------------
(* What the steps of either end do to them. *)

\* An end reads or writes, or nothing happens.
LEMMA RequestKept ==
  ASSUME TcpAssumption, RequestStream,
         \/ UNCHANGED reqVars
         \/ Requests!WriteSome \/ Requests!ReadSome \/ Requests!TakeLength
  PROVE  RequestStream' /\ RequestsOnWay' = RequestsOnWay
<1> DEFINE l == req_len_bytes
           r == req_read_buf
           w == req_wire
           b == req_write_buf
<1>1. RequestWindow \in Nat /\ IsSeq(w) /\ IsSeq(b) /\ IsSeq(r)
      /\ Len(w) \in Nat /\ Len(b) \in Nat /\ Len(r) \in Nat
  BY IsSeqLength DEF TcpAssumption, RequestStream, IsStream, Buffers
<1>2. CASE UNCHANGED reqVars
  BY <1>2 DEF reqVars, RequestStream, RequestsOnWay
<1>3. CASE Requests!WriteSome
  <2>1. PICK n \in 1..Requests!Least(Requests!Room, Len(b)) :
          w' = w \o SubSeq(b, 1, n) /\ b' = SubSeq(b, n + 1, Len(b))
    BY <1>3 DEF Requests!WriteSome, Requests!FirstOf, Requests!RestOf
  <2>2. UNCHANGED <<r, l>>
    BY <1>3 DEF Requests!WriteSome
  <2>3. n \in 1..Len(b) /\ n <= RequestWindow - Len(w)
    BY <1>1, <2>1 DEF Requests!Least, Requests!Room
  <2>4. /\ IsStream(RequestWindow, l, r, w \o SubSeq(b, 1, n), SubSeq(b, n + 1, Len(b)))
        /\ OnWay(l, r, w \o SubSeq(b, 1, n), SubSeq(b, n + 1, Len(b))) = OnWay(l, r, w, b)
    BY <1>1, <2>3, StreamWrites DEF RequestStream
  <2>5. QED
    BY <2>1, <2>2, <2>4, Zenon DEF RequestStream, RequestsOnWay
<1>4. CASE Requests!ReadSome
  <2>1. PICK n \in 1..Requests!Least(Requests!Missing, Len(w)) :
          r' = r \o SubSeq(w, 1, n) /\ w' = SubSeq(w, n + 1, Len(w))
    BY <1>4 DEF Requests!ReadSome, Requests!FirstOf, Requests!RestOf
  <2>2. UNCHANGED <<b, l>>
    BY <1>4 DEF Requests!ReadSome
  <2>3. n \in 1..Len(w)
    <3>1. Requests!Expected \in Nat
      BY DEF Requests!Expected, Requests!LenBytesLen, Payload
    <3>2. QED
      BY <1>1, <2>1, <3>1 DEF Requests!Least, Requests!Missing
  <2>4. /\ IsStream(RequestWindow, l, r \o SubSeq(w, 1, n), SubSeq(w, n + 1, Len(w)), b)
        /\ OnWay(l, r \o SubSeq(w, 1, n), SubSeq(w, n + 1, Len(w)), b) = OnWay(l, r, w, b)
    BY <1>1, <2>3, StreamReads DEF RequestStream
  <2>5. QED
    BY <2>1, <2>2, <2>4, Zenon DEF RequestStream, RequestsOnWay
<1>5. CASE Requests!TakeLength
  <2>1. /\ l = <<>> /\ Len(r) >= 2
        /\ l' = SubSeq(r, 1, 2) /\ r' = SubSeq(r, 2 + 1, Len(r)) /\ UNCHANGED <<b, w>>
    BY <1>1, <1>5 DEF Requests!TakeLength, Requests!Missing, Requests!Expected, Requests!LenBytesLen,
                     Requests!FirstOf, Requests!RestOf
  <2>2. IsStream(RequestWindow, <<>>, r, w, b)
    BY <2>1 DEF RequestStream
  <2>3. /\ IsStream(RequestWindow, SubSeq(r, 1, 2), SubSeq(r, 2 + 1, Len(r)), w, b)
        /\ OnWay(SubSeq(r, 1, 2), SubSeq(r, 2 + 1, Len(r)), w, b) = OnWay(<<>>, r, w, b)
    BY <1>1, <2>1, <2>2, StreamTakes
  <2>4. QED
    BY <2>1, <2>3, Zenon DEF RequestStream, RequestsOnWay
<1>6. QED
  BY <1>2, <1>3, <1>4, <1>5

LEMMA RequestSent ==
  ASSUME TcpAssumption, RequestStream, NEW t, Requests!Send(t)
  PROVE  RequestStream' /\ RequestsOnWay' = RequestsOnWay \o Frame(t)
<1>1. req_write_buf' = req_write_buf \o Frame(t) /\ UNCHANGED <<req_wire, req_read_buf, req_len_bytes>>
  BY SameFrames DEF Requests!Send
<1>2. RequestWindow \in Nat
  BY DEF TcpAssumption
<1>3. /\ IsStream(RequestWindow, req_len_bytes, req_read_buf, req_wire, req_write_buf \o Frame(t))
      /\ OnWay(req_len_bytes, req_read_buf, req_wire, req_write_buf \o Frame(t))
           = OnWay(req_len_bytes, req_read_buf, req_wire, req_write_buf) \o Frame(t)
  BY <1>2, StreamSends DEF RequestStream
<1>4. QED
  BY <1>1, <1>3, Zenon DEF RequestStream, RequestsOnWay

LEMMA RequestReceived ==
  ASSUME TcpAssumption, RequestStream, Requests!Receive
  PROVE  RequestStream' /\ RequestsOnWay = Frame(Requests!Object) \o RequestsOnWay'
<1> DEFINE n == Requests!Expected
           r == req_read_buf
<1>1. RequestWindow \in Nat
  BY DEF TcpAssumption
<1>2. n \in 0..Len(r)
  <2>1. Len(r) \in Nat
    BY IsSeqLength DEF RequestStream, IsStream, Buffers
  <2>2. n \in Nat
    BY DEF Requests!Expected, Requests!LenBytesLen, Payload
  <2>3. n - Len(r) <= 0
    BY DEF Requests!Receive, Requests!Missing
  <2> HIDE DEF n
  <2>4. QED
    BY <2>1, <2>2, <2>3
<1>3. /\ Completes(req_len_bytes, r, n, Requests!Object)
      /\ r' = SubSeq(r, n + 1, Len(r)) /\ req_len_bytes' = <<>>
      /\ UNCHANGED <<req_write_buf, req_wire>>
  BY SameFrames DEF Requests!Receive, Requests!FirstOf, Requests!RestOf, Completes
<1> HIDE DEF n
<1>4. /\ IsStream(RequestWindow, <<>>, SubSeq(r, n + 1, Len(r)), req_wire, req_write_buf)
      /\ OnWay(req_len_bytes, r, req_wire, req_write_buf)
           = Frame(Requests!Object) \o OnWay(<<>>, SubSeq(r, n + 1, Len(r)), req_wire, req_write_buf)
  BY <1>1, <1>2, <1>3, StreamReceives DEF RequestStream
<1>5. QED
  BY <1>3, <1>4, Zenon DEF RequestStream, RequestsOnWay

LEMMA RequestsFresh ==
  ASSUME TcpAssumption
  PROVE  /\ Requests!Fresh => RequestStream /\ RequestsOnWay = <<>>
         /\ Requests!Connect => RequestStream' /\ RequestsOnWay' = <<>>
<1>1. RequestWindow \in Nat
  BY DEF TcpAssumption
<1>2. IsStream(RequestWindow, <<>>, <<>>, <<>>, <<>>) /\ OnWay(<<>>, <<>>, <<>>, <<>>) = <<>>
  BY <1>1, StreamEmpty
<1>3. QED
  BY <1>2, Zenon DEF Requests!Fresh, Requests!Connect, RequestStream, RequestsOnWay

\* An end reads or writes, or nothing happens.
LEMMA ResponseKept ==
  ASSUME TcpAssumption, ResponseStream,
         \/ UNCHANGED respVars
         \/ Responses!WriteSome \/ Responses!ReadSome \/ Responses!TakeLength \/ Responses!Unread
  PROVE  ResponseStream' /\ ResponsesOnWay' = ResponsesOnWay
<1> DEFINE l == resp_len_bytes
           r == resp_read_buf
           w == resp_wire
           b == resp_write_buf
<1>1. ResponseWindow \in Nat /\ IsSeq(w) /\ IsSeq(b) /\ IsSeq(r)
      /\ Len(w) \in Nat /\ Len(b) \in Nat /\ Len(r) \in Nat
  BY IsSeqLength DEF TcpAssumption, ResponseStream, IsStream, Buffers
<1>2. CASE UNCHANGED respVars
  BY <1>2 DEF respVars, ResponseStream, ResponsesOnWay
<1>3. CASE Responses!WriteSome
  <2>1. PICK n \in 1..Responses!Least(Responses!Room, Len(b)) :
          w' = w \o SubSeq(b, 1, n) /\ b' = SubSeq(b, n + 1, Len(b))
    BY <1>3 DEF Responses!WriteSome, Responses!FirstOf, Responses!RestOf
  <2>2. UNCHANGED <<r, l>>
    BY <1>3 DEF Responses!WriteSome
  <2>3. n \in 1..Len(b) /\ n <= ResponseWindow - Len(w)
    BY <1>1, <2>1 DEF Responses!Least, Responses!Room
  <2>4. /\ IsStream(ResponseWindow, l, r, w \o SubSeq(b, 1, n), SubSeq(b, n + 1, Len(b)))
        /\ OnWay(l, r, w \o SubSeq(b, 1, n), SubSeq(b, n + 1, Len(b))) = OnWay(l, r, w, b)
    BY <1>1, <2>3, StreamWrites DEF ResponseStream
  <2>5. QED
    BY <2>1, <2>2, <2>4, Zenon DEF ResponseStream, ResponsesOnWay
<1>4. CASE Responses!ReadSome
  <2>1. PICK n \in 1..Responses!Least(Responses!Missing, Len(w)) :
          r' = r \o SubSeq(w, 1, n) /\ w' = SubSeq(w, n + 1, Len(w))
    BY <1>4 DEF Responses!ReadSome, Responses!FirstOf, Responses!RestOf
  <2>2. UNCHANGED <<b, l>>
    BY <1>4 DEF Responses!ReadSome
  <2>3. n \in 1..Len(w)
    <3>1. Responses!Expected \in Nat
      BY DEF Responses!Expected, Responses!LenBytesLen, Payload
    <3>2. QED
      BY <1>1, <2>1, <3>1 DEF Responses!Least, Responses!Missing
  <2>4. /\ IsStream(ResponseWindow, l, r \o SubSeq(w, 1, n), SubSeq(w, n + 1, Len(w)), b)
        /\ OnWay(l, r \o SubSeq(w, 1, n), SubSeq(w, n + 1, Len(w)), b) = OnWay(l, r, w, b)
    BY <1>1, <2>3, StreamReads DEF ResponseStream
  <2>5. QED
    BY <2>1, <2>2, <2>4, Zenon DEF ResponseStream, ResponsesOnWay
<1>5. CASE Responses!TakeLength
  <2>1. /\ l = <<>> /\ Len(r) >= 2
        /\ l' = SubSeq(r, 1, 2) /\ r' = SubSeq(r, 2 + 1, Len(r)) /\ UNCHANGED <<b, w>>
    BY <1>1, <1>5 DEF Responses!TakeLength, Responses!Missing, Responses!Expected, Responses!LenBytesLen,
                     Responses!FirstOf, Responses!RestOf
  <2>2. IsStream(ResponseWindow, <<>>, r, w, b)
    BY <2>1 DEF ResponseStream
  <2>3. /\ IsStream(ResponseWindow, SubSeq(r, 1, 2), SubSeq(r, 2 + 1, Len(r)), w, b)
        /\ OnWay(SubSeq(r, 1, 2), SubSeq(r, 2 + 1, Len(r)), w, b) = OnWay(<<>>, r, w, b)
    BY <1>1, <2>1, <2>2, StreamTakes
  <2>4. QED
    BY <2>1, <2>3, Zenon DEF ResponseStream, ResponsesOnWay
<1>6. CASE Responses!Unread
  <2>1. r' = l \o r /\ l' = <<>> /\ UNCHANGED <<b, w>>
    BY <1>6 DEF Responses!Unread
  <2>2. IsStream(ResponseWindow, <<>>, l \o r, w, b) /\ OnWay(<<>>, l \o r, w, b) = OnWay(l, r, w, b)
    BY <1>1, StreamUnreads DEF ResponseStream
  <2>3. QED
    BY <2>1, <2>2, Zenon DEF ResponseStream, ResponsesOnWay
<1>7. QED
  BY <1>2, <1>3, <1>4, <1>5, <1>6

LEMMA ResponseSent ==
  ASSUME TcpAssumption, ResponseStream, NEW t, Responses!Send(t)
  PROVE  ResponseStream' /\ ResponsesOnWay' = ResponsesOnWay \o Frame(t)
<1>1. resp_write_buf' = resp_write_buf \o Frame(t) /\ UNCHANGED <<resp_wire, resp_read_buf, resp_len_bytes>>
  BY SameFrames DEF Responses!Send
<1>2. ResponseWindow \in Nat
  BY DEF TcpAssumption
<1>3. /\ IsStream(ResponseWindow, resp_len_bytes, resp_read_buf, resp_wire, resp_write_buf \o Frame(t))
      /\ OnWay(resp_len_bytes, resp_read_buf, resp_wire, resp_write_buf \o Frame(t))
           = OnWay(resp_len_bytes, resp_read_buf, resp_wire, resp_write_buf) \o Frame(t)
  BY <1>2, StreamSends DEF ResponseStream
<1>4. QED
  BY <1>1, <1>3, Zenon DEF ResponseStream, ResponsesOnWay

LEMMA ResponseReceived ==
  ASSUME TcpAssumption, ResponseStream, Responses!Receive
  PROVE  ResponseStream' /\ ResponsesOnWay = Frame(Responses!Object) \o ResponsesOnWay'
<1> DEFINE n == Responses!Expected
           r == resp_read_buf
<1>1. ResponseWindow \in Nat
  BY DEF TcpAssumption
<1>2. n \in 0..Len(r)
  <2>1. Len(r) \in Nat
    BY IsSeqLength DEF ResponseStream, IsStream, Buffers
  <2>2. n \in Nat
    BY DEF Responses!Expected, Responses!LenBytesLen, Payload
  <2>3. n - Len(r) <= 0
    BY DEF Responses!Receive, Responses!Missing
  <2> HIDE DEF n
  <2>4. QED
    BY <2>1, <2>2, <2>3
<1>3. /\ Completes(resp_len_bytes, r, n, Responses!Object)
      /\ r' = SubSeq(r, n + 1, Len(r)) /\ resp_len_bytes' = <<>>
      /\ UNCHANGED <<resp_write_buf, resp_wire>>
  BY SameFrames DEF Responses!Receive, Responses!FirstOf, Responses!RestOf, Completes
<1> HIDE DEF n
<1>4. /\ IsStream(ResponseWindow, <<>>, SubSeq(r, n + 1, Len(r)), resp_wire, resp_write_buf)
      /\ OnWay(resp_len_bytes, r, resp_wire, resp_write_buf)
           = Frame(Responses!Object) \o OnWay(<<>>, SubSeq(r, n + 1, Len(r)), resp_wire, resp_write_buf)
  BY <1>1, <1>2, <1>3, StreamReceives DEF ResponseStream
<1>5. QED
  BY <1>3, <1>4, Zenon DEF ResponseStream, ResponsesOnWay

LEMMA ResponsesFresh ==
  ASSUME TcpAssumption
  PROVE  /\ Responses!Fresh => ResponseStream /\ ResponsesOnWay = <<>>
         /\ Responses!Connect => ResponseStream' /\ ResponsesOnWay' = <<>>
<1>1. ResponseWindow \in Nat
  BY DEF TcpAssumption
<1>2. IsStream(ResponseWindow, <<>>, <<>>, <<>>, <<>>) /\ OnWay(<<>>, <<>>, <<>>, <<>>) = <<>>
  BY <1>1, StreamEmpty
<1>3. QED
  BY <1>2, Zenon DEF Responses!Fresh, Responses!Connect, ResponseStream, ResponsesOnWay

\* An end that goes, and the network after it, cut off what comes last.
LEMMA RequestsCut ==
  ASSUME TcpAssumption, RequestStream,
         Requests!SenderGoes \/ (Requests!Reset /\ req_write_buf = <<>>)
  PROVE  /\ RequestStream'
         /\ \E rest : IsSeq(rest) /\ RequestsOnWay = RequestsOnWay' \o rest
<1> DEFINE l == req_len_bytes
           r == req_read_buf
           w == req_wire
           b == req_write_buf
<1>1. /\ Buffers(l, r, w, b) /\ Len(w) <= RequestWindow /\ Len(l) \in {0, 2}
      /\ IsSeq(b) /\ IsSeq(w) /\ Len(<<>>) <= RequestWindow
  BY EmptyIsSeq DEF RequestStream, IsStream, Buffers, TcpAssumption
<1>2. /\ Buffers(l, r, w, <<>>) /\ OnWay(l, r, w, b) = OnWay(l, r, w, <<>>) \o b
      /\ Buffers(l, r, <<>>, <<>>)
      /\ OnWay(l, r, w, <<>>) = OnWay(l, r, <<>>, <<>>) \o w
  BY <1>1, CutOff
<1>3. CASE Requests!SenderGoes
  <2>1. b' = <<>> /\ UNCHANGED <<l, r, w>>
    BY <1>3 DEF Requests!SenderGoes
  <2>2. QED
    BY <1>1, <1>2, <2>1, Zenon DEF RequestStream, IsStream, RequestsOnWay
<1>4. CASE Requests!Reset /\ b = <<>>
  <2>1. w' = <<>> /\ b' = <<>> /\ b = <<>> /\ UNCHANGED <<l, r>>
    BY <1>4 DEF Requests!Reset
  <2>2. QED
    BY <1>1, <1>2, <2>1, Zenon DEF RequestStream, IsStream, RequestsOnWay
<1>5. QED
  BY <1>3, <1>4

LEMMA ResponsesCut ==
  ASSUME TcpAssumption, ResponseStream, Responses!SenderGoes \/ Responses!ReceiverGoes
  PROVE  ResponseStream'
BY EmptyIsSeq DEF ResponseStream, IsStream, Buffers, Responses!SenderGoes,
                  Responses!ReceiverGoes, TcpAssumption

-----------------------------------------------------------------------------
(* The inductive invariant. *)

\* A server that is there finds frames, and they are complete unless the client
\* has gone and left nothing unsent; so does a client.
Framing ==
  /\ RequestStream /\ ResponseStream
  /\ Serves => Framed(RequestsOnWay)
  /\ client # "gone" => Framed(ResponsesOnWay)
  /\ Connected => Ends(RequestsOnWay) /\ Ends(ResponsesOnWay)
  /\ client = "gone" => req_write_buf = <<>>

IsRequest(m) ==
  /\ m.type \in {"PushInternalProofs", "Step", "Sync", "Shutdown"}
  /\ Bears(m) <=> m.type = "PushInternalProofs"
  /\ Bears(m) => m.id \in Nat /\ Len(m.proofs) \in Nat

IsResponse(m) ==
  /\ m.type \in {"RecursiveProof", "ProofThroughput", "PendingQueueSize"}
  /\ Bears(m) <=> m.type = "RecursiveProof"
  /\ m.type = "PendingQueueSize" => m.delta \in Nat /\ m.size \in Nat

Typed ==
  /\ client \in {"ready", "flush", "receive", "shutdown", "closing", "gone"}
  /\ server \in {"accept", "receive", "report", "size", "panicked"}
  /\ outer_pending_queue_size \in Nat /\ inner_pending_queue_size \in Nat
  /\ internal_proofs_pushed \in Nat
  /\ \A i \in DOMAIN batch_aliases : batch_aliases[i] \in Nat
  /\ \A m \in Messages(RequestsOnWay) : IsRequest(m)
  /\ client # "gone" => \A m \in Messages(ResponsesOnWay) : IsResponse(m)

SizesOK ==
  Connected =>
    outer_pending_queue_size = Carried(RequestsOnWay) + Carried(ResponsesOnWay) + Unreported

\* A client uses an id once, and no two clients have a key in common.
AskedOK ==
  /\ connection \in Nat /\ free_batch_id \in Nat
  /\ \A k \in DOMAIN asked :
       /\ k[1] \in Nat /\ k[1] <= connection
       /\ k[1] = connection => k[2] \in Nat /\ k[2] < free_batch_id
       /\ \E n \in Sizes : asked[k] = Leaves(k, n)
  /\ DOMAIN given \subseteq DOMAIN asked

\* The ids that the aggregator of the server gives are new, also for batches of
\* clients that have gone.
QueuesOK ==
  /\ next_inner_id \in Nat
  /\ IsSeq(internal_queue) /\ IsSeq(completed_proofs)
  /\ \A b \in ToSet(internal_queue) :
       b.id \in Nat /\ b.id < next_inner_id /\ Len(b.proofs) \in Nat
  /\ \A c \in ToSet(completed_proofs) : c.id \in Nat /\ c.id < next_inner_id

RequestsKnown ==
  \A m \in Messages(RequestsOnWay) :
    Bears(m) => /\ Qualified(m.id) \in DOMAIN asked
                /\ m.proofs = BatchOf(asked[Qualified(m.id)])

ResponsesKnown ==
  \A m \in Messages(ResponsesOnWay) :
    Bears(m) => Qualified(m.id) \in DOMAIN asked /\ m.node = asked[Qualified(m.id)]

ProofsKnown ==
  /\ Listed(recursive_proofs)
  /\ \A r \in ToSet(recursive_proofs) :
       /\ Bears(r) /\ Qualified(r.id) \in DOMAIN asked
       /\ r.node = asked[Qualified(r.id)]

\* What the server has an alias for is a batch of the client that is there.
AliasesKnown ==
  /\ \A i \in DOMAIN batch_aliases : Qualified(batch_aliases[i]) \in DOMAIN asked
  /\ \A i, j \in DOMAIN batch_aliases : batch_aliases[i] = batch_aliases[j] => i = j
  /\ \A b \in ToSet(internal_queue) :
       b.id \in DOMAIN batch_aliases => b.proofs = BatchOf(asked[Qualified(batch_aliases[b.id])])
  /\ \A c \in ToSet(completed_proofs) :
       c.id \in DOMAIN batch_aliases => c.node = asked[Qualified(batch_aliases[c.id])]

Working == {batch_aliases[i] : i \in DOMAIN batch_aliases}

\* A batch is in one place at most, and nowhere after it was answered.
OnePlace ==
  /\ NamedOnce(RequestsOnWay) /\ NamedOnce(ResponsesOnWay)
  /\ Names(RequestsOnWay) \cap (Working \cup Names(ResponsesOnWay) \cup Ids(recursive_proofs)) = {}
  /\ Working \cap (Names(ResponsesOnWay) \cup Ids(recursive_proofs)) = {}
  /\ Names(ResponsesOnWay) \cap Ids(recursive_proofs) = {}
  /\ \A id \in Names(RequestsOnWay) \cup Working \cup Names(ResponsesOnWay) \cup Ids(recursive_proofs) :
       Qualified(id) \notin DOMAIN given

Known == RequestsKnown /\ ResponsesKnown /\ ProofsKnown /\ AliasesKnown /\ OnePlace

AnswersOK == AskedOK /\ QueuesOK /\ (client # "gone" => Known)

IInv == Framing /\ Typed /\ SizesOK /\ AnswersOK

ContractStep == [Contract!Next]_<<asked, given>>

-----------------------------------------------------------------------------
(* What one message more or less on the way changes. *)

IsSent(before, after, t) == IsSeq(before) /\ after = before \o Frame(t)
IsReceived(before, after, t) == IsSeq(after) /\ before = Frame(t) \o after

LEMMA SentIs ==
  ASSUME NEW before, NEW after, NEW t, IsSent(before, after, t)
  PROVE  /\ IsSeq(after) /\ Messages(after) = Messages(before) \cup {t}
         /\ Framed(before) /\ Ends(before) => Framed(after) /\ Ends(after)
         /\ Names(after) = IF Bears(t) THEN Names(before) \cup {t.id} ELSE Names(before)
         /\ NamedOnce(before) /\ (Bears(t) => t.id \notin Names(before)) => NamedOnce(after)
<1> DEFINE f == Frame(t)
<1>1. /\ IsSeq(before) /\ IsSeq(f) /\ after = before \o f
      /\ Framed(f) /\ Ends(f) /\ Messages(f) = {t} /\ NamedOnce(f)
      /\ Names(f) = IF Bears(t) THEN {t.id} ELSE {}
  BY FrameOK, MessagesOfFrame, NamesOfFrame DEF IsSent
<1> HIDE DEF f
<1>2. IsSeq(before \o f)
  BY <1>1, ConcatIsSeq
<1>3. Messages(before \o f) = Messages(before) \cup Messages(f)
  BY <1>1, MessagesConcat
<1>4. Framed(before) /\ Ends(before) => Framed(before \o f) /\ Ends(before \o f)
  BY <1>1, ConcatFrames
<1>5. /\ Names(before \o f) = Names(before) \cup Names(f)
      /\ NamedOnce(before \o f)
           <=> NamedOnce(before) /\ NamedOnce(f) /\ Names(before) \cap Names(f) = {}
  BY <1>1, NamesConcat
<1>6. QED
  BY <1>1, <1>2, <1>3, <1>4, <1>5

LEMMA ReceivedIs ==
  ASSUME NEW before, NEW after, NEW t, IsReceived(before, after, t)
  PROVE  /\ IsSeq(after) /\ Messages(before) = Messages(after) \cup {t}
         /\ Framed(before) => Framed(after)
         /\ Framed(before) /\ Ends(before) => Ends(after)
         /\ Names(before) = IF Bears(t) THEN Names(after) \cup {t.id} ELSE Names(after)
         /\ NamedOnce(before) => NamedOnce(after) /\ (Bears(t) => t.id \notin Names(after))
<1> DEFINE f == Frame(t)
<1>1. /\ IsSeq(after) /\ IsSeq(f) /\ before = f \o after
      /\ Messages(f) = {t}
      /\ Names(f) = IF Bears(t) THEN {t.id} ELSE {}
  BY FrameOK, MessagesOfFrame, NamesOfFrame DEF IsReceived
<1>2. (Framed(before) => Framed(after)) /\ (Framed(before) /\ Ends(before) => Ends(after))
  BY <1>1, SuffixFrames
<1> HIDE DEF f
<1>3. Messages(f \o after) = Messages(f) \cup Messages(after)
  BY <1>1, MessagesConcat
<1>4. /\ Names(f \o after) = Names(f) \cup Names(after)
      /\ NamedOnce(f \o after)
           <=> NamedOnce(f) /\ NamedOnce(after) /\ Names(f) \cap Names(after) = {}
  BY <1>1, NamesConcat
<1>5. QED
  BY <1>1, <1>2, <1>3, <1>4

LEMMA CutIs ==
  ASSUME NEW after, IsSeq(after), NEW rest, IsSeq(rest)
  PROVE  /\ Messages(after) \subseteq Messages(after \o rest)
         /\ Framed(after \o rest) => Framed(after)
BY MessagesConcat, PrefixFrames

LEMMA CarriedSent ==
  ASSUME NEW before, NEW after, NEW t, IsSent(before, after, t), Counts(t),
         \A m \in Messages(before) : Counts(m)
  PROVE  /\ Carried(after) = Carried(before) + Proofs(t)
         /\ Carried(before) \in Nat /\ Carried(after) \in Nat
<1> DEFINE f == Frame(t)
<1>1. IsSeq(before) /\ IsSeq(f) /\ Messages(f) = {t} /\ Carried(f) = Proofs(t)
  BY FrameOK, MessagesOfFrame, CarriedByFrame DEF IsSent
<1>2. after = before \o f
  BY DEF IsSent
<1> HIDE DEF f
<1>3. Carried(before \o f) = Carried(before) + Carried(f) /\ Carried(before) \in Nat
  BY <1>1, CarriedConcat
<1>4. QED
  BY <1>1, <1>2, <1>3 DEF Counts

LEMMA CarriedReceived ==
  ASSUME NEW before, NEW after, NEW t, IsReceived(before, after, t), Counts(t),
         \A m \in Messages(after) : Counts(m)
  PROVE  /\ Carried(before) = Proofs(t) + Carried(after)
         /\ Carried(before) \in Nat /\ Carried(after) \in Nat
<1> DEFINE f == Frame(t)
<1>1. IsSeq(after) /\ IsSeq(f) /\ Messages(f) = {t} /\ Carried(f) = Proofs(t)
  BY FrameOK, MessagesOfFrame, CarriedByFrame DEF IsReceived
<1>2. before = f \o after
  BY DEF IsReceived
<1> HIDE DEF f
<1>3. Carried(f \o after) = Carried(f) + Carried(after) /\ Carried(after) \in Nat
  BY <1>1, CarriedConcat
<1>4. QED
  BY <1>1, <1>2, <1>3 DEF Counts

LEMMA MessagesCount ==
  /\ \A m : IsRequest(m) \/ IsResponse(m) => Counts(m)
  /\ \A m : m.type = "PushInternalProofs" => Proofs(m) = Len(m.proofs)
  /\ \A m : m.type = "PendingQueueSize" => Proofs(m) = m.delta
  /\ \A m : m.type \notin {"PushInternalProofs", "PendingQueueSize"} => Proofs(m) = 0
BY DEF IsRequest, IsResponse, Counts, Proofs

\* No batch comes or goes.
SameNames(before, after) ==
  /\ NamedOnce(before) => NamedOnce(after)
  /\ Names(after) = Names(before)
  /\ \A m \in Messages(after) : Bears(m) => m \in Messages(before)

LEMMA QuietNames ==
  /\ \A before : SameNames(before, before)
  /\ \A before, after, t : IsSent(before, after, t) /\ ~Bears(t) => SameNames(before, after)
  /\ \A before, after, t : IsReceived(before, after, t) /\ ~Bears(t) => SameNames(before, after)
<1>1. \A before : SameNames(before, before)
  BY DEF SameNames
<1>2. ASSUME NEW before, NEW after, NEW t, IsSent(before, after, t), ~Bears(t)
      PROVE  SameNames(before, after)
  BY <1>2, SentIs DEF SameNames
<1>3. ASSUME NEW before, NEW after, NEW t, IsReceived(before, after, t), ~Bears(t)
      PROVE  SameNames(before, after)
  BY <1>3, ReceivedIs DEF SameNames
<1>4. QED
  BY <1>1, <1>2, <1>3

-----------------------------------------------------------------------------
(* What a step leaves as it is. *)

\* The client sends as long as it is there: to a server that has gone it may
\* send what it likes, and otherwise what it sent before ends with a frame.
\* The server sends as long as it is there.
LEMMA FramingStep ==
  ASSUME Framing, RequestStream', ResponseStream',
         Serves' => Serves, client' # "gone" => client # "gone",
         client' = "gone" => req_write_buf' = <<>>,
         \/ RequestsOnWay' = RequestsOnWay
         \/ client' # "gone" /\ \E t : IsSent(RequestsOnWay, RequestsOnWay', t)
         \/ \E t : IsReceived(RequestsOnWay, RequestsOnWay', t),
         \/ ResponsesOnWay' = ResponsesOnWay
         \/ Serves' /\ \E t : IsSent(ResponsesOnWay, ResponsesOnWay', t)
         \/ \E t : IsReceived(ResponsesOnWay, ResponsesOnWay', t)
  PROVE  Framing'
<1>1. (Connected' <=> client' # "gone" /\ Serves') /\ (Connected <=> client # "gone" /\ Serves)
  BY DEF Connected
<1>2. /\ Serves' => Framed(RequestsOnWay')
      /\ Connected' => Ends(RequestsOnWay')
  <2>1. CASE RequestsOnWay' = RequestsOnWay
    BY <1>1, <2>1 DEF Framing
  <2>2. ASSUME client' # "gone", NEW t, IsSent(RequestsOnWay, RequestsOnWay', t)
        PROVE  Serves' => Framed(RequestsOnWay') /\ Ends(RequestsOnWay')
    <3>1. SUFFICES ASSUME Serves' PROVE Framed(RequestsOnWay') /\ Ends(RequestsOnWay')
      OBVIOUS
    <3>2. Framed(RequestsOnWay) /\ Ends(RequestsOnWay)
      BY <1>1, <2>2, <3>1 DEF Framing
    <3>3. QED
      BY <2>2, <3>2, SentIs
  <2>3. ASSUME NEW t, IsReceived(RequestsOnWay, RequestsOnWay', t)
        PROVE  /\ Framed(RequestsOnWay) => Framed(RequestsOnWay')
               /\ Framed(RequestsOnWay) /\ Ends(RequestsOnWay) => Ends(RequestsOnWay')
    BY <2>3, ReceivedIs
  <2>4. QED
    BY <1>1, <2>1, <2>2, <2>3 DEF Framing
<1>3. /\ client' # "gone" => Framed(ResponsesOnWay')
      /\ Connected' => Ends(ResponsesOnWay')
  <2>1. CASE ResponsesOnWay' = ResponsesOnWay
    BY <1>1, <2>1 DEF Framing
  <2>2. ASSUME Serves', NEW t, IsSent(ResponsesOnWay, ResponsesOnWay', t)
        PROVE  client' # "gone" => Framed(ResponsesOnWay') /\ Ends(ResponsesOnWay')
    <3>1. SUFFICES ASSUME client' # "gone" PROVE Framed(ResponsesOnWay') /\ Ends(ResponsesOnWay')
      OBVIOUS
    <3>2. Framed(ResponsesOnWay) /\ Ends(ResponsesOnWay)
      BY <1>1, <2>2, <3>1 DEF Framing
    <3>3. QED
      BY <2>2, <3>2, SentIs
  <2>3. ASSUME NEW t, IsReceived(ResponsesOnWay, ResponsesOnWay', t)
        PROVE  /\ Framed(ResponsesOnWay) => Framed(ResponsesOnWay')
               /\ Framed(ResponsesOnWay) /\ Ends(ResponsesOnWay) => Ends(ResponsesOnWay')
    BY <2>3, ReceivedIs
  <2>4. QED
    BY <1>1, <2>1, <2>2, <2>3 DEF Framing
<1>4. QED
  BY <1>2, <1>3 DEF Framing

\* No batch moves.
LEMMA QuietAnswers ==
  ASSUME AnswersOK, client' # "gone" => client # "gone",
         client' # "gone" => SameNames(RequestsOnWay, RequestsOnWay'),
         client' # "gone" => SameNames(ResponsesOnWay, ResponsesOnWay'),
         UNCHANGED <<caller, connection, free_batch_id, recursive_proofs, batch_aliases, inner>>
  PROVE  AnswersOK' /\ ContractStep
<1>1. UNCHANGED <<asked, given, connection, free_batch_id, recursive_proofs, batch_aliases,
                 internal_queue, completed_proofs, next_inner_id>>
  BY DEF caller, inner
<1>2. AskedOK' /\ QueuesOK' /\ ContractStep
  BY <1>1 DEF AnswersOK, AskedOK, QueuesOK, ContractStep
<1>3. \A id : Qualified(id)' = Qualified(id)
  BY <1>1 DEF Qualified
<1>4. ASSUME client' # "gone" PROVE Known'
  <2>1. /\ RequestsKnown /\ ResponsesKnown /\ ProofsKnown /\ AliasesKnown /\ OnePlace
        /\ SameNames(RequestsOnWay, RequestsOnWay') /\ SameNames(ResponsesOnWay, ResponsesOnWay')
    BY <1>4 DEF AnswersOK, Known
  <2>2. RequestsKnown' /\ ResponsesKnown'
    BY <1>1, <1>3, <2>1 DEF RequestsKnown, ResponsesKnown, SameNames
  <2>3. ProofsKnown' /\ AliasesKnown'
    BY <1>1, <1>3, <2>1 DEF ProofsKnown, AliasesKnown
  <2>4. Working' = Working
    BY <1>1 DEF Working
  <2>5. OnePlace'
    BY <1>1, <1>3, <2>1, <2>4 DEF OnePlace, SameNames
  <2>6. QED
    BY <2>2, <2>3, <2>5 DEF Known
<1>5. QED
  BY <1>2, <1>4 DEF AnswersOK

\* An end reads, writes or waits.
LEMMA QuietOK ==
  ASSUME IInv, RequestStream', ResponseStream',
         RequestsOnWay' = RequestsOnWay, ResponsesOnWay' = ResponsesOnWay,
         client' \in {"ready", "flush", "receive", "shutdown", "closing", "gone"},
         client' = "gone" <=> client = "gone", client' = "gone" => req_write_buf' = <<>>,
         UNCHANGED <<caller, connection, free_batch_id, fields, serverVars>>
  PROVE  IInv' /\ ContractStep
<1>1. UNCHANGED <<caller, connection, free_batch_id, outer_pending_queue_size,
                 inner_pending_queue_size, recursive_proofs, server, batch_aliases,
                 internal_proofs_pushed, inner>>
  BY DEF fields, serverVars
<1>2. (Serves' <=> Serves) /\ (Connected' <=> Connected) /\ Unreported' = Unreported
  BY <1>1 DEF Serves, Connected, Unreported
<1>3. Framing'
  BY <1>2, FramingStep DEF IInv
<1>4. Typed'
  BY <1>1 DEF IInv, Typed
<1>5. SizesOK'
  BY <1>1, <1>2 DEF IInv, SizesOK
<1>6. AnswersOK' /\ ContractStep
  BY <1>1, QuietNames, QuietAnswers DEF IInv
<1>7. QED
  BY <1>3, <1>4, <1>5, <1>6 DEF IInv

\* A request that moves no proofs.
LEMMA TellOK ==
  ASSUME IInv, RequestStream', ResponseStream',
         NEW t, IsSent(RequestsOnWay, RequestsOnWay', t),
         IsRequest(t), ~Bears(t), Proofs(t) = 0, ResponsesOnWay' = ResponsesOnWay,
         client # "gone", client' \in {"ready", "flush", "receive", "shutdown", "closing"},
         UNCHANGED <<caller, connection, free_batch_id, fields, serverVars>>
  PROVE  IInv' /\ ContractStep
<1>1. UNCHANGED <<caller, connection, free_batch_id, outer_pending_queue_size,
                 inner_pending_queue_size, recursive_proofs, server, batch_aliases,
                 internal_proofs_pushed, inner>> /\ client' # "gone"
  BY DEF fields, serverVars
<1>2. (Serves' <=> Serves) /\ (Connected' <=> Connected) /\ Unreported' = Unreported
  BY <1>1 DEF Serves, Connected, Unreported
<1>3. Framing'
  BY <1>1, <1>2, FramingStep DEF IInv
<1>4. Messages(RequestsOnWay') = Messages(RequestsOnWay) \cup {t}
  BY SentIs
<1>5. Typed'
  BY <1>1, <1>4 DEF IInv, Typed
<1>6. Carried(RequestsOnWay') = Carried(RequestsOnWay)
  <2>1. Counts(t) /\ \A m \in Messages(RequestsOnWay) : Counts(m)
    BY MessagesCount DEF IInv, Typed
  <2>2. Carried(RequestsOnWay') = Carried(RequestsOnWay) + 0 /\ Carried(RequestsOnWay) \in Nat
    BY <2>1, CarriedSent
  <2>3. QED
    BY <2>2
<1>7. SizesOK'
  BY <1>1, <1>2, <1>6 DEF IInv, SizesOK
<1>8. AnswersOK' /\ ContractStep
  <2>1. SameNames(RequestsOnWay, RequestsOnWay') /\ SameNames(ResponsesOnWay, ResponsesOnWay')
    BY QuietNames
  <2>2. QED
    BY <1>1, <2>1, QuietAnswers DEF IInv
<1>9. QED
  BY <1>3, <1>5, <1>7, <1>8 DEF IInv

\* A response without an answer; it may report what was taken over.
LEMMA ReportOK ==
  ASSUME IInv, RequestStream', ResponseStream',
         NEW t, IsSent(ResponsesOnWay, ResponsesOnWay', t),
         IsResponse(t), ~Bears(t), RequestsOnWay' = RequestsOnWay, UNCHANGED req_write_buf,
         Serves, Unreported = Proofs(t) + Unreported',
         server' \in {"receive", "report", "size"},
         UNCHANGED <<caller, clientVars, batch_aliases, internal_proofs_pushed, inner>>
  PROVE  IInv' /\ ContractStep
<1>1. UNCHANGED <<caller, client, connection, free_batch_id, outer_pending_queue_size,
                 inner_pending_queue_size, recursive_proofs, batch_aliases,
                 internal_proofs_pushed, inner>>
  BY DEF clientVars, fields
<1>2. Serves' /\ (Connected' <=> Connected)
  BY <1>1 DEF Serves, Connected
<1>3. Framing'
  <2>1. client' = "gone" => req_write_buf' = <<>>
    BY <1>1 DEF IInv, Framing
  <2>2. QED
    BY <1>1, <1>2, <2>1, FramingStep DEF IInv
<1>4. Messages(ResponsesOnWay') = Messages(ResponsesOnWay) \cup {t}
  BY SentIs
<1>5. Typed'
  BY <1>1, <1>4 DEF IInv, Typed
<1>6. SizesOK'
  <2>1. SUFFICES ASSUME Connected
                 PROVE  outer_pending_queue_size
                          = Carried(RequestsOnWay) + Carried(ResponsesOnWay') + Unreported'
    BY <1>1, <1>2 DEF SizesOK
  <2>2. /\ Counts(t) /\ \A m \in Messages(ResponsesOnWay) : Counts(m)
        /\ \A m \in Messages(RequestsOnWay) : Counts(m)
    BY <2>1, MessagesCount DEF IInv, Typed, Connected
  <2>3. /\ Carried(ResponsesOnWay') = Carried(ResponsesOnWay) + Proofs(t)
        /\ Carried(ResponsesOnWay) \in Nat /\ Proofs(t) \in Nat
    BY <2>2, CarriedSent DEF Counts
  <2>4. Carried(RequestsOnWay) \in Nat
    <3>1. IsSeq(RequestsOnWay)
      BY StreamsTyped DEF IInv, Framing
    <3>2. QED
      BY <2>2, <3>1, NoMessages, CarriedConcat
  <2>5. outer_pending_queue_size
          = Carried(RequestsOnWay) + Carried(ResponsesOnWay) + Unreported
    BY <2>1 DEF IInv, SizesOK
  <2>6. Unreported' \in Nat
    BY <1>5 DEF Typed, Unreported
  <2>7. QED
    BY <2>3, <2>4, <2>5, <2>6
<1>7. AnswersOK' /\ ContractStep
  <2>1. SameNames(RequestsOnWay, RequestsOnWay') /\ SameNames(ResponsesOnWay, ResponsesOnWay')
    BY QuietNames
  <2>2. QED
    BY <1>1, <2>1, QuietAnswers DEF IInv
<1>8. QED
  BY <1>3, <1>5, <1>6, <1>7 DEF IInv

-----------------------------------------------------------------------------
(* The steps of the client. *)

LEMMA InitOK == Init => IInv /\ Contract!Init
<1> SUFFICES ASSUME Init PROVE IInv /\ Contract!Init
  OBVIOUS
<1>1. RequestStream /\ ResponseStream /\ RequestsOnWay = <<>> /\ ResponsesOnWay = <<>>
  BY TcpAssumption, RequestsFresh, ResponsesFresh DEF Init
<1>2. Messages(<<>>) = {} /\ DOMAIN <<>> = {} /\ IsSeq(<<>>) /\ ToSet(<<>>) = {}
  BY NoMessages, EmptyIds
<1>3. ~Serves /\ ~Connected
  BY DEF Init, Serves, Connected
<1>4. Framing
  BY <1>1, <1>3 DEF Init, Framing, Requests!Fresh
<1>5. Typed
  BY <1>1, <1>2 DEF Init, Typed
<1>6. SizesOK
  BY <1>3 DEF SizesOK
<1>7. AskedOK
  BY <1>2 DEF Init, AskedOK
<1>8. QueuesOK
  BY <1>2, TcpAssumption DEF Init, QueuesOK, TcpAssumption
<1>9. QED
  BY <1>4, <1>5, <1>6, <1>7, <1>8 DEF Init, IInv, AnswersOK, Contract!Init

LEMMA ConnectOK ==
  ASSUME IInv, Connect
  PROVE  IInv' /\ ContractStep
<1>1. /\ client' = "ready" /\ server' = "receive" /\ connection' = connection + 1 /\ free_batch_id' = 1
      /\ outer_pending_queue_size' = 0 /\ inner_pending_queue_size' = 0 /\ recursive_proofs' = <<>>
      /\ batch_aliases' = <<>> /\ UNCHANGED <<asked, given, internal_proofs_pushed,
                                             internal_queue, completed_proofs, next_inner_id>>
  BY DEF Connect, ForgetAliases, caller, inner
<1>2. RequestStream' /\ ResponseStream' /\ RequestsOnWay' = <<>> /\ ResponsesOnWay' = <<>>
  BY TcpAssumption, RequestsFresh, ResponsesFresh DEF Connect
<1>3. /\ Messages(<<>>) = {} /\ Names(<<>>) = {} /\ NamedOnce(<<>>) /\ Carried(<<>>) = 0
      /\ DOMAIN <<>> = {} /\ IsSeq(<<>>) /\ OnceEach(<<>>) /\ ToSet(<<>>) = {} /\ Ids(<<>>) = {}
  BY NoMessages, EmptyIds
<1>4. Framed(<<>>) /\ Ends(<<>>)
  BY DEF Framed, Ends
<1>5. Framing'
  BY <1>1, <1>2, <1>4 DEF Framing, Connected
<1>6. Typed'
  BY <1>1, <1>2, <1>3 DEF IInv, Typed
<1>7. SizesOK'
  BY <1>1, <1>2, <1>3 DEF SizesOK, Unreported
<1>8. AskedOK'
  <2>1. connection \in Nat /\ \A k \in DOMAIN asked : k[1] \in Nat /\ k[1] <= connection
    BY DEF IInv, AnswersOK, AskedOK
  <2>2. \A k \in DOMAIN asked : k[1] <= connection + 1 /\ k[1] # connection + 1
    BY <2>1
  <2>3. QED
    BY <1>1, <2>1, <2>2 DEF IInv, AnswersOK, AskedOK
<1>9. QueuesOK'
  BY <1>1 DEF IInv, AnswersOK, QueuesOK
<1>10. RequestsKnown' /\ ResponsesKnown' /\ ProofsKnown' /\ AliasesKnown'
  BY <1>1, <1>2, <1>3 DEF RequestsKnown, ResponsesKnown, ProofsKnown, AliasesKnown, Listed
<1>11. Working' = {}
  BY <1>1, <1>3 DEF Working
<1>12. OnePlace'
  BY <1>1, <1>2, <1>3, <1>11 DEF OnePlace
<1>13. ContractStep
  BY <1>1 DEF ContractStep
<1>14. QED
  BY <1>5, <1>6, <1>7, <1>8, <1>9, <1>10, <1>12, <1>13 DEF IInv, AnswersOK, Known

LEMMA PushOK ==
  ASSUME IInv, NEW n \in Sizes, Push(n)
  PROVE  IInv' /\ ContractStep
<1> DEFINE id == free_batch_id
           key == Qualified(id)
           leaves == Leaves(key, n)
           t == PushInternalProofs(id, BatchOf(leaves))
<1>1. /\ client = "ready" /\ client' = "flush" /\ free_batch_id' = id + 1
      /\ asked' = With(asked, key, leaves) /\ Requests!Send(t)
      /\ outer_pending_queue_size' = outer_pending_queue_size + n
      /\ UNCHANGED <<given, connection, inner_pending_queue_size, recursive_proofs, respVars,
                     server, batch_aliases, internal_proofs_pushed, internal_queue,
                     completed_proofs, next_inner_id>>
  BY DEF Push, serverVars, inner
<1>2. n \in Nat
  BY BatchesAssumption DEF BatchesAssumption
<1>3. Len(BatchOf(leaves)) = n
  BY <1>2, LeavesLength
<1>4. /\ t.type = "PushInternalProofs" /\ Bears(t) /\ t.id = id /\ t.proofs = BatchOf(leaves)
      /\ Proofs(t) = n
  <2>1. t.type = "PushInternalProofs" /\ Bears(t) /\ t.id = id /\ t.proofs = BatchOf(leaves)
    BY DEF PushInternalProofs, Bears
  <2>2. QED
    BY <1>3, <2>1, MessagesCount
<1>5. id \in Nat /\ connection \in Nat
  BY DEF IInv, AnswersOK, AskedOK
<1>6. key = <<connection, id>> /\ key[1] = connection /\ key[2] = id
  BY DEF Qualified
<1> HIDE DEF t, key, leaves
<1>7. IsRequest(t) /\ Counts(t)
  BY <1>2, <1>3, <1>4, <1>5 DEF IsRequest, Counts
<1>8. /\ RequestStream' /\ IsSent(RequestsOnWay, RequestsOnWay', t)
      /\ ResponseStream' /\ ResponsesOnWay' = ResponsesOnWay
  <2>1. RequestStream /\ ResponseStream
    BY DEF IInv, Framing
  <2>2. RequestStream' /\ RequestsOnWay' = RequestsOnWay \o Frame(t)
    BY <1>1, <2>1, TcpAssumption, RequestSent
  <2>3. QED
    BY <1>1, <2>1, <2>2, TcpAssumption, ResponseKept, StreamsTyped DEF IsSent
<1>9. /\ Messages(RequestsOnWay') = Messages(RequestsOnWay) \cup {t}
      /\ Names(RequestsOnWay') = Names(RequestsOnWay) \cup {id}
      /\ NamedOnce(RequestsOnWay) /\ id \notin Names(RequestsOnWay) => NamedOnce(RequestsOnWay')
  BY <1>4, <1>8, SentIs
<1>10. (Serves' <=> Serves) /\ (Connected' <=> Connected) /\ Unreported' = Unreported
       /\ client # "gone" /\ client' # "gone"
  BY <1>1 DEF Serves, Connected, Unreported
<1>11. Framing'
  BY <1>8, <1>10, FramingStep DEF IInv
<1>12. Typed'
  <2>1. outer_pending_queue_size' \in Nat
    BY <1>1, <1>2 DEF IInv, Typed
  <2>2. QED
    BY <1>1, <1>7, <1>8, <1>9, <2>1 DEF IInv, Typed
<1>13. SizesOK'
  <2>1. SUFFICES ASSUME Connected
                 PROVE  outer_pending_queue_size + n
                          = Carried(RequestsOnWay') + Carried(ResponsesOnWay) + Unreported
    BY <1>1, <1>8, <1>10 DEF SizesOK
  <2>2. \A m \in Messages(RequestsOnWay) \cup Messages(ResponsesOnWay) : Counts(m)
    BY <1>10, MessagesCount DEF IInv, Typed
  <2>3. Carried(RequestsOnWay') = Carried(RequestsOnWay) + n /\ Carried(RequestsOnWay) \in Nat
    BY <1>4, <1>7, <1>8, <2>2, CarriedSent
  <2>4. Carried(ResponsesOnWay) \in Nat
    BY <2>2, CarriedNat DEF IInv, Framing
  <2>5. outer_pending_queue_size = Carried(RequestsOnWay) + Carried(ResponsesOnWay) + Unreported
    BY <2>1 DEF IInv, SizesOK
  <2>6. Unreported \in Nat
    BY DEF IInv, Typed, Unreported
  <2>7. QED
    BY <1>2, <2>3, <2>4, <2>5, <2>6
<1>14. key \notin DOMAIN asked
  BY <1>5, <1>6 DEF IInv, AnswersOK, AskedOK
<1>15. /\ DOMAIN asked' = DOMAIN asked \cup {key} /\ asked'[key] = leaves
       /\ \A k \in DOMAIN asked : asked'[k] = asked[k]
  BY <1>1, <1>14 DEF With
<1>16. AskedOK'
  <2>1. ASSUME NEW k \in DOMAIN asked'
        PROVE  /\ k[1] \in Nat /\ k[1] <= connection
               /\ k[1] = connection => k[2] \in Nat /\ k[2] < id + 1
               /\ \E z \in Sizes : asked'[k] = Leaves(k, z)
    <3>1. CASE k \in DOMAIN asked
      BY <1>5, <1>15, <3>1 DEF IInv, AnswersOK, AskedOK
    <3>2. CASE k = key
      BY <1>5, <1>6, <1>15, <3>2 DEF leaves
    <3>3. QED
      BY <1>15, <2>1, <3>1, <3>2
  <2>2. DOMAIN given' \subseteq DOMAIN asked'
    BY <1>1, <1>15 DEF IInv, AnswersOK, AskedOK
  <2>3. QED
    BY <1>1, <1>5, <2>1, <2>2 DEF AskedOK
<1>17. QueuesOK'
  BY <1>1 DEF IInv, AnswersOK, QueuesOK
<1>18. Known /\ \A i : Qualified(i)' = Qualified(i)
  BY <1>1, <1>10 DEF IInv, AnswersOK, Qualified
<1>19. RequestsKnown'
  <2>1. \A m \in Messages(RequestsOnWay') :
          Bears(m) => /\ Qualified(m.id) \in DOMAIN asked'
                      /\ m.proofs = BatchOf(asked'[Qualified(m.id)])
    BY <1>4, <1>9, <1>15, <1>18 DEF Known, RequestsKnown, key
  <2>2. QED
    BY <1>18, <2>1 DEF RequestsKnown
<1>20. ResponsesKnown' /\ ProofsKnown'
  BY <1>1, <1>8, <1>15, <1>18 DEF Known, ResponsesKnown, ProofsKnown
<1>21. AliasesKnown'
  <2>1. \A i \in DOMAIN batch_aliases : Qualified(batch_aliases[i]) \in DOMAIN asked
    BY <1>18 DEF Known, AliasesKnown
  <2>2. QED
    BY <1>1, <1>15, <1>18, <2>1 DEF Known, AliasesKnown
<1>22. /\ id \notin Names(RequestsOnWay) /\ id \notin Names(ResponsesOnWay)
       /\ id \notin Ids(recursive_proofs) /\ id \notin Working
       /\ key \notin DOMAIN given
  <2>1. id \notin Names(RequestsOnWay) /\ id \notin Names(ResponsesOnWay)
    BY <1>14, <1>18, NamesAre DEF Known, RequestsKnown, ResponsesKnown, key
  <2>2. id \notin Ids(recursive_proofs) /\ id \notin Working
    BY <1>14, <1>18, IdsOf DEF Known, ProofsKnown, AliasesKnown, Working, key
  <2>3. QED
    BY <1>14, <2>1, <2>2 DEF IInv, AnswersOK, AskedOK
<1>23. OnePlace'
  <2>1. Working' = Working
    BY <1>1 DEF Working
  <2>2. QED
    BY <1>1, <1>8, <1>9, <1>18, <1>22, <2>1 DEF Known, OnePlace, key
<1>24. ContractStep
  <2>1. asked' = Contract!With(asked, key, Contract!Leaves(key, n))
    BY <1>1 DEF leaves, Contract!With, With, Contract!Leaves, Leaves, Contract!Leaf, Leaf
  <2>2. Contract!Push(n)
    BY <1>1, <1>14, <1>15, <2>1 DEF Contract!Push
  <2>3. QED
    BY <2>2 DEF ContractStep, Contract!Next
<1>25. QED
  BY <1>11, <1>12, <1>13, <1>16, <1>17, <1>19, <1>20, <1>21, <1>23, <1>24
  DEF IInv, AnswersOK, Known

\* The caller gets an answer it has not got before.
LEMMA PopOK ==
  ASSUME IInv, Pop
  PROVE  IInv' /\ ContractStep
<1> DEFINE e == Head(recursive_proofs)
           key == Qualified(e.id)
<1>1. /\ client = "ready" /\ recursive_proofs # <<>> /\ recursive_proofs' = Tail(recursive_proofs)
      /\ given' = With(given, key, e.node)
      /\ UNCHANGED <<asked, client, connection, free_batch_id, outer_pending_queue_size,
                     inner_pending_queue_size, reqVars, respVars, server, batch_aliases,
                     internal_proofs_pushed, internal_queue, completed_proofs, next_inner_id>>
  BY DEF Pop, serverVars, inner
<1>2. /\ Listed(recursive_proofs)' /\ ToSet(recursive_proofs') \subseteq ToSet(recursive_proofs)
      /\ e \in ToSet(recursive_proofs)
      /\ Bears(e) => /\ e.id \in Ids(recursive_proofs)
                     /\ Ids(recursive_proofs') = Ids(recursive_proofs) \ {e.id}
  BY <1>1, HeadIds DEF IInv, AnswersOK, Known, ProofsKnown, Listed
<1>3. /\ RequestStream' /\ ResponseStream'
      /\ RequestsOnWay' = RequestsOnWay /\ ResponsesOnWay' = ResponsesOnWay
      /\ UNCHANGED req_write_buf
  BY <1>1, TcpAssumption, RequestKept, ResponseKept DEF IInv, Framing, reqVars
<1> HIDE DEF e
<1>4. (Serves' <=> Serves) /\ (Connected' <=> Connected) /\ Unreported' = Unreported
  BY <1>1 DEF Serves, Connected, Unreported
<1>5. Framing'
  BY <1>1, <1>3, <1>4 DEF IInv, Framing
<1>6. Typed'
  BY <1>1, <1>3 DEF IInv, Typed
<1>7. SizesOK'
  BY <1>1, <1>3, <1>4 DEF IInv, SizesOK
<1>8. Known /\ (\A i : Qualified(i)' = Qualified(i)) /\ Working' = Working
  BY <1>1 DEF IInv, AnswersOK, Qualified, Working
<1>9. Bears(e) /\ key \in DOMAIN asked /\ e.node = asked[key]
  BY <1>2, <1>8 DEF Known, ProofsKnown
<1>10. /\ e.id \in Ids(recursive_proofs) /\ Ids(recursive_proofs') = Ids(recursive_proofs) \ {e.id}
       /\ e.id \notin Names(RequestsOnWay) \cup Working \cup Names(ResponsesOnWay)
       /\ key \notin DOMAIN given
  <2>1. e.id \in Ids(recursive_proofs) /\ Ids(recursive_proofs') = Ids(recursive_proofs) \ {e.id}
    BY <1>2, <1>9
  <2>2. QED
    BY <1>8, <2>1 DEF Known, OnePlace
<1>11. DOMAIN given' = DOMAIN given \cup {key}
  BY <1>1 DEF With
<1>12. AskedOK'
  BY <1>1, <1>9, <1>11 DEF IInv, AnswersOK, AskedOK
<1>13. QueuesOK'
  BY <1>1 DEF IInv, AnswersOK, QueuesOK
<1>14. RequestsKnown' /\ ResponsesKnown' /\ AliasesKnown'
  BY <1>1, <1>3, <1>8 DEF Known, RequestsKnown, ResponsesKnown, AliasesKnown
<1>15. ProofsKnown'
  BY <1>1, <1>2, <1>8 DEF Known, ProofsKnown
<1>16. OnePlace'
  <2>1. \A id : Qualified(id) = key => id = e.id
    BY DEF Qualified
  <2> HIDE DEF key
  <2>2. ASSUME NEW id \in Names(RequestsOnWay) \cup Working \cup Names(ResponsesOnWay)
                           \cup Ids(recursive_proofs')
        PROVE  Qualified(id) \notin DOMAIN given'
    <3>1. Qualified(id) \notin DOMAIN given
      BY <1>8, <1>10, <2>2 DEF Known, OnePlace
    <3>2. id # e.id
      BY <1>10, <2>2
    <3>3. QED
      BY <1>11, <2>1, <3>1, <3>2
  <2>3. /\ NamedOnce(RequestsOnWay) /\ NamedOnce(ResponsesOnWay)
        /\ Names(RequestsOnWay) \cap (Working \cup Names(ResponsesOnWay) \cup Ids(recursive_proofs')) = {}
        /\ Working \cap (Names(ResponsesOnWay) \cup Ids(recursive_proofs')) = {}
        /\ Names(ResponsesOnWay) \cap Ids(recursive_proofs') = {}
    BY <1>8, <1>10 DEF Known, OnePlace
  <2>4. QED
    BY <1>3, <1>8, <2>2, <2>3 DEF OnePlace
<1>17. ContractStep
  <2>1. given' = Contract!With(given, key, asked[key])
    BY <1>1, <1>9 DEF Contract!With, With
  <2>2. Contract!Pop(key)
    BY <1>1, <1>9, <1>10, <2>1 DEF Contract!Pop
  <2>3. QED
    BY <1>9, <2>2 DEF ContractStep, Contract!Next
<1>18. QED
  BY <1>5, <1>6, <1>7, <1>12, <1>13, <1>14, <1>15, <1>16, <1>17 DEF IInv, AnswersOK, Known

LEMMA TryRecvOK ==
  ASSUME IInv, TryRecv
  PROVE  IInv' /\ ContractStep
<1> DEFINE t == Responses!Object
           e == [id |-> t.id, node |-> t.node]
<1>1. /\ client = "receive" /\ Responses!Receive
      /\ \/ /\ t.type = "PendingQueueSize" /\ UNCHANGED recursive_proofs
            /\ inner_pending_queue_size' = t.size
            /\ outer_pending_queue_size' =
                 IF t.delta < outer_pending_queue_size THEN outer_pending_queue_size - t.delta ELSE 0
         \/ /\ t.type = "RecursiveProof"
            /\ recursive_proofs' = Append(recursive_proofs, e)
            /\ UNCHANGED <<outer_pending_queue_size, inner_pending_queue_size>>
         \/ /\ t.type = "ProofThroughput"
            /\ UNCHANGED <<outer_pending_queue_size, inner_pending_queue_size, recursive_proofs>>
      /\ UNCHANGED <<caller, asked, given, client, connection, free_batch_id, reqVars, server,
                     batch_aliases, internal_proofs_pushed, inner, internal_queue,
                     completed_proofs, next_inner_id>>
  BY DEF TryRecv, ReceiveSize, ReceiveProof, fields, serverVars, inner, caller
<1>2. Bears(e) /\ e.id = t.id /\ e.node = t.node
  BY DEF Bears
<1>3. /\ RequestStream' /\ RequestsOnWay' = RequestsOnWay /\ UNCHANGED req_write_buf
      /\ ResponseStream' /\ IsReceived(ResponsesOnWay, ResponsesOnWay', t)
  <2>1. RequestStream /\ ResponseStream
    BY DEF IInv, Framing
  <2>2. ResponseStream' /\ ResponsesOnWay = Frame(t) \o ResponsesOnWay'
    BY <1>1, <2>1, TcpAssumption, ResponseReceived
  <2>3. IsSeq(ResponsesOnWay)'
    BY <2>2, StreamIsSeq
  <2>4. QED
    BY <1>1, <2>1, <2>2, <2>3, TcpAssumption, RequestKept DEF IsReceived, reqVars
<1> HIDE DEF t, e
<1>4. (Serves' <=> Serves) /\ (Connected' <=> Connected) /\ Unreported' = Unreported
      /\ client # "gone" /\ client' # "gone"
  BY <1>1 DEF Serves, Connected, Unreported
<1>5. Framing'
  BY <1>3, <1>4, FramingStep DEF IInv
<1>6. /\ Messages(ResponsesOnWay) = Messages(ResponsesOnWay') \cup {t}
      /\ NamedOnce(ResponsesOnWay) => NamedOnce(ResponsesOnWay')
      /\ Bears(t) => /\ t.id \in Names(ResponsesOnWay)
                     /\ NamedOnce(ResponsesOnWay) => t.id \notin Names(ResponsesOnWay')
      /\ Names(ResponsesOnWay) = IF Bears(t) THEN Names(ResponsesOnWay') \cup {t.id}
                                             ELSE Names(ResponsesOnWay')
  BY <1>3, ReceivedIs
<1>7. IsResponse(t) /\ Counts(t)
  BY <1>4, <1>6, MessagesCount DEF IInv, Typed
<1>8. Connected => /\ outer_pending_queue_size
                        = Carried(RequestsOnWay) + (Proofs(t) + Carried(ResponsesOnWay')) + Unreported
                   /\ Carried(RequestsOnWay) \in Nat /\ Carried(ResponsesOnWay') \in Nat
                   /\ Unreported \in Nat /\ Proofs(t) \in Nat
  <2>1. \A m \in Messages(RequestsOnWay) \cup Messages(ResponsesOnWay) : Counts(m)
    BY <1>4, MessagesCount DEF IInv, Typed
  <2>2. /\ Carried(ResponsesOnWay) = Proofs(t) + Carried(ResponsesOnWay')
        /\ Carried(ResponsesOnWay') \in Nat
    BY <1>3, <1>6, <1>7, <2>1, CarriedReceived
  <2>3. Carried(RequestsOnWay) \in Nat
    BY <2>1, CarriedNat DEF IInv, Framing
  <2>4. QED
    BY <1>7, <2>2, <2>3 DEF IInv, SizesOK, Typed, Unreported, Counts
<1>9. Typed'
  <2>1. t.type = "PendingQueueSize" => t.delta \in Nat /\ t.size \in Nat
    BY <1>7 DEF IsResponse
  <2>2. outer_pending_queue_size' \in Nat /\ inner_pending_queue_size' \in Nat
    BY <1>1, <2>1 DEF IInv, Typed
  <2>3. QED
    BY <1>1, <1>3, <1>6, <2>2 DEF IInv, Typed
<1>10. SizesOK'
  <2>1. SUFFICES ASSUME Connected
                 PROVE  outer_pending_queue_size'
                          = Carried(RequestsOnWay) + Carried(ResponsesOnWay') + Unreported
    BY <1>3, <1>4 DEF SizesOK
  <2>2. CASE t.type = "PendingQueueSize"
    <3>1. Proofs(t) = t.delta
      BY <2>2, MessagesCount
    <3>2. outer_pending_queue_size' =
            IF t.delta < outer_pending_queue_size THEN outer_pending_queue_size - t.delta ELSE 0
      BY <1>1, <2>2
    <3>3. QED
      BY <1>8, <2>1, <3>1, <3>2
  <2>3. CASE t.type # "PendingQueueSize"
    <3>1. Proofs(t) = 0
      BY <1>1, <2>3, MessagesCount
    <3>2. UNCHANGED outer_pending_queue_size
      BY <1>1, <2>3
    <3>3. QED
      BY <1>8, <2>1, <3>1, <3>2
  <2>4. QED
    BY <2>2, <2>3
<1>11. AnswersOK' /\ ContractStep
  <2>1. CASE t.type # "RecursiveProof"
    <3>1. ~Bears(t) /\ UNCHANGED recursive_proofs
      BY <1>1, <1>7, <2>1 DEF IsResponse
    <3>2. SameNames(RequestsOnWay, RequestsOnWay') /\ SameNames(ResponsesOnWay, ResponsesOnWay')
      BY <1>3, <3>1, QuietNames
    <3>3. QED
      BY <1>1, <3>1, <3>2, QuietAnswers DEF IInv
  <2>2. CASE t.type = "RecursiveProof"
    <3>1. Bears(t) /\ recursive_proofs' = Append(recursive_proofs, e)
      BY <1>1, <1>7, <2>2 DEF IsResponse
    <3>2. Known /\ (\A i : Qualified(i)' = Qualified(i)) /\ Working' = Working
      BY <1>1, <1>4 DEF IInv, AnswersOK, Qualified, Working
    <3>3. /\ t.id \notin Names(RequestsOnWay) \cup Working \cup Ids(recursive_proofs)
          /\ t.id \notin Names(ResponsesOnWay') /\ Qualified(t.id) \notin DOMAIN given
          /\ NamedOnce(ResponsesOnWay')
      BY <1>6, <3>1, <3>2 DEF Known, OnePlace
    <3>4. t \in Messages(ResponsesOnWay)
      BY <1>6
    <3>5. Qualified(t.id) \in DOMAIN asked /\ t.node = asked[Qualified(t.id)]
      BY <3>1, <3>2, <3>4 DEF Known, ResponsesKnown
    <3>6. /\ Listed(recursive_proofs)' /\ ToSet(recursive_proofs') = ToSet(recursive_proofs) \cup {e}
          /\ Ids(recursive_proofs') = Ids(recursive_proofs) \cup {t.id}
      BY <1>2, <3>1, <3>2, <3>3, AppendIds DEF Known, ProofsKnown, Listed
    <3>7. AskedOK' /\ QueuesOK' /\ ContractStep
      BY <1>1 DEF IInv, AnswersOK, AskedOK, QueuesOK, ContractStep
    <3>8. RequestsKnown' /\ ResponsesKnown' /\ AliasesKnown'
      BY <1>1, <1>3, <1>6, <3>2 DEF Known, RequestsKnown, ResponsesKnown, AliasesKnown
    <3>9. ProofsKnown'
      BY <1>1, <1>2, <3>2, <3>5, <3>6 DEF Known, ProofsKnown
    <3>10. OnePlace'
      <4>1. Names(ResponsesOnWay) = Names(ResponsesOnWay') \cup {t.id}
        BY <1>6, <3>1
      <4>2. QED
        BY <1>1, <1>3, <3>2, <3>3, <3>6, <4>1 DEF Known, OnePlace
    <3>11. QED
      BY <3>7, <3>8, <3>9, <3>10 DEF AnswersOK, Known
  <2>3. QED
    BY <2>1, <2>2
<1>12. QED
  BY <1>5, <1>9, <1>10, <1>11 DEF IInv

\* What the server does for a client that has gone is nobody's answer.
LEMMA GoneAnswers ==
  ASSUME AnswersOK, client' = "gone", QueuesOK', UNCHANGED <<caller, connection, free_batch_id>>
  PROVE  AnswersOK' /\ ContractStep
BY DEF AnswersOK, AskedOK, ContractStep, caller

LEMMA GoOK ==
  ASSUME IInv, Go
  PROVE  IInv' /\ ContractStep
<1>1. /\ client' = "gone" /\ Requests!SenderGoes /\ Responses!ReceiverGoes
      /\ UNCHANGED <<caller, connection, free_batch_id, outer_pending_queue_size,
                     inner_pending_queue_size, server, batch_aliases, internal_proofs_pushed,
                     internal_queue, completed_proofs, next_inner_id>>
  BY DEF Go, fields, serverVars, inner
<1>2. RequestStream' /\ ResponseStream' /\ req_write_buf' = <<>>
  BY <1>1, TcpAssumption, RequestsCut, ResponsesCut DEF IInv, Framing, Requests!SenderGoes
<1>3. PICK rest : IsSeq(rest) /\ RequestsOnWay = RequestsOnWay' \o rest
  BY <1>1, TcpAssumption, RequestsCut DEF IInv, Framing
<1>4. /\ Messages(RequestsOnWay') \subseteq Messages(RequestsOnWay)
      /\ Framed(RequestsOnWay) => Framed(RequestsOnWay')
  BY <1>2, <1>3, StreamIsSeq, CutIs
<1>5. (Serves' <=> Serves) /\ ~Connected'
  BY <1>1 DEF Serves, Connected
<1>6. Framing'
  BY <1>1, <1>2, <1>4, <1>5 DEF IInv, Framing
<1>7. Typed'
  BY <1>1, <1>4 DEF IInv, Typed
<1>8. SizesOK'
  BY <1>5 DEF SizesOK
<1>9. AnswersOK' /\ ContractStep
  <2>1. QueuesOK'
    BY <1>1 DEF IInv, AnswersOK, QueuesOK
  <2>2. QED
    BY <1>1, <2>1, GoneAnswers DEF IInv
<1>10. QED
  BY <1>6, <1>7, <1>8, <1>9 DEF IInv

LEMMA ResetOK ==
  ASSUME IInv, Reset
  PROVE  IInv' /\ ContractStep
<1>1. /\ client = "gone" /\ Requests!Reset
      /\ UNCHANGED <<caller, client, connection, free_batch_id, outer_pending_queue_size,
                     inner_pending_queue_size, respVars, server, batch_aliases,
                     internal_proofs_pushed, internal_queue, completed_proofs, next_inner_id>>
  BY DEF Reset, clientVars, fields, serverVars, inner
<1>2. req_write_buf = <<>> /\ req_write_buf' = <<>>
  BY <1>1 DEF IInv, Framing, Requests!Reset
<1>3. RequestStream' /\ ResponseStream'
  BY <1>1, <1>2, TcpAssumption, RequestsCut, ResponseKept DEF IInv, Framing
<1>4. PICK rest : IsSeq(rest) /\ RequestsOnWay = RequestsOnWay' \o rest
  BY <1>1, <1>2, TcpAssumption, RequestsCut DEF IInv, Framing
<1>5. /\ Messages(RequestsOnWay') \subseteq Messages(RequestsOnWay)
      /\ Framed(RequestsOnWay) => Framed(RequestsOnWay')
  BY <1>3, <1>4, StreamIsSeq, CutIs
<1>6. (Serves' <=> Serves) /\ ~Connected'
  BY <1>1 DEF Serves, Connected
<1>7. Framing'
  BY <1>1, <1>2, <1>3, <1>5, <1>6 DEF IInv, Framing
<1>8. Typed'
  BY <1>1, <1>5 DEF IInv, Typed
<1>9. SizesOK'
  BY <1>6 DEF SizesOK
<1>10. AnswersOK' /\ ContractStep
  <2>1. QueuesOK'
    BY <1>1 DEF IInv, AnswersOK, QueuesOK
  <2>2. QED
    BY <1>1, <2>1, GoneAnswers DEF IInv
<1>11. QED
  BY <1>7, <1>8, <1>9, <1>10 DEF IInv

\* An end reads, writes or waits.
LEMMA WaitingOK ==
  ASSUME IInv,
         \/ Flush \/ EndFlush \/ EndShutdown \/ StartSync \/ Read
         \/ ServerRead \/ ServerWrite \/ UNCHANGED vars
  PROVE  IInv' /\ ContractStep
<1>1. /\ UNCHANGED <<caller, connection, free_batch_id, fields, serverVars>>
      /\ client' \in {"ready", "flush", "receive", "shutdown", "closing", "gone"}
      /\ client' = "gone" <=> client = "gone"
  BY DEF Flush, EndFlush, EndShutdown, StartSync, Read, ServerRead, ServerWrite, clientVars, vars,
         IInv, Typed
<1>2. /\ UNCHANGED reqVars \/ Requests!WriteSome \/ Requests!ReadSome \/ Requests!TakeLength
      /\ \/ UNCHANGED respVars
         \/ Responses!WriteSome \/ Responses!ReadSome \/ Responses!TakeLength \/ Responses!Unread
  BY DEF Flush, EndFlush, EndShutdown, StartSync, Read, ServerRead, ServerWrite, vars
<1>3. /\ RequestStream' /\ RequestsOnWay' = RequestsOnWay
      /\ ResponseStream' /\ ResponsesOnWay' = ResponsesOnWay
  <2>1. RequestStream /\ ResponseStream
    BY DEF IInv, Framing
  <2>2. QED
    BY <1>2, <2>1, TcpAssumption, RequestKept, ResponseKept
<1>4. client' = "gone" => req_write_buf' = <<>>
  <2>1. ASSUME client' = "gone" PROVE UNCHANGED req_write_buf
    BY <1>1, <2>1 DEF Flush, EndFlush, EndShutdown, StartSync, Read, ServerRead, ServerWrite, reqVars,
       vars, Requests!ReadSome, Requests!TakeLength
  <2>2. QED
    BY <1>1, <2>1 DEF IInv, Framing
<1>5. QED
  BY <1>1, <1>3, <1>4, QuietOK

LEMMA TellingOK ==
  ASSUME IInv, Step \/ Shutdown \/ EndSync
  PROVE  IInv' /\ ContractStep
<1>1. /\ UNCHANGED <<caller, connection, free_batch_id, fields, serverVars>>
      /\ client # "gone" /\ client' \in {"ready", "flush", "receive", "shutdown", "closing"}
      /\ UNCHANGED respVars \/ Responses!Unread
  BY DEF Step, Shutdown, EndSync
<1>2. PICK t \in {StepRequest, ShutdownRequest, SyncRequest} : Requests!Send(t)
  BY DEF Step, Shutdown, EndSync
<1>3. IsRequest(t) /\ ~Bears(t) /\ Proofs(t) = 0
  BY MessagesCount DEF StepRequest, ShutdownRequest, SyncRequest, IsRequest, Bears
<1>4. /\ RequestStream' /\ IsSent(RequestsOnWay, RequestsOnWay', t)
      /\ ResponseStream' /\ ResponsesOnWay' = ResponsesOnWay
  <2>1. RequestStream /\ ResponseStream
    BY DEF IInv, Framing
  <2>2. RequestStream' /\ RequestsOnWay' = RequestsOnWay \o Frame(t)
    BY <1>2, <2>1, TcpAssumption, RequestSent
  <2>3. QED
    BY <1>1, <2>1, <2>2, TcpAssumption, ResponseKept, StreamsTyped DEF IsSent
<1>5. QED
  BY <1>1, <1>3, <1>4, TellOK

-----------------------------------------------------------------------------
(* The steps of the server. *)

LEMMA QueueSize ==
  ASSUME IsSeq(internal_queue), \A b \in ToSet(internal_queue) : Len(b.proofs) \in Nat
  PROVE  SizeOf(internal_queue) \in Nat
BY LengthsTotal DEF SizeOf

LEMMA ReportingOK ==
  ASSUME IInv, SendThroughput \/ SendSize
  PROVE  IInv' /\ ContractStep
<1> DEFINE size == PendingQueueSize(internal_proofs_pushed, SizeOf(internal_queue))
<1>1. /\ UNCHANGED <<caller, clientVars, reqVars, batch_aliases, internal_proofs_pushed, inner>>
      /\ Serves /\ server' \in {"receive", "report", "size"}
  BY DEF SendThroughput, SendSize, Serves
<1>2. PICK t : /\ Responses!Send(t) /\ IsResponse(t) /\ ~Bears(t)
               /\ Unreported = Proofs(t) + Unreported'
  <2>1. internal_proofs_pushed \in Nat /\ internal_proofs_pushed' = internal_proofs_pushed
    BY <1>1 DEF IInv, Typed
  <2>2. CASE SendThroughput
    <3>1. IsResponse(ProofThroughput) /\ ~Bears(ProofThroughput) /\ Proofs(ProofThroughput) = 0
      BY MessagesCount DEF ProofThroughput, IsResponse, Bears
    <3>2. QED
      BY <2>1, <2>2, <3>1 DEF SendThroughput, Unreported
  <2>3. CASE SendSize
    <3>1. SizeOf(internal_queue) \in Nat
      BY QueueSize DEF IInv, AnswersOK, QueuesOK
    <3>2. /\ size.type = "PendingQueueSize" /\ ~Bears(size)
          /\ size.delta = internal_proofs_pushed /\ size.size = SizeOf(internal_queue)
      BY DEF PendingQueueSize, Bears
    <3>3. Responses!Send(size) /\ server = "size" /\ server' = "receive"
      BY <2>3 DEF SendSize
    <3> HIDE DEF size
    <3>4. Proofs(size) = internal_proofs_pushed
      BY <3>2, MessagesCount
    <3>5. Unreported = internal_proofs_pushed /\ Unreported' = 0
      BY <3>3 DEF Unreported
    <3>6. IsResponse(size)
      BY <2>1, <3>1, <3>2 DEF IsResponse
    <3>7. QED
      BY <2>1, <3>2, <3>3, <3>4, <3>5, <3>6
  <2>4. QED
    BY <2>2, <2>3
<1>3. /\ RequestStream' /\ RequestsOnWay' = RequestsOnWay /\ UNCHANGED req_write_buf
      /\ ResponseStream' /\ IsSent(ResponsesOnWay, ResponsesOnWay', t)
  <2>1. RequestStream /\ ResponseStream
    BY DEF IInv, Framing
  <2>2. ResponseStream' /\ ResponsesOnWay' = ResponsesOnWay \o Frame(t)
    BY <1>2, <2>1, TcpAssumption, ResponseSent
  <2>3. QED
    BY <1>1, <2>1, <2>2, TcpAssumption, RequestKept, StreamsTyped DEF IsSent, reqVars
<1>4. QED
  BY <1>1, <1>2, <1>3, ReportOK

\* The server leaves the client, or panics.
LEMMA LeavingOK ==
  ASSUME IInv, Disconnect \/ ServerWriteFails
  PROVE  IInv' /\ ContractStep
<1>1. /\ client = "gone" /\ server' \in {"accept", "panicked"}
      /\ UNCHANGED <<caller, client, connection, free_batch_id, outer_pending_queue_size,
                     inner_pending_queue_size, reqVars, batch_aliases, internal_proofs_pushed,
                     internal_queue, completed_proofs, next_inner_id>>
      /\ UNCHANGED respVars \/ Responses!SenderGoes
  BY DEF Disconnect, EndOfFile, ServerWriteFails, clientVars, fields, inner
<1>2. RequestStream' /\ RequestsOnWay' = RequestsOnWay /\ ResponseStream' /\ UNCHANGED req_write_buf
  BY <1>1, TcpAssumption, RequestKept, ResponseKept, ResponsesCut DEF IInv, Framing, reqVars
<1>3. ~Serves' /\ ~Connected'
  BY <1>1 DEF Serves, Connected
<1>4. Framing'
  BY <1>1, <1>2, <1>3 DEF IInv, Framing
<1>5. Typed'
  BY <1>1, <1>2 DEF IInv, Typed
<1>6. SizesOK'
  BY <1>3 DEF SizesOK
<1>7. AnswersOK' /\ ContractStep
  <2>1. QueuesOK'
    BY <1>1 DEF IInv, AnswersOK, QueuesOK
  <2>2. QED
    BY <1>1, <2>1, GoneAnswers DEF IInv
<1>8. QED
  BY <1>4, <1>5, <1>6, <1>7 DEF IInv

\* What a request moves is with the server, and not reported yet.
LEMMA TakenOK ==
  ASSUME IInv, ServerReceive
  PROVE  /\ Framing' /\ Typed' /\ SizesOK'
         /\ IsReceived(RequestsOnWay, RequestsOnWay', Requests!Object)
         /\ IsRequest(Requests!Object) /\ ResponsesOnWay' = ResponsesOnWay
<1> DEFINE t == Requests!Object
<1>1. /\ server = "receive" /\ Requests!Receive
      /\ UNCHANGED <<client, outer_pending_queue_size, inner_pending_queue_size, respVars>>
      /\ \/ t.type = "PushInternalProofs" /\ ServerPush(t)
         \/ t.type = "Step" /\ ServerStep
         \/ t.type \in {"Step", "Sync"} /\ ServerSync
         \/ t.type = "Shutdown" /\ ServerShutdown
  BY DEF ServerReceive, clientVars, fields
<1>2. /\ RequestStream' /\ IsReceived(RequestsOnWay, RequestsOnWay', t) /\ UNCHANGED req_write_buf
      /\ ResponseStream' /\ ResponsesOnWay' = ResponsesOnWay
  <2>1. RequestStream /\ ResponseStream
    BY DEF IInv, Framing
  <2>2. RequestStream' /\ RequestsOnWay = Frame(t) \o RequestsOnWay'
    BY <1>1, <2>1, TcpAssumption, RequestReceived
  <2>3. IsSeq(RequestsOnWay)'
    BY <2>2, StreamIsSeq
  <2>4. UNCHANGED req_write_buf
    BY <1>1 DEF Requests!Receive
  <2>5. QED
    BY <1>1, <2>1, <2>2, <2>3, <2>4, TcpAssumption, ResponseKept DEF IsReceived
<1> HIDE DEF t
<1>3. Messages(RequestsOnWay) = Messages(RequestsOnWay') \cup {t}
  BY <1>2, ReceivedIs
<1>4. IsRequest(t) /\ Counts(t)
  BY <1>3, MessagesCount DEF IInv, Typed
<1>5. /\ server' \in {"report", "accept"}
      /\ \/ internal_proofs_pushed' = internal_proofs_pushed /\ server' = "accept"
         \/ internal_proofs_pushed' = Proofs(t)
      /\ \A i \in DOMAIN batch_aliases' : batch_aliases'[i] \in Nat
  <2>1. \A i \in DOMAIN batch_aliases : batch_aliases[i] \in Nat
    BY DEF IInv, Typed
  <2>2. CASE t.type = "PushInternalProofs" /\ ServerPush(t)
    <3>1. t.id \in Nat /\ Proofs(t) = Len(t.proofs)
      BY <1>4, <2>2, MessagesCount DEF IsRequest
    <3>2. QED
      BY <2>1, <2>2, <3>1 DEF ServerPush, With
  <2>3. CASE t.type # "PushInternalProofs"
    <3>1. Proofs(t) = 0
      BY <1>1, <2>3, MessagesCount
    <3>2. UNCHANGED batch_aliases
      BY <1>1, <2>3 DEF ServerStep, ServerSync, ServerShutdown
    <3>3. QED
      BY <1>1, <2>1, <2>3, <3>1, <3>2 DEF ServerStep, ServerSync, ServerShutdown
  <2>4. QED
    BY <1>1, <2>2, <2>3
<1>6. Serves /\ (Serves' <=> server' = "report") /\ Unreported = 0
  BY <1>1, <1>5 DEF Serves, Unreported
<1>7. Framing'
  <2>1. client' = "gone" => req_write_buf' = <<>>
    BY <1>1, <1>2 DEF IInv, Framing
  <2>2. QED
    BY <1>1, <1>2, <1>6, <2>1, FramingStep DEF IInv
<1>8. Typed'
  <2>1. internal_proofs_pushed' \in Nat
    BY <1>4, <1>5 DEF IInv, Typed, Counts
  <2>2. QED
    BY <1>1, <1>2, <1>3, <1>5, <2>1 DEF IInv, Typed
<1>9. SizesOK'
  <2>1. SUFFICES ASSUME Connected'
                 PROVE  outer_pending_queue_size
                          = Carried(RequestsOnWay') + Carried(ResponsesOnWay) + Unreported'
    BY <1>1, <1>2 DEF SizesOK
  <2>2. Connected /\ client # "gone" /\ Unreported' = Proofs(t)
    BY <1>1, <1>5, <1>6, <2>1 DEF Connected, Unreported
  <2>3. \A m \in Messages(RequestsOnWay) \cup Messages(ResponsesOnWay) : Counts(m)
    BY <2>2, MessagesCount DEF IInv, Typed
  <2>4. /\ Carried(RequestsOnWay) = Proofs(t) + Carried(RequestsOnWay')
        /\ Carried(RequestsOnWay') \in Nat /\ Proofs(t) \in Nat
    BY <1>2, <1>3, <1>4, <2>3, CarriedReceived DEF Counts
  <2>5. Carried(ResponsesOnWay) \in Nat
    BY <2>3, CarriedNat DEF IInv, Framing
  <2>6. outer_pending_queue_size = Carried(RequestsOnWay) + Carried(ResponsesOnWay) + 0
    BY <1>6, <2>2 DEF IInv, SizesOK
  <2>7. QED
    BY <2>2, <2>4, <2>5, <2>6
<1>10. QED
  BY <1>2, <1>4, <1>7, <1>8, <1>9 DEF t

\* The server gives a batch an id of its own.
LEMMA ServerPushAnswers ==
  ASSUME AnswersOK, NEW t, IsRequest(t), t.type = "PushInternalProofs", ServerPush(t),
         IsReceived(RequestsOnWay, RequestsOnWay', t), ResponsesOnWay' = ResponsesOnWay,
         UNCHANGED <<asked, given, client, connection, free_batch_id, recursive_proofs>>
  PROVE  AnswersOK' /\ ContractStep
<1> DEFINE b == [id |-> next_inner_id, proofs |-> t.proofs]
<1>1. /\ internal_queue' = Append(internal_queue, b) /\ next_inner_id' = next_inner_id + 1
      /\ batch_aliases' = With(batch_aliases, next_inner_id, t.id)
      /\ UNCHANGED completed_proofs
  BY DEF ServerPush
<1>2. b.id = next_inner_id /\ b.proofs = t.proofs
  OBVIOUS
<1> HIDE DEF b
<1>3. Bears(t) /\ Len(t.proofs) \in Nat
  BY DEF IsRequest
<1>4. /\ IsSeq(internal_queue') /\ ToSet(internal_queue') = ToSet(internal_queue) \cup {b}
      /\ next_inner_id \in Nat
  BY <1>1, AppendIsSeq DEF AnswersOK, QueuesOK
<1>5. AskedOK' /\ ContractStep
  BY DEF AnswersOK, AskedOK, ContractStep
<1>6. QueuesOK'
  <2>1. \A q \in ToSet(internal_queue') : q.id \in Nat /\ q.id < next_inner_id + 1 /\ Len(q.proofs) \in Nat
    BY <1>2, <1>3, <1>4 DEF AnswersOK, QueuesOK
  <2>2. \A c \in ToSet(completed_proofs) : c.id \in Nat /\ c.id < next_inner_id + 1
    BY <1>4 DEF AnswersOK, QueuesOK
  <2>3. QED
    BY <1>1, <1>4, <2>1, <2>2 DEF AnswersOK, QueuesOK
<1>7. ASSUME client' # "gone" PROVE Known'
  <2>1. Known /\ (\A i : Qualified(i)' = Qualified(i))
    BY <1>7 DEF AnswersOK, Qualified
  <2>2. /\ Messages(RequestsOnWay) = Messages(RequestsOnWay') \cup {t}
        /\ Names(RequestsOnWay) = Names(RequestsOnWay') \cup {t.id}
        /\ NamedOnce(RequestsOnWay) => NamedOnce(RequestsOnWay') /\ t.id \notin Names(RequestsOnWay')
    BY <1>3, ReceivedIs
  <2>3. /\ Qualified(t.id) \in DOMAIN asked /\ t.proofs = BatchOf(asked[Qualified(t.id)])
        /\ t.id \notin Working \cup Names(ResponsesOnWay) \cup Ids(recursive_proofs)
        /\ NamedOnce(RequestsOnWay') /\ t.id \notin Names(RequestsOnWay')
        /\ Qualified(t.id) \notin DOMAIN given
    BY <1>3, <2>1, <2>2 DEF Known, RequestsKnown, OnePlace
  <2>4. /\ DOMAIN batch_aliases' = DOMAIN batch_aliases \cup {next_inner_id}
        /\ \A i \in DOMAIN batch_aliases : i # next_inner_id => batch_aliases'[i] = batch_aliases[i]
        /\ batch_aliases'[next_inner_id] = t.id
    BY <1>1 DEF With
  <2>5. Working' \subseteq Working \cup {t.id}
    BY <2>4 DEF Working
  <2>6. RequestsKnown' /\ ResponsesKnown' /\ ProofsKnown'
    BY <2>1, <2>2 DEF Known, RequestsKnown, ResponsesKnown, ProofsKnown
  <2>7. AliasesKnown'
    <3>1. \A i \in DOMAIN batch_aliases' : Qualified(batch_aliases'[i]) \in DOMAIN asked
      BY <2>1, <2>3, <2>4 DEF Known, AliasesKnown
    <3>2. \A i, j \in DOMAIN batch_aliases' : batch_aliases'[i] = batch_aliases'[j] => i = j
      <4>1. \A i \in DOMAIN batch_aliases : batch_aliases[i] # t.id
        BY <2>3 DEF Working
      <4>2. QED
        BY <2>1, <2>4, <4>1 DEF Known, AliasesKnown
    <3>3. \A q \in ToSet(internal_queue') : q.id \in DOMAIN batch_aliases' =>
            q.proofs = BatchOf(asked[Qualified(batch_aliases'[q.id])])
      <4>1. \A q \in ToSet(internal_queue) : q.id # next_inner_id
        BY DEF AnswersOK, QueuesOK
      <4>2. QED
        BY <1>2, <1>4, <2>1, <2>3, <2>4, <4>1 DEF Known, AliasesKnown
    <3>4. \A c \in ToSet(completed_proofs) : c.id \in DOMAIN batch_aliases' =>
            c.node = asked[Qualified(batch_aliases'[c.id])]
      <4>1. \A c \in ToSet(completed_proofs) : c.id # next_inner_id
        BY DEF AnswersOK, QueuesOK
      <4>2. QED
        BY <2>1, <2>4, <4>1 DEF Known, AliasesKnown
    <3>5. QED
      BY <1>1, <2>1, <3>1, <3>2, <3>3, <3>4 DEF AliasesKnown
  <2>8. OnePlace'
    <3>1. /\ Names(RequestsOnWay') \cap
               (Working' \cup Names(ResponsesOnWay) \cup Ids(recursive_proofs)) = {}
          /\ Working' \cap (Names(ResponsesOnWay) \cup Ids(recursive_proofs)) = {}
          /\ Names(ResponsesOnWay) \cap Ids(recursive_proofs) = {}
          /\ NamedOnce(ResponsesOnWay)
      BY <2>1, <2>2, <2>3, <2>5 DEF Known, OnePlace
    <3>2. \A id \in Names(RequestsOnWay') \cup Working' \cup Names(ResponsesOnWay)
                      \cup Ids(recursive_proofs) : Qualified(id) \notin DOMAIN given
      BY <2>1, <2>2, <2>3, <2>5 DEF Known, OnePlace
    <3>3. QED
      BY <2>1, <2>3, <3>1, <3>2 DEF OnePlace
  <2>9. QED
    BY <2>6, <2>7, <2>8 DEF Known
<1>8. QED
  BY <1>5, <1>6, <1>7 DEF AnswersOK

\* A batch becomes the root over its leaves.
LEMMA RootOK ==
  ASSUME AskedOK, NEW k \in DOMAIN asked
  PROVE  Aggregate(BatchOf(asked[k])) = asked[k]
<1>1. PICK n \in Sizes : asked[k] = Leaves(k, n)
  BY DEF AskedOK
<1>2. n \in Nat /\ IsBatchSize(n)
  BY BatchesAssumption DEF BatchesAssumption
<1>3. QED
  BY <1>1, <1>2, RootOfLeaves

\* What a step leaves in the queue was there, and what it adds to the answers is
\* the answer to something that was there.
LEMMA FinishQueues ==
  ASSUME QueuesOK, NEW done, NEW left, NEW n \in Nat, NEW m \in Nat,
         done \in [1..n -> DOMAIN internal_queue], left \in [1..m -> DOMAIN internal_queue],
         Finish(done, left)
  PROVE  /\ IsSeq(internal_queue') /\ IsSeq(completed_proofs')
         /\ ToSet(internal_queue') \subseteq ToSet(internal_queue)
         /\ \A c \in ToSet(completed_proofs') :
              \/ c \in ToSet(completed_proofs)
              \/ \E b \in ToSet(internal_queue) : c = Answer(b)
         /\ UNCHANGED next_inner_id
<1> DEFINE q == [i \in 1..m |-> internal_queue[left[i]]]
           a == [i \in 1..n |-> Answer(internal_queue[done[i]])]
<1>1. internal_queue' = q /\ completed_proofs' = completed_proofs \o a /\ UNCHANGED next_inner_id
  BY DEF Finish
<1>2. \A k \in DOMAIN internal_queue : internal_queue[k] \in ToSet(internal_queue)
  BY DEF ToSet
<1>3. q \in [1..m -> ToSet(internal_queue)]
  BY <1>2
<1>4. a \in [1..n -> {Answer(b) : b \in ToSet(internal_queue)}]
  BY <1>2
<1> HIDE DEF q, a
<1>5. IsSeq(q) /\ ToSet(q) \subseteq ToSet(internal_queue)
  BY <1>3, FunctionIsSeq, SeqIsSeq DEF ToSet
<1>6. IsSeq(a) /\ ToSet(a) \subseteq {Answer(b) : b \in ToSet(internal_queue)}
  BY <1>4, FunctionIsSeq, SeqIsSeq DEF ToSet
<1>7. IsSeq(completed_proofs \o a)
      /\ ToSet(completed_proofs \o a) = ToSet(completed_proofs) \cup ToSet(a)
  BY <1>6, ConcatIsSeq, ConcatToSet DEF QueuesOK
<1>8. QED
  BY <1>1, <1>5, <1>6, <1>7

LEMMA FinishAnswers ==
  ASSUME AnswersOK, NEW t, ~Bears(t), NEW done, NEW left, NEW n \in Nat, NEW m \in Nat,
         done \in [1..n -> DOMAIN internal_queue], left \in [1..m -> DOMAIN internal_queue],
         Finish(done, left),
         IsReceived(RequestsOnWay, RequestsOnWay', t), ResponsesOnWay' = ResponsesOnWay,
         UNCHANGED <<asked, given, client, connection, free_batch_id, recursive_proofs,
                     batch_aliases>>
  PROVE  AnswersOK' /\ ContractStep
<1>1. /\ IsSeq(internal_queue') /\ IsSeq(completed_proofs')
      /\ ToSet(internal_queue') \subseteq ToSet(internal_queue)
      /\ \A c \in ToSet(completed_proofs') :
           \/ c \in ToSet(completed_proofs)
           \/ \E b \in ToSet(internal_queue) : c = Answer(b)
      /\ UNCHANGED next_inner_id
  BY FinishQueues DEF AnswersOK
<1>2. \A b : Answer(b).id = b.id /\ Answer(b).node = Aggregate(b.proofs)
  BY DEF Answer
<1>3. AskedOK' /\ ContractStep
  BY DEF AnswersOK, AskedOK, ContractStep
<1>4. QueuesOK'
  BY <1>1, <1>2 DEF AnswersOK, QueuesOK
<1>5. ASSUME client' # "gone" PROVE Known'
  <2>1. Known /\ (\A i : Qualified(i)' = Qualified(i)) /\ Working' = Working
    BY <1>5 DEF AnswersOK, Qualified, Working
  <2>2. SameNames(RequestsOnWay, RequestsOnWay')
    BY QuietNames
  <2>3. RequestsKnown' /\ ResponsesKnown' /\ ProofsKnown'
    BY <2>1, <2>2 DEF Known, RequestsKnown, ResponsesKnown, ProofsKnown, SameNames
  <2>4. OnePlace'
    BY <2>1, <2>2 DEF Known, OnePlace, SameNames
  <2>5. ASSUME NEW b \in ToSet(internal_queue), b.id \in DOMAIN batch_aliases
        PROVE  Answer(b).node = asked[Qualified(batch_aliases[b.id])]
    <3> DEFINE key == Qualified(batch_aliases[b.id])
    <3>1. key \in DOMAIN asked /\ b.proofs = BatchOf(asked[key])
      BY <2>1, <2>5 DEF Known, AliasesKnown
    <3> HIDE DEF key
    <3>2. Aggregate(BatchOf(asked[key])) = asked[key]
      BY <3>1, RootOK DEF AnswersOK
    <3>3. QED
      BY <1>2, <3>1, <3>2 DEF key
  <2>6. \A c \in ToSet(completed_proofs') :
          c.id \in DOMAIN batch_aliases => c.node = asked[Qualified(batch_aliases[c.id])]
    BY <1>1, <1>2, <2>1, <2>5 DEF Known, AliasesKnown
  <2>7. AliasesKnown'
    BY <1>1, <2>1, <2>6 DEF Known, AliasesKnown
  <2>8. QED
    BY <2>3, <2>4, <2>7 DEF Known
<1>6. QED
  BY <1>3, <1>4, <1>5 DEF AnswersOK

LEMMA ServerReceiveOK ==
  ASSUME IInv, ServerReceive
  PROVE  IInv' /\ ContractStep
<1> DEFINE t == Requests!Object
<1>1. /\ Framing' /\ Typed' /\ SizesOK' /\ IsRequest(t)
      /\ IsReceived(RequestsOnWay, RequestsOnWay', t) /\ ResponsesOnWay' = ResponsesOnWay
  BY TakenOK
<1>2. /\ UNCHANGED <<caller, asked, given, client, connection, free_batch_id, recursive_proofs>>
      /\ \/ t.type = "PushInternalProofs" /\ ServerPush(t)
         \/ t.type = "Step" /\ ServerStep
         \/ t.type \in {"Step", "Sync"} /\ ServerSync
         \/ t.type = "Shutdown" /\ ServerShutdown
  BY DEF ServerReceive, clientVars, fields, caller
<1> HIDE DEF t
<1>3. AnswersOK' /\ ContractStep
  <2>1. CASE t.type = "PushInternalProofs" /\ ServerPush(t)
    BY <1>1, <1>2, <2>1, ServerPushAnswers DEF IInv
  <2>2. CASE t.type = "Step" /\ ServerStep
    <3>1. ~Bears(t)
      BY <1>1, <2>2 DEF IsRequest
    <3>2. UNCHANGED batch_aliases
      BY <2>2 DEF ServerStep
    <3>3. Len(internal_queue) \in Nat
      BY IsSeqLength DEF IInv, AnswersOK, QueuesOK
    <3>4. PICK n \in 1..Len(internal_queue) :
            \E done \in Picks(n), left \in Picks(Len(internal_queue) - n) : Finish(done, left)
      BY <2>2 DEF ServerStep
    <3>5. PICK done \in Picks(n), left \in Picks(Len(internal_queue) - n) : Finish(done, left)
      BY <3>4
    <3>6. n \in Nat /\ Len(internal_queue) - n \in Nat
      BY <3>3
    <3>7. /\ done \in [1..n -> DOMAIN internal_queue]
          /\ left \in [1..(Len(internal_queue) - n) -> DOMAIN internal_queue]
      BY <3>5 DEF Picks
    <3>8. QED
      BY <1>1, <1>2, <3>1, <3>2, <3>5, <3>6, <3>7, FinishAnswers DEF IInv
  <2>3. CASE \/ t.type \in {"Step", "Sync"} /\ ServerSync
             \/ t.type = "Shutdown" /\ ServerShutdown
    <3>1. ~Bears(t) /\ UNCHANGED <<batch_aliases, inner>>
      BY <1>1, <2>3 DEF IsRequest, ServerSync, ServerShutdown
    <3>2. SameNames(RequestsOnWay, RequestsOnWay') /\ SameNames(ResponsesOnWay, ResponsesOnWay')
      BY <1>1, <3>1, QuietNames
    <3>3. QED
      BY <1>2, <3>1, <3>2, QuietAnswers DEF IInv
  <2>4. QED
    BY <1>2, <2>1, <2>2, <2>3
<1>4. QED
  BY <1>1, <1>3 DEF IInv

\* The server forgets its own id of a batch, whether there is a client to tell or not.
LEMMA SendProofOK ==
  ASSUME IInv, SendProof
  PROVE  IInv' /\ ContractStep
<1> DEFINE c == Head(completed_proofs)
           id == batch_aliases[c.id]
           t == RecursiveProof(id, c.node)
<1>1. /\ server = "report" /\ completed_proofs # <<>> /\ completed_proofs' = Tail(completed_proofs)
      /\ \/ /\ c.id \in DOMAIN batch_aliases
            /\ Responses!Send(t)
            /\ batch_aliases' = [i \in DOMAIN batch_aliases \ {c.id} |-> batch_aliases[i]]
            /\ UNCHANGED server
         \/ server' = "panicked" /\ UNCHANGED <<batch_aliases, respVars>>
      /\ UNCHANGED <<caller, asked, given, client, connection, free_batch_id,
                     outer_pending_queue_size, inner_pending_queue_size, recursive_proofs, reqVars,
                     internal_proofs_pushed, internal_queue, next_inner_id>>
  BY DEF SendProof, caller, clientVars, fields
<1>2. Bears(t) /\ t.id = id /\ t.type = "RecursiveProof" /\ t.node = c.node
  BY DEF RecursiveProof, Bears
<1>3. RequestStream' /\ RequestsOnWay' = RequestsOnWay /\ UNCHANGED req_write_buf
  BY <1>1, TcpAssumption, RequestKept DEF IInv, Framing, reqVars
<1>4. /\ IsSeq(completed_proofs') /\ ToSet(completed_proofs') \subseteq ToSet(completed_proofs)
      /\ c \in ToSet(completed_proofs)
  BY <1>1, TailIsSeq DEF IInv, AnswersOK, QueuesOK
<1> HIDE DEF c, t
<1>5. AskedOK' /\ QueuesOK' /\ ContractStep
  BY <1>1, <1>4 DEF IInv, AnswersOK, AskedOK, QueuesOK, ContractStep
<1>6. CASE server' = "panicked" /\ UNCHANGED <<batch_aliases, respVars>>
  <2>1. ~Serves' /\ ~Connected'
    BY <1>6 DEF Serves, Connected
  <2>2. ResponseStream' /\ ResponsesOnWay' = ResponsesOnWay
    BY <1>6, TcpAssumption, ResponseKept DEF IInv, Framing
  <2>3. Framing'
    BY <1>1, <1>3, <2>1, <2>2 DEF IInv, Framing
  <2>4. Typed'
    BY <1>1, <1>3, <1>6, <2>2 DEF IInv, Typed
  <2>5. SizesOK'
    BY <2>1 DEF SizesOK
  <2>6. ASSUME client' # "gone" PROVE Known'
    <3>1. Known /\ (\A i : Qualified(i)' = Qualified(i)) /\ Working' = Working
      BY <1>1, <1>6, <2>6 DEF IInv, AnswersOK, Qualified, Working
    <3>2. RequestsKnown' /\ ResponsesKnown' /\ ProofsKnown' /\ OnePlace'
      BY <1>1, <1>3, <2>2, <3>1 DEF Known, RequestsKnown, ResponsesKnown, ProofsKnown, OnePlace
    <3>3. AliasesKnown'
      BY <1>1, <1>4, <1>6, <3>1 DEF Known, AliasesKnown
    <3>4. QED
      BY <3>2, <3>3 DEF Known
  <2>7. QED
    BY <1>5, <2>3, <2>4, <2>5, <2>6 DEF IInv, AnswersOK
<1>7. CASE /\ c.id \in DOMAIN batch_aliases
           /\ Responses!Send(t)
           /\ batch_aliases' = [i \in DOMAIN batch_aliases \ {c.id} |-> batch_aliases[i]]
           /\ UNCHANGED server
  <2>1. Serves /\ Serves' /\ (Connected' <=> Connected) /\ Unreported' = Unreported
    BY <1>1, <1>7 DEF Serves, Connected, Unreported
  <2>2. ResponseStream' /\ IsSent(ResponsesOnWay, ResponsesOnWay', t)
    <3>1. ResponseStream /\ IsSeq(ResponsesOnWay)
      BY StreamsTyped DEF IInv, Framing
    <3>2. QED
      BY <1>7, <3>1, TcpAssumption, ResponseSent DEF IsSent
  <2>3. /\ Messages(ResponsesOnWay') = Messages(ResponsesOnWay) \cup {t}
        /\ Names(ResponsesOnWay') = Names(ResponsesOnWay) \cup {id}
        /\ NamedOnce(ResponsesOnWay) /\ id \notin Names(ResponsesOnWay) => NamedOnce(ResponsesOnWay')
    BY <1>2, <2>2, SentIs
  <2>4. IsResponse(t) /\ Counts(t) /\ Proofs(t) = 0
    BY <1>2, MessagesCount DEF IsResponse, Counts
  <2>5. /\ DOMAIN batch_aliases' = DOMAIN batch_aliases \ {c.id}
        /\ \A i \in DOMAIN batch_aliases' : batch_aliases'[i] = batch_aliases[i]
    BY <1>7
  <2>6. Framing'
    <3>1. client' = "gone" => req_write_buf' = <<>>
      BY <1>1, <1>3 DEF IInv, Framing
    <3>2. QED
      BY <1>1, <1>3, <2>1, <2>2, <3>1, FramingStep DEF IInv
  <2>7. Typed'
    <3>1. \A i \in DOMAIN batch_aliases' : batch_aliases'[i] \in Nat
      BY <2>5 DEF IInv, Typed
    <3>2. QED
      BY <1>1, <1>3, <1>7, <2>3, <2>4, <3>1 DEF IInv, Typed
  <2>8. SizesOK'
    <3>1. SUFFICES ASSUME Connected PROVE Carried(ResponsesOnWay') = Carried(ResponsesOnWay)
      BY <1>1, <1>3, <2>1 DEF IInv, SizesOK
    <3>2. \A m \in Messages(ResponsesOnWay) : Counts(m)
      BY <3>1, MessagesCount DEF IInv, Typed, Connected
    <3>3. Carried(ResponsesOnWay') = Carried(ResponsesOnWay) + 0 /\ Carried(ResponsesOnWay) \in Nat
      BY <2>2, <2>4, <3>2, CarriedSent
    <3>4. QED
      BY <3>3
  <2>9. ASSUME client' # "gone" PROVE Known'
    <3>1. Known /\ (\A i : Qualified(i)' = Qualified(i))
      BY <1>1, <2>9 DEF IInv, AnswersOK, Qualified
    <3>2. Qualified(id) \in DOMAIN asked /\ c.node = asked[Qualified(id)] /\ id \in Working
      BY <1>4, <1>7, <3>1 DEF Known, AliasesKnown, Working
    <3>3. Working' = Working \ {id}
      BY <1>7, <2>5, <3>1 DEF Known, AliasesKnown, Working
    <3> HIDE DEF id
    <3>4. RequestsKnown' /\ ProofsKnown'
      BY <1>1, <1>3, <3>1 DEF Known, RequestsKnown, ProofsKnown
    <3>5. ResponsesKnown'
      BY <1>1, <1>2, <2>3, <3>1, <3>2 DEF Known, ResponsesKnown
    <3>6. AliasesKnown'
      BY <1>1, <1>4, <2>5, <3>1 DEF Known, AliasesKnown
    <3>7. /\ id \notin Names(RequestsOnWay) \cup Names(ResponsesOnWay) \cup Ids(recursive_proofs)
          /\ Qualified(id) \notin DOMAIN given
      BY <3>1, <3>2 DEF Known, OnePlace
    <3>8. OnePlace'
      BY <1>1, <1>3, <2>3, <3>1, <3>3, <3>7 DEF Known, OnePlace
    <3>9. QED
      BY <3>4, <3>5, <3>6, <3>8 DEF Known
  <2>10. QED
    BY <1>5, <2>6, <2>7, <2>8, <2>9 DEF IInv, AnswersOK
<1>8. QED
  BY <1>1, <1>6, <1>7

LEMMA NextOK == IInv /\ [Next]_vars => IInv' /\ ContractStep
<1> SUFFICES ASSUME IInv, [Next]_vars PROVE IInv' /\ ContractStep
  OBVIOUS
<1>1. ASSUME NEW n \in Sizes, Push(n) PROVE IInv' /\ ContractStep
  BY <1>1, PushOK
<1>2. CASE Connect \/ Pop \/ TryRecv \/ Go \/ Reset
  BY <1>2, ConnectOK, PopOK, TryRecvOK, GoOK, ResetOK
<1>3. CASE \/ Flush \/ EndFlush \/ EndShutdown \/ StartSync \/ Read
           \/ ServerRead \/ ServerWrite \/ UNCHANGED vars
  BY <1>3, WaitingOK
<1>4. CASE Step \/ Shutdown \/ EndSync
  BY <1>4, TellingOK
<1>5. CASE ServerReceive \/ SendProof
  BY <1>5, ServerReceiveOK, SendProofOK
<1>6. CASE SendThroughput \/ SendSize
  BY <1>6, ReportingOK
<1>7. CASE Disconnect \/ ServerWriteFails
  BY <1>7, LeavingOK
<1>8. QED
  BY <1>1, <1>2, <1>3, <1>4, <1>5, <1>6, <1>7 DEF Next

-----------------------------------------------------------------------------
(* What the runs check. *)

LEMMA InvHolds == Spec => []IInv
<1>1. Init => IInv
  BY InitOK
<1>2. IInv /\ [Next]_vars => IInv'
  BY NextOK
<1>3. QED
  BY <1>1, <1>2, PTL DEF Spec

\* The variables keep their types: the unsigned sizes of the client stay natural
\* numbers, no wire holds more than its window, and a length prefix is read as a
\* whole or not at all (aggregator.rs:1011 to 1041, 1055 to 1062, 1216, 1252 to 1256).
THEOREM TypeCorrect == Spec => []TypeOK
<1>1. IInv => TypeOK
  BY StreamsTyped DEF IInv, Typed, Framing, TypeOK
<1>2. QED
  BY <1>1, InvHolds, PTL

\* What is on its way to an end that is there is a sequence of whole frames that
\* begins where that end goes on reading, however reads and writes are cut short
\* and whichever end goes away (aggregator.rs:991 to 1110).
THEOREM FramesWholeHolds == Spec => []FramesWhole
<1>1. IInv => FramesWhole
  BY StreamsTyped, SameFrames DEF IInv, Framing, FramesWhole
<1>2. QED
  BY <1>1, InvHolds, PTL

\* The client's speculative size is what is on its way to the server or not yet
\* reported by it, and what is on its way back, however the two streams are cut
\* into reads and writes (aggregator.rs:1216, 1252 to 1256, 1319 to 1355).
THEOREM OuterSizeHolds == Spec => []OuterSizeIsInFlight
<1>1. IInv => OuterSizeIsInFlight
  BY StreamsTyped DEF IInv, SizesOK, OuterSizeIsInFlight
<1>2. QED
  BY <1>1, InvHolds, PTL

\* Across the network, every step is one of the trait's promise or none: a caller
\* is given an answer once, under the id of its own batch, and it is the root over
\* the leaves of this batch, for any clients one after another (aggregator.rs:1210
\* to 1273, 1310 to 1361).
THEOREM ImplementsContract == Spec => KeepsContract
<1>1. Init => IInv /\ Contract!Init
  BY InitOK
<1>2. IInv /\ [Next]_vars => IInv' /\ [Contract!Next]_<<asked, given>>
  BY NextOK DEF ContractStep
<1>3. QED
  BY <1>1, <1>2, PTL DEF Spec, KeepsContract, Contract!Safe
=============================================================================
