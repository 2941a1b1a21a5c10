--------------------------- MODULE SequenceLemmas ---------------------------
(***************************************************************************)
(* Facts that the proofs of the other modules share: about sequences and   *)
(* sums over them, about logs, and about the trees that aggregators build. *)
(***************************************************************************)
EXTENDS Totals, ProofTrees, SequencesExt, SequenceTheorems, WellFoundedInduction, TLAPS

\* A sequence, of whatever elements.
IsSeq(s) == s \in Seq(ToSet(s))

LEMMA FunctionIsSeq ==
  ASSUME NEW S, NEW n \in Nat, NEW f \in [1..n -> S]
  PROVE  f \in Seq(S) /\ Len(f) = n /\ DOMAIN f = 1..n
<1>1. f = [i \in 1..n |-> f[i]]
  OBVIOUS
<1>2. f \in Seq(S)
  BY <1>1, IsASeq
<1>3. QED
  BY <1>2, LenProperties

LEMMA SeqIsSeq ==
  ASSUME NEW S, NEW s \in Seq(S)
  PROVE  IsSeq(s) /\ DOMAIN s = 1..Len(s) /\ ToSet(s) = {s[i] : i \in 1..Len(s)}
<1>1. s \in [1..Len(s) -> ToSet(s)] /\ Len(s) \in Nat /\ DOMAIN s = 1..Len(s)
  BY LenProperties DEF ToSet
<1>2. QED
  BY <1>1, FunctionIsSeq DEF IsSeq, ToSet

LEMMA IsSeqRange ==
  ASSUME NEW s, IsSeq(s)
  PROVE  ToSet(s) = {s[i] : i \in 1..Len(s)}
BY SeqIsSeq DEF IsSeq

LEMMA FunctionSeq ==
  ASSUME NEW n \in Nat, NEW f, f = [i \in 1..n |-> f[i]]
  PROVE  IsSeq(f) /\ Len(f) = n
<1> DEFINE S == {f[i] : i \in 1..n}
<1>1. f \in [1..n -> S]
  OBVIOUS
<1> HIDE DEF S
<1>2. QED
  BY <1>1, FunctionIsSeq, SeqIsSeq

LEMMA AppendIsSeq ==
  ASSUME NEW s, IsSeq(s), NEW e
  PROVE  /\ IsSeq(Append(s, e))
         /\ Len(Append(s, e)) = Len(s) + 1
         /\ ToSet(Append(s, e)) = ToSet(s) \cup {e}
         /\ \A i \in 1..Len(s) : Append(s, e)[i] = s[i]
         /\ Append(s, e)[Len(s) + 1] = e
<1>1. s \in Seq(ToSet(s) \cup {e})
  BY SeqMonotonic DEF IsSeq
<1>2. /\ Append(s, e) \in Seq(ToSet(s) \cup {e})
      /\ Len(Append(s, e)) = Len(s) + 1
      /\ \A i \in 1..Len(s) : Append(s, e)[i] = s[i]
      /\ Append(s, e)[Len(s) + 1] = e
      /\ Len(s) \in Nat
  BY <1>1, AppendProperties, LenProperties
<1>3. IsSeq(Append(s, e)) /\ ToSet(Append(s, e)) = {Append(s, e)[i] : i \in 1..(Len(s) + 1)}
  BY <1>2, SeqIsSeq
<1>4. ToSet(s) = {s[i] : i \in 1..Len(s)}
  BY SeqIsSeq DEF IsSeq
<1>5. QED
  BY <1>2, <1>3, <1>4

LEMMA TailIsSeq ==
  ASSUME NEW s, IsSeq(s), s # <<>>
  PROVE  /\ IsSeq(Tail(s))
         /\ DOMAIN s = 1..Len(s) /\ Len(s) \in Nat \ {0}
         /\ DOMAIN Tail(s) = 1..(Len(s) - 1)
         /\ \A i \in 1..(Len(s) - 1) : Tail(s)[i] = s[i + 1]
         /\ Head(s) = s[1] /\ Head(s) \in ToSet(s)
         /\ ToSet(Tail(s)) \subseteq ToSet(s)
<1>1. s \in Seq(ToSet(s))
  BY DEF IsSeq
<1>2. DOMAIN s = 1..Len(s) /\ Len(s) \in Nat \ {0} /\ ToSet(s) = {s[i] : i \in 1..Len(s)}
  BY <1>1, SeqIsSeq, LenProperties, EmptySeq
<1>3. /\ Tail(s) \in Seq(ToSet(s)) /\ Len(Tail(s)) = Len(s) - 1
      /\ \A i \in 1..(Len(s) - 1) : Tail(s)[i] = s[i + 1]
      /\ Head(s) \in ToSet(s)
  BY <1>1, HeadTailProperties
<1>4. Head(s) = s[1]
  BY <1>1, <1>2
<1>5. /\ IsSeq(Tail(s)) /\ DOMAIN Tail(s) = 1..(Len(s) - 1)
      /\ ToSet(Tail(s)) = {Tail(s)[i] : i \in 1..(Len(s) - 1)}
  BY <1>3, SeqIsSeq
<1>6. QED
  BY <1>2, <1>3, <1>4, <1>5
-----------------------------------------------------------------------------
(* Concatenation. *)

LEMMA IsSeqLength ==
  ASSUME NEW s, IsSeq(s)
  PROVE  Len(s) \in Nat /\ DOMAIN s = 1..Len(s)
BY LenProperties DEF IsSeq

LEMMA EmptyIsSeq == IsSeq(<<>>) /\ Len(<<>>) = 0
BY EmptySeq DEF IsSeq

LEMMA ConcatIsSeq ==
  ASSUME NEW s, IsSeq(s), NEW t, IsSeq(t)
  PROVE  /\ IsSeq(s \o t)
         /\ Len(s \o t) = Len(s) + Len(t)
         /\ \A i \in 1..(Len(s) + Len(t)) :
              (s \o t)[i] = IF i <= Len(s) THEN s[i] ELSE t[i - Len(s)]
<1> DEFINE S == ToSet(s) \cup ToSet(t)
<1>1. s \in Seq(S) /\ t \in Seq(S)
  BY SeqMonotonic DEF IsSeq
<1> HIDE DEF S
<1>2. /\ s \o t \in Seq(S)
      /\ Len(s \o t) = Len(s) + Len(t)
      /\ \A i \in 1..(Len(s) + Len(t)) :
           (s \o t)[i] = IF i <= Len(s) THEN s[i] ELSE t[i - Len(s)]
  BY <1>1, ConcatProperties
<1>3. QED
  BY <1>2, SeqIsSeq

\* A sequence that has the elements of one and then those of another.
LEMMA ConcatIs ==
  ASSUME NEW s, IsSeq(s), NEW t, IsSeq(t), NEW r, IsSeq(r),
         Len(r) = Len(s) + Len(t),
         \A i \in 1..Len(s) : r[i] = s[i],
         \A i \in 1..Len(t) : r[Len(s) + i] = t[i]
  PROVE  r = s \o t
<1>1. Len(s) \in Nat /\ Len(t) \in Nat /\ DOMAIN r = 1..(Len(s) + Len(t))
  BY IsSeqLength
<1> DEFINE u == s \o t
<1>2. /\ IsSeq(u) /\ Len(u) = Len(s) + Len(t)
      /\ \A i \in 1..(Len(s) + Len(t)) : u[i] = IF i <= Len(s) THEN s[i] ELSE t[i - Len(s)]
  BY ConcatIsSeq
<1>3. DOMAIN u = 1..(Len(s) + Len(t))
  BY <1>2, IsSeqLength
<1> HIDE DEF u
<1>4. ASSUME NEW i \in 1..(Len(s) + Len(t)) PROVE r[i] = u[i]
  <2>1. CASE i <= Len(s)
    BY <1>1, <1>2, <2>1
  <2>2. CASE ~(i <= Len(s))
    <3>1. i - Len(s) \in 1..Len(t) /\ i = Len(s) + (i - Len(s))
      BY <1>1, <2>2
    <3>2. r[i] = t[i - Len(s)]
      BY <3>1
    <3>3. QED
      BY <1>2, <2>2, <3>2
  <2>3. QED
    BY <2>1, <2>2
<1>5. r = [i \in 1..(Len(s) + Len(t)) |-> r[i]] /\ u = [i \in 1..(Len(s) + Len(t)) |-> u[i]]
  <2>1. r \in Seq(ToSet(r)) /\ u \in Seq(ToSet(u))
    BY <1>2 DEF IsSeq
  <2>2. r = [i \in DOMAIN r |-> r[i]] /\ u = [i \in DOMAIN u |-> u[i]]
    BY <2>1
  <2>3. QED
    BY <1>1, <1>3, <2>2
<1>6. QED
  BY <1>4, <1>5 DEF u

LEMMA ConcatToSet ==
  ASSUME NEW s, IsSeq(s), NEW t, IsSeq(t)
  PROVE  ToSet(s \o t) = ToSet(s) \cup ToSet(t)
<1> DEFINE r == s \o t
<1>1. /\ IsSeq(r) /\ Len(r) = Len(s) + Len(t) /\ Len(s) \in Nat /\ Len(t) \in Nat
      /\ \A i \in 1..(Len(s) + Len(t)) : r[i] = IF i <= Len(s) THEN s[i] ELSE t[i - Len(s)]
  BY ConcatIsSeq, IsSeqLength
<1> HIDE DEF r
<1>2. /\ ToSet(s) = {s[i] : i \in 1..Len(s)} /\ ToSet(t) = {t[i] : i \in 1..Len(t)}
      /\ ToSet(r) = {r[i] : i \in 1..(Len(s) + Len(t))}
  <2>1. s \in Seq(ToSet(s)) /\ t \in Seq(ToSet(t)) /\ r \in Seq(ToSet(r))
    BY <1>1 DEF IsSeq
  <2>2. ToSet(s) = {s[i] : i \in 1..Len(s)}
    BY <2>1, SeqIsSeq
  <2>3. ToSet(t) = {t[i] : i \in 1..Len(t)}
    BY <2>1, SeqIsSeq
  <2>4. ToSet(r) = {r[i] : i \in 1..Len(r)}
    BY <2>1, SeqIsSeq
  <2>5. QED
    BY <1>1, <2>2, <2>3, <2>4
<1>3. ASSUME NEW e \in ToSet(r) PROVE e \in ToSet(s) \cup ToSet(t)
  <2>1. PICK i \in 1..(Len(s) + Len(t)) : r[i] = e
    BY <1>2, <1>3
  <2>2. i \in 1..Len(s) \/ i - Len(s) \in 1..Len(t)
    BY <1>1
  <2>3. QED
    BY <1>1, <1>2, <2>1, <2>2
<1>4. ASSUME NEW e \in ToSet(s) PROVE e \in ToSet(r)
  <2>1. PICK i \in 1..Len(s) : s[i] = e
    BY <1>2, <1>4
  <2>2. i \in 1..(Len(s) + Len(t)) /\ i <= Len(s)
    BY <1>1
  <2>3. QED
    BY <1>1, <1>2, <2>1, <2>2
<1>5. ASSUME NEW e \in ToSet(t) PROVE e \in ToSet(r)
  <2>1. PICK i \in 1..Len(t) : t[i] = e
    BY <1>2, <1>5
  <2>2. /\ Len(s) + i \in 1..(Len(s) + Len(t)) /\ ~(Len(s) + i <= Len(s))
        /\ (Len(s) + i) - Len(s) = i
    BY <1>1
  <2>3. r[Len(s) + i] = e
    BY <1>1, <2>1, <2>2
  <2>4. QED
    BY <1>2, <2>2, <2>3
<1>6. QED
  BY <1>3, <1>4, <1>5 DEF r

LEMMA ConcatEmpty ==
  ASSUME NEW s, IsSeq(s)
  PROVE  s \o <<>> = s /\ <<>> \o s = s
BY ConcatEmptySeq DEF IsSeq

LEMMA Associative ==
  ASSUME NEW s, IsSeq(s), NEW t, IsSeq(t), NEW u, IsSeq(u)
  PROVE  (s \o t) \o u = s \o (t \o u)
<1> DEFINE S == ToSet(s) \cup ToSet(t) \cup ToSet(u)
<1>1. s \in Seq(S) /\ t \in Seq(S) /\ u \in Seq(S)
  BY SeqMonotonic DEF IsSeq
<1> HIDE DEF S
<1>2. QED
  BY <1>1, ConcatAssociative, SMTT(30)

\* A sequence is what comes first and what comes then.
LEMMA SplitIsSeq ==
  ASSUME NEW s, IsSeq(s), NEW n \in 0..Len(s)
  PROVE  /\ IsSeq(SubSeq(s, 1, n)) /\ IsSeq(SubSeq(s, n + 1, Len(s)))
         /\ SubSeq(s, 1, n) \o SubSeq(s, n + 1, Len(s)) = s
<1>1. s \in Seq(ToSet(s)) /\ Len(s) \in Nat /\ \A i \in 1..Len(s) : s[i] \in ToSet(s)
  BY SeqIsSeq, IsSeqLength DEF IsSeq
<1>2. SubSeq(s, 1, n) \in Seq(ToSet(s)) /\ SubSeq(s, n + 1, Len(s)) \in Seq(ToSet(s))
  <2>1. (\A i \in 1..n : s[i] \in ToSet(s)) /\ (\A i \in (n + 1)..Len(s) : s[i] \in ToSet(s))
    BY <1>1
  <2>2. n \in Int /\ n + 1 \in Int /\ Len(s) \in Int /\ 1 \in Int
    BY <1>1
  <2>3. QED
    BY <2>1, <2>2, SubSeqProperties
<1>3. SubSeq(s, 1, n) \o SubSeq(s, n + 1, Len(s)) = SubSeq(s, 1, Len(s))
  <2>1. 1 \in 1..(Len(s) + 1) /\ n \in (1 - 1)..Len(s) /\ Len(s) \in n..Len(s)
    BY <1>1
  <2>2. QED
    BY <1>1, <2>1, ConcatAdjacentSubSeq
<1>4. SubSeq(s, 1, Len(s)) = s
  BY <1>1, SubSeqFull
<1>5. QED
  BY <1>2, <1>3, <1>4, SeqIsSeq

-----------------------------------------------------------------------------
(* Sequences of messages and batches, some of which bear an id. *)

Bears(e) == "id" \in DOMAIN e
Ids(s) == {s[i].id : i \in {j \in DOMAIN s : Bears(s[j])}}
OnceEach(s) ==
  \A i, j \in DOMAIN s : Bears(s[i]) /\ Bears(s[j]) /\ s[i].id = s[j].id => i = j

LEMMA EmptyIds == IsSeq(<<>>) /\ OnceEach(<<>>) /\ Ids(<<>>) = {} /\ ToSet(<<>>) = {}
BY DEF IsSeq, OnceEach, Ids, ToSet

LEMMA HeadIds ==
  ASSUME NEW s, IsSeq(s), s # <<>>, OnceEach(s)
  PROVE  /\ IsSeq(Tail(s)) /\ OnceEach(Tail(s))
         /\ ToSet(Tail(s)) \subseteq ToSet(s) /\ Head(s) \in ToSet(s)
         /\ Bears(Head(s)) => Head(s).id \in Ids(s) /\ Ids(Tail(s)) = Ids(s) \ {Head(s).id}
         /\ ~Bears(Head(s)) => Ids(Tail(s)) = Ids(s)
<1> DEFINE n == Len(s)
           t == Tail(s)
<1>1. /\ IsSeq(t) /\ DOMAIN s = 1..n /\ n \in Nat \ {0} /\ DOMAIN t = 1..(n - 1)
      /\ \A i \in 1..(n - 1) : t[i] = s[i + 1]
      /\ Head(s) = s[1] /\ Head(s) \in ToSet(s) /\ ToSet(t) \subseteq ToSet(s)
  BY TailIsSeq
<1> HIDE DEF n, t
<1>2. OnceEach(t)
  <2>1. SUFFICES ASSUME NEW i \in 1..(n - 1), NEW j \in 1..(n - 1),
                        Bears(t[i]), Bears(t[j]), t[i].id = t[j].id
                 PROVE  i = j
    BY <1>1 DEF OnceEach
  <2>2. i + 1 \in DOMAIN s /\ j + 1 \in DOMAIN s /\ t[i] = s[i + 1] /\ t[j] = s[j + 1]
    BY <1>1
  <2>3. i + 1 = j + 1
    BY <2>1, <2>2 DEF OnceEach
  <2>4. QED
    BY <2>3
<1>3. ASSUME NEW x
      PROVE  x \in Ids(s) <=> x \in Ids(t) \/ (Bears(s[1]) /\ x = s[1].id)
  <2>1. x \in Ids(s) <=> \E i \in 1..n : Bears(s[i]) /\ x = s[i].id
    BY <1>1 DEF Ids
  <2>2. x \in Ids(t) <=> \E i \in 1..(n - 1) : Bears(s[i + 1]) /\ x = s[i + 1].id
    <3>1. x \in Ids(t) <=> \E i \in 1..(n - 1) : Bears(t[i]) /\ x = t[i].id
      BY <1>1 DEF Ids
    <3>2. QED
      BY <1>1, <3>1
  <2>3. \A i \in 1..n : i = 1 \/ (i - 1 \in 1..(n - 1) /\ i = (i - 1) + 1)
    BY <1>1
  <2>4. \A i \in 1..(n - 1) : i + 1 \in 1..n
    BY <1>1
  <2>5. 1 \in 1..n
    BY <1>1
  <2>6. QED
    BY <2>1, <2>2, <2>3, <2>4, <2>5
<1>4. ASSUME Bears(s[1]) PROVE s[1].id \notin Ids(t)
  <2>1. SUFFICES ASSUME NEW i \in 1..(n - 1), Bears(s[i + 1]), s[i + 1].id = s[1].id
                 PROVE  FALSE
    BY <1>1 DEF Ids
  <2>2. i + 1 = 1
    BY <1>1, <1>4, <2>1 DEF OnceEach
  <2>3. QED
    BY <2>2
<1>5. QED
  BY <1>1, <1>2, <1>3, <1>4 DEF t

LEMMA AppendIds ==
  ASSUME NEW s, IsSeq(s), OnceEach(s), NEW e, Bears(e) => e.id \notin Ids(s)
  PROVE  /\ IsSeq(Append(s, e)) /\ OnceEach(Append(s, e))
         /\ ToSet(Append(s, e)) = ToSet(s) \cup {e}
         /\ Ids(Append(s, e)) = IF Bears(e) THEN Ids(s) \cup {e.id} ELSE Ids(s)
<1> DEFINE n == Len(s)
           t == Append(s, e)
<1>1. DOMAIN s = 1..n /\ n \in Nat
  <2>1. s \in Seq(ToSet(s))
    BY DEF IsSeq
  <2>2. QED
    BY <2>1, SeqIsSeq, LenProperties
<1>2. /\ IsSeq(t) /\ Len(t) = n + 1 /\ ToSet(t) = ToSet(s) \cup {e}
      /\ \A i \in 1..n : t[i] = s[i]
      /\ t[n + 1] = e
  BY AppendIsSeq
<1>3. DOMAIN t = 1..(n + 1)
  BY <1>2, SeqIsSeq DEF IsSeq
<1> HIDE DEF n, t
<1>4. \A i \in 1..(n + 1) : i \in 1..n \/ i = n + 1
  BY <1>1
<1>5. \A i \in 1..n : i \in 1..(n + 1) /\ i # n + 1
  BY <1>1
<1>6. n + 1 \in 1..(n + 1)
  BY <1>1
<1>7. Ids(s) = {s[i].id : i \in {j \in 1..n : Bears(s[j])}}
  BY <1>1 DEF Ids
<1>8. OnceEach(t)
  <2>1. SUFFICES ASSUME NEW i \in 1..(n + 1), NEW j \in 1..(n + 1),
                        Bears(t[i]), Bears(t[j]), t[i].id = t[j].id
                 PROVE  i = j
    BY <1>3 DEF OnceEach
  <2>2. CASE i \in 1..n /\ j \in 1..n
    BY <1>1, <1>2, <2>1, <2>2 DEF OnceEach
  <2>3. CASE i = n + 1 /\ j \in 1..n
    BY <1>2, <1>7, <2>1, <2>3
  <2>4. CASE i \in 1..n /\ j = n + 1
    BY <1>2, <1>7, <2>1, <2>4
  <2>5. QED
    BY <1>4, <2>2, <2>3, <2>4
<1>9. ASSUME NEW x
      PROVE  x \in Ids(t) <=> x \in Ids(s) \/ (Bears(e) /\ x = e.id)
  <2>1. x \in Ids(t) <=> \E i \in 1..(n + 1) : Bears(t[i]) /\ x = t[i].id
    BY <1>3 DEF Ids
  <2>2. x \in Ids(s) <=> \E i \in 1..n : Bears(s[i]) /\ x = s[i].id
    BY <1>7
  <2>3. QED
    BY <1>2, <1>4, <1>5, <1>6, <2>1, <2>2
<1>10. QED
  BY <1>2, <1>8, <1>9 DEF t

LEMMA IdsOf ==
  ASSUME NEW s, NEW x
  PROVE  x \in Ids(s) <=> \E e \in ToSet(s) : Bears(e) /\ e.id = x
BY DEF Ids, ToSet

Listed(s) == IsSeq(s) /\ OnceEach(s)

-----------------------------------------------------------------------------
(* Logs: sequences of events that happen at most once. *)

Distinct(s) == \A i, j \in 1..Len(s) : s[i] = s[j] => i = j

PlaceOf(s, e) == CHOOSE i \in DOMAIN s : s[i] = e

LEMMA PlaceIs ==
  ASSUME NEW s, IsSeq(s), Distinct(s), NEW e \in ToSet(s)
  PROVE  /\ PlaceOf(s, e) \in 1..Len(s) /\ s[PlaceOf(s, e)] = e /\ Len(s) \in Nat
         /\ \A i \in 1..Len(s) : s[i] = e => PlaceOf(s, e) = i
<1>1. DOMAIN s = 1..Len(s) /\ ToSet(s) = {s[i] : i \in 1..Len(s)} /\ Len(s) \in Nat
  BY SeqIsSeq, LenProperties, SMTT(30) DEF IsSeq
<1>2. \E i \in DOMAIN s : s[i] = e
  BY <1>1
<1>3. PlaceOf(s, e) \in 1..Len(s) /\ s[PlaceOf(s, e)] = e
  BY <1>1, <1>2 DEF PlaceOf
<1>4. QED
  BY <1>1, <1>3 DEF Distinct

\* A new event comes after all the others, which stay where they are.
LEMMA PlacesStay ==
  ASSUME NEW s, IsSeq(s), Distinct(s), NEW e, e \notin ToSet(s)
  PROVE  /\ IsSeq(Append(s, e)) /\ Distinct(Append(s, e))
         /\ ToSet(Append(s, e)) = ToSet(s) \cup {e}
         /\ \A f \in ToSet(s) : PlaceOf(Append(s, e), f) = PlaceOf(s, f)
         /\ PlaceOf(Append(s, e), e) = Len(s) + 1
<1> DEFINE n == Len(s)
           r == Append(s, e)
<1>1. ToSet(s) = {s[i] : i \in 1..n} /\ n \in Nat
  BY SeqIsSeq, LenProperties DEF IsSeq
<1>2. /\ IsSeq(r) /\ Len(r) = n + 1 /\ ToSet(r) = ToSet(s) \cup {e}
      /\ \A i \in 1..n : r[i] = s[i]
      /\ r[n + 1] = e
  BY AppendIsSeq
<1> HIDE DEF r
<1>3. Distinct(r)
  <2>1. SUFFICES ASSUME NEW i \in 1..(n + 1), NEW j \in 1..(n + 1), r[i] = r[j]
                 PROVE  i = j
    BY <1>2 DEF Distinct
  <2>2. \A k \in 1..n : r[k] # e
    BY <1>1, <1>2
  <2>3. CASE i \in 1..n /\ j \in 1..n
    BY <2>1, <2>3, <1>2 DEF Distinct
  <2>4. CASE i = n + 1 \/ j = n + 1
    BY <2>1, <2>2, <2>4, <1>1, <1>2
  <2>5. QED
    BY <2>3, <2>4, <1>1
<1>4. PlaceOf(r, e) = n + 1
  BY <1>1, <1>2, <1>3, PlaceIs
<1>5. ASSUME NEW f \in ToSet(s) PROVE PlaceOf(r, f) = PlaceOf(s, f)
  <2>1. PlaceOf(s, f) \in 1..n /\ s[PlaceOf(s, f)] = f
    BY PlaceIs
  <2>2. PlaceOf(s, f) \in 1..(n + 1) /\ r[PlaceOf(s, f)] = f /\ f \in ToSet(r)
    BY <2>1, <1>1, <1>2
  <2>3. QED
    BY <2>2, <1>2, <1>3, PlaceIs
<1>6. QED
  BY <1>2, <1>3, <1>4, <1>5 DEF r

-----------------------------------------------------------------------------
(* Induction over the natural numbers: a set that has 0 and the successor of *)
(* each of its elements has them all.                                        *)

LEMMA Induction ==
  ASSUME NEW S, 0 \in S, \A n \in Nat : n \in S => n + 1 \in S
  PROVE  \A n \in Nat : n \in S
<1> DEFINE T == Nat \ S
           R == OpToRel(<, Nat)
<1>1. SUFFICES ASSUME T # {} PROVE FALSE
  OBVIOUS
<1>2. IsWellFoundedOn(R, Nat)
  BY NatLessThanWellFounded
<1>3. PICK x \in T : \A y \in T : <<y, x>> \notin R
  <2>1. T \subseteq Nat
    OBVIOUS
  <2> HIDE DEF T, R
  <2>2. QED
    BY <1>1, <1>2, <2>1, WFMin
<1>4. x \in Nat /\ x # 0 /\ x - 1 \in Nat
  OBVIOUS
<1>5. x - 1 \in S
  <2>1. <<x - 1, x>> \in R
    BY <1>4 DEF OpToRel
  <2>2. QED
    BY <1>3, <1>4, <2>1
<1>6. (x - 1) + 1 \in S
  BY <1>4, <1>5
<1>7. QED
  BY <1>4, <1>6

-----------------------------------------------------------------------------
(* Sums. *)

Partial(s) ==
  CHOOSE upto : upto = [i \in 0..Len(s) |-> IF i = 0 THEN 0 ELSE upto[i - 1] + s[i]]

\* The recursion that defines a sum has a solution.
LEMMA PartialDef ==
  ASSUME NEW s, Len(s) \in Nat
  PROVE  /\ Total(s) = Partial(s)[Len(s)]
         /\ Partial(s)[0] = 0
         /\ \A i \in 1..Len(s) : Partial(s)[i] = Partial(s)[i - 1] + s[i]
<1> DEFINE Upto(f, n) == f = [i \in 0..n |-> IF i = 0 THEN 0 ELSE f[i - 1] + s[i]]
           S == {n \in Nat : \E f : Upto(f, n)}
<1>1. 0 \in S
  <2>1. Upto([i \in 0..0 |-> 0], 0)
    OBVIOUS
  <2>2. QED
    BY <2>1
<1>2. ASSUME NEW n \in Nat, n \in S PROVE n + 1 \in S
  <2>1. PICK f : Upto(f, n)
    BY <1>2
  <2> DEFINE g == [i \in 0..(n + 1) |-> IF i = n + 1 THEN f[n] + s[n + 1] ELSE f[i]]
  <2>2. \A i \in 0..(n + 1) : g[i] = IF i = 0 THEN 0 ELSE g[i - 1] + s[i]
    <3>1. SUFFICES ASSUME NEW i \in 0..(n + 1)
                   PROVE  g[i] = IF i = 0 THEN 0 ELSE g[i - 1] + s[i]
      OBVIOUS
    <3>2. CASE i = n + 1
      BY <3>2
    <3>3. CASE i # n + 1
      <4>1. i \in 0..n /\ f[i] = IF i = 0 THEN 0 ELSE f[i - 1] + s[i]
        BY <2>1, <3>3
      <4>2. g[i] = f[i] /\ (i # 0 => g[i - 1] = f[i - 1])
        BY <3>3
      <4>3. QED
        BY <4>1, <4>2
    <3>4. QED
      BY <3>2, <3>3
  <2>3. Upto(g, n + 1)
    BY <2>2
  <2> HIDE DEF g
  <2>4. QED
    BY <2>3
<1>3. Len(s) \in S
  <2> HIDE DEF S
  <2>1. QED
    BY <1>1, <1>2, Induction
<1>4. Upto(Partial(s), Len(s))
  BY <1>3 DEF Partial
<1>5. Total(s) = Partial(s)[Len(s)]
  BY DEF Total, Partial
<1>6. QED
  BY <1>4, <1>5

IsNumbers(s) == IsSeq(s) /\ \A i \in 1..Len(s) : s[i] \in Int
IsCounts(s) == IsSeq(s) /\ \A i \in 1..Len(s) : s[i] \in Nat

LEMMA CountsAreNumbers ==
  ASSUME NEW s, IsCounts(s)
  PROVE  IsNumbers(s)
BY DEF IsCounts, IsNumbers

LEMMA PartialInt ==
  ASSUME NEW s, IsNumbers(s)
  PROVE  \A i \in 0..Len(s) : Partial(s)[i] \in Int
<1> DEFINE S == {n \in Nat : n <= Len(s) => Partial(s)[n] \in Int}
<1>1. Len(s) \in Nat
  BY IsSeqLength DEF IsNumbers
<1>2. 0 \in S
  BY <1>1, PartialDef
<1>3. ASSUME NEW n \in Nat, n \in S PROVE n + 1 \in S
  <2>1. SUFFICES ASSUME n + 1 <= Len(s) PROVE Partial(s)[n + 1] \in Int
    OBVIOUS
  <2>2. n + 1 \in 1..Len(s) /\ (n + 1) - 1 = n
    BY <1>1, <2>1
  <2>3. Partial(s)[n + 1] = Partial(s)[n] + s[n + 1]
    BY <1>1, <2>2, PartialDef
  <2>4. Partial(s)[n] \in Int /\ s[n + 1] \in Int
    BY <1>1, <1>3, <2>1, <2>2 DEF IsNumbers
  <2>5. QED
    BY <2>3, <2>4
<1>4. \A n \in Nat : n \in S
  <2> HIDE DEF S
  <2>1. QED
    BY <1>2, <1>3, Induction
<1>5. QED
  BY <1>1, <1>4

LEMMA TotalInt ==
  ASSUME NEW s, IsNumbers(s)
  PROVE  Total(s) \in Int
<1>1. Len(s) \in Nat
  BY IsSeqLength DEF IsNumbers
<1>2. QED
  BY <1>1, PartialDef, PartialInt

LEMMA TotalEmpty == IsCounts(<<>>) /\ Total(<<>>) = 0
<1>1. IsSeq(<<>>) /\ Len(<<>>) = 0
  BY EmptyIsSeq
<1>2. QED
  BY <1>1, PartialDef DEF IsCounts

\* The sum of two sequences one after the other.
LEMMA TotalConcat ==
  ASSUME NEW s, IsNumbers(s), NEW t, IsNumbers(t)
  PROVE  IsNumbers(s \o t) /\ Total(s \o t) = Total(s) + Total(t)
<1> DEFINE r == s \o t
           m == Len(s)
           k == Len(t)
<1>1. /\ IsSeq(s) /\ IsSeq(t)
  BY DEF IsNumbers
<1>2. m \in Nat /\ k \in Nat
  BY <1>1, IsSeqLength
<1>3. /\ IsSeq(r) /\ Len(r) = m + k
      /\ \A i \in 1..(m + k) : r[i] = IF i <= m THEN s[i] ELSE t[i - m]
  BY <1>1, ConcatIsSeq
<1> HIDE DEF r
<1>4. \A i \in 1..m : r[i] = s[i]
  BY <1>2, <1>3
<1>5. \A i \in 1..k : r[m + i] = t[i]
  <2>1. ASSUME NEW i \in 1..k PROVE r[m + i] = t[i]
    <3>1. m + i \in 1..(m + k) /\ ~(m + i <= m) /\ (m + i) - m = i
      BY <1>2
    <3>2. QED
      BY <1>3, <3>1
  <2>2. QED
    BY <2>1
<1>6. IsNumbers(r)
  <2>1. ASSUME NEW i \in 1..(m + k) PROVE r[i] \in Int
    <3>1. CASE i <= m
      BY <1>2, <1>4, <3>1 DEF IsNumbers
    <3>2. CASE ~(i <= m)
      <4>1. i - m \in 1..k /\ r[i] = t[i - m]
        BY <1>2, <1>3, <3>2
      <4>2. QED
        BY <4>1 DEF IsNumbers
    <3>3. QED
      BY <3>1, <3>2
  <2>2. QED
    BY <1>3, <2>1 DEF IsNumbers
<1> DEFINE S == {n \in Nat : n <= m => Partial(r)[n] = Partial(s)[n]}
           T == {n \in Nat : n <= k => Partial(r)[m + n] = Partial(s)[m] + Partial(t)[n]}
<1>7. /\ \A i \in 1..(m + k) : Partial(r)[i] = Partial(r)[i - 1] + r[i]
      /\ Partial(r)[0] = 0 /\ Total(r) = Partial(r)[m + k]
  <2>1. Len(r) \in Nat
    BY <1>2, <1>3
  <2>2. /\ \A i \in 1..Len(r) : Partial(r)[i] = Partial(r)[i - 1] + r[i]
        /\ Partial(r)[0] = 0 /\ Total(r) = Partial(r)[Len(r)]
    BY <2>1, PartialDef
  <2>3. QED
    BY <1>3, <2>2
<1>8. /\ \A i \in 1..m : Partial(s)[i] = Partial(s)[i - 1] + s[i]
      /\ Partial(s)[0] = 0 /\ Total(s) = Partial(s)[m]
  BY <1>2, PartialDef
<1>9. /\ \A i \in 1..k : Partial(t)[i] = Partial(t)[i - 1] + t[i]
      /\ Partial(t)[0] = 0 /\ Total(t) = Partial(t)[k]
  BY <1>2, PartialDef
<1>10. /\ \A i \in 0..m : Partial(s)[i] \in Int
       /\ \A i \in 0..k : Partial(t)[i] \in Int
  BY PartialInt
<1>11. m \in S
  <2>1. 0 \in S
    BY <1>7, <1>8
  <2>2. ASSUME NEW n \in Nat, n \in S PROVE n + 1 \in S
    <3>1. SUFFICES ASSUME n + 1 <= m PROVE Partial(r)[n + 1] = Partial(s)[n + 1]
      OBVIOUS
    <3>2. n + 1 \in 1..m /\ n + 1 \in 1..(m + k) /\ (n + 1) - 1 = n
      BY <1>2, <3>1
    <3>3. Partial(r)[n] = Partial(s)[n]
      BY <1>2, <2>2, <3>1
    <3>4. QED
      BY <1>4, <1>7, <1>8, <3>2, <3>3
  <2> HIDE DEF S
  <2>3. QED
    BY <1>2, <2>1, <2>2, Induction
<1>12. k \in T
  <2>1. 0 \in T
    BY <1>2, <1>8, <1>9, <1>10, <1>11
  <2>2. ASSUME NEW n \in Nat, n \in T PROVE n + 1 \in T
    <3>1. SUFFICES ASSUME n + 1 <= k
                   PROVE  Partial(r)[m + (n + 1)] = Partial(s)[m] + Partial(t)[n + 1]
      OBVIOUS
    <3>2. n + 1 \in 1..k /\ m + (n + 1) \in 1..(m + k) /\ (m + (n + 1)) - 1 = m + n
          /\ (n + 1) - 1 = n /\ n \in 0..k /\ m \in 0..m
      BY <1>2, <3>1
    <3>3. Partial(r)[m + n] = Partial(s)[m] + Partial(t)[n]
      BY <1>2, <2>2, <3>1
    <3>4. Partial(r)[m + (n + 1)] = Partial(r)[m + n] + r[m + (n + 1)]
      BY <1>7, <3>2
    <3>5. Partial(t)[n + 1] = Partial(t)[n] + t[n + 1] /\ r[m + (n + 1)] = t[n + 1]
      BY <1>5, <1>9, <3>2
    <3>6. Partial(s)[m] \in Int /\ Partial(t)[n] \in Int /\ t[n + 1] \in Int
      BY <1>10, <3>2 DEF IsNumbers
    <3>7. QED
      BY <3>3, <3>4, <3>5, <3>6
  <2> HIDE DEF T
  <2>3. QED
    BY <1>2, <2>1, <2>2, Induction
<1>13. QED
  BY <1>2, <1>6, <1>7, <1>8, <1>9, <1>12 DEF r

LEMMA TotalOne ==
  ASSUME NEW e \in Int
  PROVE  IsNumbers(<<e>>) /\ Total(<<e>>) = e
<1> DEFINE s == <<e>>
<1>1. s \in Seq({e}) /\ Len(s) = 1 /\ s[1] = e
  OBVIOUS
<1> HIDE DEF s
<1>2. IsSeq(s)
  BY <1>1, SeqIsSeq
<1>3. IsNumbers(s)
  BY <1>1, <1>2 DEF IsNumbers
<1>4. Partial(s)[1] = Partial(s)[1 - 1] + s[1] /\ Partial(s)[0] = 0
      /\ Total(s) = Partial(s)[1]
  <2>1. Len(s) \in Nat
    BY <1>1
  <2>2. /\ \A i \in 1..Len(s) : Partial(s)[i] = Partial(s)[i - 1] + s[i]
        /\ Partial(s)[0] = 0 /\ Total(s) = Partial(s)[Len(s)]
    BY <2>1, PartialDef
  <2>3. QED
    BY <1>1, <2>2
<1>5. Total(s) = e
  BY <1>1, <1>4
<1>6. QED
  BY <1>3, <1>5 DEF s

LEMMA TotalNat ==
  ASSUME NEW s, IsCounts(s)
  PROVE  Total(s) \in Nat /\ \A i \in 1..Len(s) : s[i] <= Total(s)
<1> DEFINE m == Len(s)
           P == Partial(s)
<1>1. m \in Nat
  BY IsSeqLength DEF IsCounts
<1>2. /\ \A i \in 1..m : P[i] = P[i - 1] + s[i]
      /\ P[0] = 0 /\ Total(s) = P[m]
  BY <1>1, PartialDef
<1> HIDE DEF P
<1>3. \A i \in 1..m : s[i] \in Nat
  BY DEF IsCounts
<1> DEFINE S == {n \in Nat : n <= m => P[n] \in Nat /\ \A i \in 1..n : s[i] <= P[n]}
<1>4. 0 \in S
  BY <1>2
<1>5. ASSUME NEW n \in Nat, n \in S PROVE n + 1 \in S
  <2>1. SUFFICES ASSUME n + 1 <= m
                 PROVE  P[n + 1] \in Nat /\ \A i \in 1..(n + 1) : s[i] <= P[n + 1]
    OBVIOUS
  <2>2. n + 1 \in 1..m /\ (n + 1) - 1 = n
    BY <1>1, <2>1
  <2>3. P[n + 1] = P[n] + s[n + 1] /\ s[n + 1] \in Nat
    BY <1>2, <1>3, <2>2
  <2>4. P[n] \in Nat /\ \A i \in 1..n : s[i] <= P[n]
    BY <1>1, <1>5, <2>1
  <2>5. \A i \in 1..n : s[i] \in Nat
    BY <1>1, <1>3, <2>1
  <2>6. \A i \in 1..(n + 1) : i \in 1..n \/ i = n + 1
    OBVIOUS
  <2>7. QED
    BY <2>3, <2>4, <2>5, <2>6
<1>6. m \in S
  <2> HIDE DEF S
  <2>1. QED
    BY <1>1, <1>4, <1>5, Induction
<1>7. QED
  BY <1>1, <1>2, <1>6

\* One number more.
LEMMA TotalAppended ==
  ASSUME NEW s, IsCounts(s), NEW t, IsSeq(t), Len(t) = Len(s) + 1,
         \A i \in 1..Len(s) : t[i] = s[i], t[Len(s) + 1] \in Nat
  PROVE  IsCounts(t) /\ Total(t) = Total(s) + t[Len(s) + 1]
<1> DEFINE e == t[Len(s) + 1]
           u == <<e>>
<1>1. IsSeq(s) /\ Len(s) \in Nat /\ \A i \in 1..Len(s) : s[i] \in Nat
  BY IsSeqLength DEF IsCounts
<1>2. IsCounts(t)
  <2>1. \A i \in 1..(Len(s) + 1) : i \in 1..Len(s) \/ i = Len(s) + 1
    BY <1>1
  <2>2. QED
    BY <1>1, <2>1 DEF IsCounts
<1>3. u \in Seq({e}) /\ Len(u) = 1 /\ u[1] = e
  OBVIOUS
<1>4. e \in Int
  OBVIOUS
<1>5. IsNumbers(u) /\ Total(u) = e
  BY <1>4, TotalOne
<1> HIDE DEF u
<1>6. t = s \o u
  <2>1. \A i \in 1..Len(u) : t[Len(s) + i] = u[i]
    BY <1>1, <1>3
  <2>2. IsSeq(u) /\ Len(t) = Len(s) + Len(u)
    BY <1>3, <1>5 DEF IsNumbers
  <2>3. QED
    BY <1>1, <2>1, <2>2, ConcatIs
<1>7. QED
  BY <1>2, <1>5, <1>6, CountsAreNumbers, TotalConcat

\* The first number and the others.
LEMMA TotalTail ==
  ASSUME NEW s, IsCounts(s), Len(s) # 0, NEW t, IsSeq(t), Len(t) = Len(s) - 1,
         \A i \in 1..Len(t) : t[i] = s[i + 1]
  PROVE  IsCounts(t) /\ Total(s) = s[1] + Total(t)
<1> DEFINE e == s[1]
           u == <<e>>
<1>1. IsSeq(s) /\ Len(s) \in Nat /\ \A i \in 1..Len(s) : s[i] \in Nat
  BY IsSeqLength DEF IsCounts
<1>2. IsCounts(t)
  BY <1>1 DEF IsCounts
<1>3. e \in Nat /\ u \in Seq({e}) /\ Len(u) = 1 /\ u[1] = e
  BY <1>1
<1>4. e \in Int
  BY <1>3
<1>5. IsNumbers(u) /\ Total(u) = e
  BY <1>4, TotalOne
<1> HIDE DEF u
<1>6. s = u \o t
  <2>1. \A i \in 1..Len(u) : s[i] = u[i]
    BY <1>3
  <2>2. \A i \in 1..Len(t) : s[Len(u) + i] = t[i]
    BY <1>1, <1>3
  <2>3. IsSeq(u) /\ Len(s) = Len(u) + Len(t)
    BY <1>1, <1>3, <1>5 DEF IsNumbers
  <2>4. QED
    BY <1>1, <2>1, <2>2, <2>3, ConcatIs
<1>7. QED
  BY <1>2, <1>5, <1>6, CountsAreNumbers, TotalConcat

\* A sum of sums.
LEMMA TotalPlus ==
  ASSUME NEW r, IsNumbers(r), NEW s, IsNumbers(s), NEW t, IsNumbers(t),
         Len(s) = Len(r), Len(t) = Len(r), \A i \in 1..Len(r) : r[i] = s[i] + t[i]
  PROVE  Total(r) = Total(s) + Total(t)
<1> DEFINE m == Len(r)
           S == {n \in Nat : n <= m => Partial(r)[n] = Partial(s)[n] + Partial(t)[n]}
<1>1. m \in Nat
  BY IsSeqLength DEF IsNumbers
<1>2. /\ \A i \in 1..m : Partial(r)[i] = Partial(r)[i - 1] + r[i]
      /\ Partial(r)[0] = 0 /\ Total(r) = Partial(r)[m]
  BY <1>1, PartialDef
<1>3. /\ \A i \in 1..m : Partial(s)[i] = Partial(s)[i - 1] + s[i]
      /\ Partial(s)[0] = 0 /\ Total(s) = Partial(s)[m]
  BY <1>1, PartialDef
<1>4. /\ \A i \in 1..m : Partial(t)[i] = Partial(t)[i - 1] + t[i]
      /\ Partial(t)[0] = 0 /\ Total(t) = Partial(t)[m]
  BY <1>1, PartialDef
<1>5. (\A i \in 0..m : Partial(s)[i] \in Int) /\ (\A i \in 0..m : Partial(t)[i] \in Int)
  BY PartialInt
<1>6. 0 \in S
  BY <1>2, <1>3, <1>4
<1>7. ASSUME NEW n \in Nat, n \in S PROVE n + 1 \in S
  <2>1. SUFFICES ASSUME n + 1 <= m
                 PROVE  Partial(r)[n + 1] = Partial(s)[n + 1] + Partial(t)[n + 1]
    OBVIOUS
  <2>2. n + 1 \in 1..m /\ (n + 1) - 1 = n /\ n \in 0..m
    BY <1>1, <2>1
  <2>3. /\ Partial(r)[n + 1] = Partial(r)[n] + r[n + 1]
        /\ Partial(s)[n + 1] = Partial(s)[n] + s[n + 1]
        /\ Partial(t)[n + 1] = Partial(t)[n] + t[n + 1]
    BY <1>2, <1>3, <1>4, <2>2
  <2>4. Partial(r)[n] = Partial(s)[n] + Partial(t)[n]
    BY <1>7, <2>1
  <2>5. r[n + 1] = s[n + 1] + t[n + 1] /\ s[n + 1] \in Int /\ t[n + 1] \in Int
    BY <2>2 DEF IsNumbers
  <2>6. Partial(s)[n] \in Int /\ Partial(t)[n] \in Int
    BY <1>5, <2>2
  <2>7. QED
    BY <2>3, <2>4, <2>5, <2>6
<1>8. m \in S
  <2> HIDE DEF S
  <2>1. QED
    BY <1>1, <1>6, <1>7, Induction
<1>9. QED
  BY <1>1, <1>2, <1>3, <1>4, <1>8

\* Numbers all of which are zero, but perhaps the one at j.
LEMMA TotalAt ==
  ASSUME NEW s, IsNumbers(s), NEW j \in 1..Len(s), \A i \in 1..Len(s) : i # j => s[i] = 0
  PROVE  Total(s) = s[j]
<1> DEFINE m == Len(s)
           S == {n \in Nat : n <= m => Partial(s)[n] = IF n < j THEN 0 ELSE s[j]}
<1>1. m \in Nat /\ s[j] \in Int
  BY IsSeqLength DEF IsNumbers
<1>2. /\ \A i \in 1..m : Partial(s)[i] = Partial(s)[i - 1] + s[i]
      /\ Partial(s)[0] = 0 /\ Total(s) = Partial(s)[m]
  BY <1>1, PartialDef
<1>3. 0 \in S
  BY <1>2
<1>4. ASSUME NEW n \in Nat, n \in S PROVE n + 1 \in S
  <2>1. SUFFICES ASSUME n + 1 <= m PROVE Partial(s)[n + 1] = IF n + 1 < j THEN 0 ELSE s[j]
    OBVIOUS
  <2>2. n + 1 \in 1..m /\ (n + 1) - 1 = n
    BY <1>1, <2>1
  <2>3. Partial(s)[n + 1] = Partial(s)[n] + s[n + 1]
    BY <1>2, <2>2
  <2>4. Partial(s)[n] = IF n < j THEN 0 ELSE s[j]
    BY <1>1, <1>4, <2>1
  <2>5. CASE n + 1 = j
    BY <1>1, <2>3, <2>4, <2>5
  <2>6. CASE n + 1 # j
    <3>1. s[n + 1] = 0
      BY <2>2, <2>6
    <3>2. QED
      BY <1>1, <2>3, <2>4, <2>6, <3>1
  <2>7. QED
    BY <2>5, <2>6
<1>5. m \in S
  <2> HIDE DEF S
  <2>1. QED
    BY <1>1, <1>3, <1>4, Induction
<1>6. QED
  BY <1>1, <1>2, <1>5

LEMMA TotalZero ==
  ASSUME NEW s, IsNumbers(s), \A i \in 1..Len(s) : s[i] = 0
  PROVE  Total(s) = 0
<1>1. Len(s) \in Nat
  BY IsSeqLength DEF IsNumbers
<1>2. CASE Len(s) = 0
  BY <1>1, <1>2, PartialDef
<1>3. CASE Len(s) # 0
  <2>1. 1 \in 1..Len(s)
    BY <1>1, <1>3
  <2>2. QED
    BY <2>1, TotalAt
<1>4. QED
  BY <1>2, <1>3

LEMMA TotalShort ==
  ASSUME NEW s, IsNumbers(s), Len(s) \in {1, 2}
  PROVE  Total(s) = IF Len(s) = 1 THEN s[1] ELSE s[1] + s[2]
<1>1. Len(s) \in Nat /\ s[1] \in Int /\ Len(s) \in Nat /\ 1 \in 1..Len(s)
  BY DEF IsNumbers
<1>2. /\ Partial(s)[0] = 0 /\ Total(s) = Partial(s)[Len(s)]
      /\ \A i \in 1..Len(s) : Partial(s)[i] = Partial(s)[i - 1] + s[i]
  BY <1>1, PartialDef
<1>3. Partial(s)[1] = s[1]
  BY <1>1, <1>2
<1>4. Len(s) = 2 => Partial(s)[2] = s[1] + s[2]
  BY <1>2, <1>3
<1>5. QED
  BY <1>2, <1>3, <1>4

-----------------------------------------------------------------------------
(* Sequences put one after the other. *)

FlatUpto(ss) ==
  CHOOSE f : f = [i \in 1..Len(ss) |-> IF i = 1 THEN ss[i] ELSE f[i - 1] \o ss[i]]

AreSeqs(ss) == IsSeq(ss) /\ \A i \in 1..Len(ss) : IsSeq(ss[i])

LEMMA FlattenDef ==
  ASSUME NEW ss, Len(ss) \in Nat
  PROVE  /\ Len(ss) = 0 => FlattenSeq(ss) = ss
         /\ Len(ss) # 0 => FlattenSeq(ss) = FlatUpto(ss)[Len(ss)] /\ FlatUpto(ss)[1] = ss[1]
         /\ \A i \in 1..Len(ss) : i # 1 => FlatUpto(ss)[i] = FlatUpto(ss)[i - 1] \o ss[i]
<1> DEFINE Upto(f, n) == f = [i \in 1..n |-> IF i = 1 THEN ss[i] ELSE f[i - 1] \o ss[i]]
           S == {n \in Nat : \E f : Upto(f, n)}
<1>1. 0 \in S
  <2>1. Upto([i \in 1..0 |-> 0], 0)
    OBVIOUS
  <2>2. QED
    BY <2>1
<1>2. ASSUME NEW n \in Nat, n \in S PROVE n + 1 \in S
  <2>1. PICK f : Upto(f, n)
    BY <1>2
  <2> DEFINE e == IF n = 0 THEN ss[n + 1] ELSE f[n] \o ss[n + 1]
             g == [i \in 1..(n + 1) |-> IF i = n + 1 THEN e ELSE f[i]]
  <2>2. \A i \in 1..(n + 1) : g[i] = IF i = 1 THEN ss[i] ELSE g[i - 1] \o ss[i]
    <3>1. SUFFICES ASSUME NEW i \in 1..(n + 1)
                   PROVE  g[i] = IF i = 1 THEN ss[i] ELSE g[i - 1] \o ss[i]
      OBVIOUS
    <3>2. CASE i = n + 1
      <4>1. i # 1 => g[i - 1] = f[n]
        BY <3>2
      <4>2. g[i] = e
        BY <3>2
      <4>3. QED
        BY <3>2, <4>1, <4>2
    <3>3. CASE i # n + 1
      <4>0. i \in 1..n
        BY <3>3
      <4>1. i \in 1..n /\ f[i] = IF i = 1 THEN ss[i] ELSE f[i - 1] \o ss[i]
        BY <2>1, <4>0, Zenon
      <4>2. g[i] = f[i] /\ (i # 1 => g[i - 1] = f[i - 1])
        BY <3>3
      <4>3. QED
        BY <4>1, <4>2
    <3>4. QED
      BY <3>2, <3>3
  <2>3. Upto(g, n + 1)
    BY <2>2
  <2> HIDE DEF g, e, Upto
  <2>4. QED
    BY <2>3
<1>3. Len(ss) \in S
  <2> HIDE DEF S
  <2>1. QED
    BY <1>1, <1>2, Induction
<1>4. Upto(FlatUpto(ss), Len(ss))
  BY <1>3 DEF FlatUpto
<1>5. Len(ss) # 0 => FlattenSeq(ss) = FlatUpto(ss)[Len(ss)]
  BY DEF FlattenSeq, FlatUpto
<1>6. Len(ss) = 0 => FlattenSeq(ss) = ss
  BY DEF FlattenSeq
<1>7. ASSUME NEW i \in 1..Len(ss)
      PROVE  FlatUpto(ss)[i] = IF i = 1 THEN ss[i] ELSE FlatUpto(ss)[i - 1] \o ss[i]
  BY <1>4, Zenon
<1>8. Len(ss) # 0 => FlatUpto(ss)[1] = ss[1]
  <2>1. Len(ss) # 0 => 1 \in 1..Len(ss)
    OBVIOUS
  <2>2. QED
    BY <1>7, <2>1, Zenon
<1>9. \A i \in 1..Len(ss) : i # 1 => FlatUpto(ss)[i] = FlatUpto(ss)[i - 1] \o ss[i]
  BY <1>7, Zenon
<1>10. QED
  BY <1>5, <1>6, <1>8, <1>9, Zenon

\* One sequence more.
LEMMA FlattenAppended ==
  ASSUME NEW ss, AreSeqs(ss), NEW rr, AreSeqs(rr), Len(rr) = Len(ss) + 1,
         \A i \in 1..Len(ss) : rr[i] = ss[i]
  PROVE  /\ IsSeq(FlattenSeq(ss))
         /\ FlattenSeq(rr) = FlattenSeq(ss) \o rr[Len(ss) + 1]
<1> DEFINE m == Len(ss)
           F == FlatUpto(ss)
           G == FlatUpto(rr)
           S == {n \in Nat : n \in 1..m => IsSeq(F[n]) /\ G[n] = F[n]}
<1>1. m \in Nat /\ IsSeq(ss)
  BY IsSeqLength DEF AreSeqs
<1>2. /\ m = 0 => FlattenSeq(ss) = ss
      /\ m # 0 => FlattenSeq(ss) = F[m] /\ F[1] = ss[1]
      /\ \A i \in 1..m : i # 1 => F[i] = F[i - 1] \o ss[i]
  BY <1>1, FlattenDef, Zenon
<1>3. /\ FlattenSeq(rr) = G[m + 1] /\ G[1] = rr[1]
      /\ \A i \in 1..(m + 1) : i # 1 => G[i] = G[i - 1] \o rr[i]
  <2>1. Len(rr) \in Nat /\ Len(rr) # 0
    BY <1>1
  <2>2. /\ FlattenSeq(rr) = G[Len(rr)] /\ G[1] = rr[1]
        /\ \A i \in 1..Len(rr) : i # 1 => G[i] = G[i - 1] \o rr[i]
    BY <2>1, FlattenDef, Zenon
  <2>3. QED
    BY <2>2, Zenon
<1>4. \A i \in 1..m : rr[i] = ss[i] /\ IsSeq(ss[i])
  BY DEF AreSeqs
<1> HIDE DEF F, G
<1>5. 0 \in S
  OBVIOUS
<1>6. ASSUME NEW n \in Nat, n \in S PROVE n + 1 \in S
  <2>1. SUFFICES ASSUME n + 1 \in 1..m PROVE IsSeq(F[n + 1]) /\ G[n + 1] = F[n + 1]
    OBVIOUS
  <2>2. CASE n = 0
    <3>1. m # 0 /\ n + 1 = 1 /\ 1 \in 1..m
      BY <1>1, <2>1, <2>2
    <3>2. F[1] = ss[1] /\ G[1] = ss[1] /\ IsSeq(ss[1])
      BY <1>2, <1>3, <1>4, <3>1, Zenon
    <3>3. QED
      BY <3>1, <3>2, Zenon
  <2>3. CASE n # 0
    <3>1. n \in 1..m /\ n + 1 \in 1..(m + 1) /\ (n + 1) - 1 = n /\ n + 1 # 1
      BY <1>1, <2>1, <2>3
    <3>2. IsSeq(F[n]) /\ G[n] = F[n]
      BY <1>6, <3>1
    <3>3. F[n + 1] = F[n] \o ss[n + 1] /\ G[n + 1] = G[n] \o rr[n + 1]
      <4>1. F[n + 1] = F[(n + 1) - 1] \o ss[n + 1]
        BY <1>2, <2>1, <3>1, Zenon
      <4>2. G[n + 1] = G[(n + 1) - 1] \o rr[n + 1]
        BY <1>3, <3>1, Zenon
      <4>3. QED
        BY <3>1, <4>1, <4>2, Zenon
    <3>4. rr[n + 1] = ss[n + 1] /\ IsSeq(ss[n + 1])
      BY <1>4, <2>1, Zenon
    <3>5. IsSeq(F[n] \o ss[n + 1])
      BY <3>2, <3>4, ConcatIsSeq, Zenon
    <3>6. QED
      BY <3>2, <3>3, <3>4, <3>5, Zenon
  <2>4. QED
    BY <2>2, <2>3
<1>7. m \in S
  <2> HIDE DEF S
  <2>1. QED
    BY <1>1, <1>5, <1>6, Induction
<1> DEFINE e == rr[m + 1]
<1>8. IsSeq(e)
  <2>1. m + 1 \in 1..Len(rr)
    BY <1>1
  <2>2. QED
    BY <2>1, Zenon DEF AreSeqs
<1>9. CASE m = 0
  <2>1. ss = <<>> /\ m + 1 = 1
    BY <1>1, <1>9, EmptySeq DEF IsSeq
  <2>2. FlattenSeq(ss) = <<>>
    BY <1>2, <1>9, <2>1, Zenon
  <2>3. FlattenSeq(rr) = e
    BY <1>3, <2>1, Zenon
  <2> HIDE DEF e
  <2>4. IsSeq(<<>>) /\ <<>> \o e = e
    BY <1>8, EmptyIsSeq, ConcatEmpty, Zenon
  <2>5. QED
    BY <2>2, <2>3, <2>4, Zenon DEF e
<1>10. CASE m # 0
  <2>1. m \in 1..m /\ m + 1 \in 1..(m + 1) /\ m + 1 # 1 /\ (m + 1) - 1 = m
    BY <1>1, <1>10
  <2>2. IsSeq(F[m]) /\ G[m] = F[m]
    BY <1>7, <2>1
  <2>3. G[m + 1] = G[(m + 1) - 1] \o rr[m + 1]
    BY <1>3, <2>1, Zenon
  <2>4. FlattenSeq(ss) = F[m]
    BY <1>2, <1>10, Zenon
  <2>5. FlattenSeq(rr) = F[m] \o rr[m + 1]
    BY <1>3, <2>1, <2>2, <2>3, Zenon
  <2>6. QED
    BY <2>2, <2>4, <2>5, Zenon
<1>11. QED
  BY <1>9, <1>10, Zenon

-----------------------------------------------------------------------------
(* Sums over the elements of a sequence, each of which has a value. *)

\* r has the elements of s and then those of t.
Joins(r, s, t) ==
  /\ Len(r) = Len(s) + Len(t)
  /\ \A i \in 1..Len(s) : r[i] = s[i]
  /\ \A i \in 1..Len(t) : r[Len(s) + i] = t[i]

LEMMA JoinsIs ==
  ASSUME NEW r, IsSeq(r), NEW s, IsSeq(s), NEW t, IsSeq(t), Joins(r, s, t)
  PROVE  r = s \o t
BY ConcatIs, SMTT(60) DEF Joins

LEMMA TotalJoined ==
  ASSUME NEW r, IsNumbers(r), NEW s, IsNumbers(s), NEW t, IsNumbers(t), Joins(r, s, t)
  PROVE  Total(r) = Total(s) + Total(t)
<1>1. IsSeq(r) /\ IsSeq(s) /\ IsSeq(t)
  BY DEF IsNumbers
<1>2. r = s \o t
  BY <1>1, JoinsIs
<1>3. QED
  BY <1>2, TotalConcat

Worth(s, v) == Total([i \in DOMAIN s |-> v[s[i]]])

Worths(s, v) == [i \in DOMAIN s |-> v[s[i]]]

LEMMA WorthsAreNumbers ==
  ASSUME NEW S, NEW s \in Seq(S), NEW v \in [S -> Int]
  PROVE  /\ IsNumbers(Worths(s, v)) /\ Len(Worths(s, v)) = Len(s)
         /\ \A i \in 1..Len(s) : Worths(s, v)[i] = v[s[i]]
         /\ Worth(s, v) = Total(Worths(s, v)) /\ Worth(s, v) \in Int
<1> DEFINE f == Worths(s, v)
<1>1. Len(s) \in Nat /\ DOMAIN s = 1..Len(s) /\ \A i \in 1..Len(s) : s[i] \in S
  BY LenProperties, ElementOfSeq
<1>2. f = [i \in 1..Len(s) |-> f[i]] /\ \A i \in 1..Len(s) : f[i] = v[s[i]]
  BY <1>1 DEF Worths
<1>3. Worth(s, v) = Total(f)
  BY DEF Worth, Worths
<1> HIDE DEF f
<1>4. IsSeq(f) /\ Len(f) = Len(s)
  BY <1>1, <1>2, FunctionSeq
<1>5. IsNumbers(f)
  BY <1>1, <1>2, <1>4 DEF IsNumbers
<1>6. QED
  BY <1>2, <1>3, <1>4, <1>5, TotalInt DEF f

LEMMA WorthConcat ==
  ASSUME NEW S, NEW s \in Seq(S), NEW t \in Seq(S), NEW v \in [S -> Int]
  PROVE  s \o t \in Seq(S) /\ Worth(s \o t, v) = Worth(s, v) + Worth(t, v)
<1> DEFINE r == s \o t
           F == Worths(r, v)
           G == Worths(s, v)
           H == Worths(t, v)
<1>1. /\ r \in Seq(S) /\ Len(r) = Len(s) + Len(t)
      /\ \A i \in 1..(Len(s) + Len(t)) : r[i] = IF i <= Len(s) THEN s[i] ELSE t[i - Len(s)]
      /\ Len(s) \in Nat /\ Len(t) \in Nat
  BY ConcatProperties, LenProperties
<1> HIDE DEF r
<1>2. /\ IsNumbers(F) /\ Len(F) = Len(r) /\ \A i \in 1..Len(r) : F[i] = v[r[i]]
      /\ Worth(r, v) = Total(F)
  BY <1>1, WorthsAreNumbers
<1>3. /\ IsNumbers(G) /\ Len(G) = Len(s) /\ \A i \in 1..Len(s) : G[i] = v[s[i]]
      /\ Worth(s, v) = Total(G)
  BY WorthsAreNumbers
<1>4. /\ IsNumbers(H) /\ Len(H) = Len(t) /\ \A i \in 1..Len(t) : H[i] = v[t[i]]
      /\ Worth(t, v) = Total(H)
  BY WorthsAreNumbers
<1> HIDE DEF F, G, H
<1>5. \A i \in 1..Len(G) : F[i] = G[i]
  BY <1>1, <1>2, <1>3
<1>6. \A i \in 1..Len(H) : F[Len(G) + i] = H[i]
  <2>1. SUFFICES ASSUME NEW i \in 1..Len(H) PROVE F[Len(G) + i] = H[i]
    OBVIOUS
  <2>2. /\ Len(G) + i = Len(s) + i /\ Len(s) + i \in 1..(Len(s) + Len(t))
        /\ ~(Len(s) + i <= Len(s)) /\ (Len(s) + i) - Len(s) = i
    BY <1>1, <1>3, <1>4
  <2>3. r[Len(s) + i] = t[(Len(s) + i) - Len(s)]
    BY <1>1, <2>2, Zenon
  <2>4. F[Len(s) + i] = v[r[Len(s) + i]]
    BY <1>1, <1>2, <2>2, Zenon
  <2>5. H[i] = v[t[i]]
    BY <1>4, Zenon
  <2>6. QED
    BY <2>2, <2>3, <2>4, <2>5, Zenon
<1>7. IsNumbers(F) /\ IsNumbers(G) /\ IsNumbers(H)
  BY <1>2, <1>3, <1>4
<1>8. Len(F) = Len(G) + Len(H)
  BY <1>1, <1>2, <1>3, <1>4
<1>9. Joins(F, G, H)
  BY <1>5, <1>6, <1>8, Zenon DEF Joins
<1>10. Total(F) = Total(G) + Total(H)
  BY <1>7, <1>9, TotalJoined
<1>11. QED
  BY <1>1, <1>2, <1>3, <1>4, <1>10 DEF r

\* The values u are those of v and those of w.
WorthsAdd(S, u, v, w) ==
  /\ u \in [S -> Int] /\ v \in [S -> Int] /\ w \in [S -> Int]
  /\ \A x \in S : u[x] = v[x] + w[x]

LEMMA WorthPlus ==
  ASSUME NEW S, NEW s \in Seq(S), NEW u, NEW v, NEW w, WorthsAdd(S, u, v, w)
  PROVE  Worth(s, u) = Worth(s, v) + Worth(s, w)
<1> DEFINE F == Worths(s, u)
           G == Worths(s, v)
           H == Worths(s, w)
<1>0. /\ u \in [S -> Int] /\ v \in [S -> Int] /\ w \in [S -> Int]
      /\ \A x \in S : u[x] = v[x] + w[x]
  BY DEF WorthsAdd
<1>1. /\ IsNumbers(F) /\ Len(F) = Len(s) /\ \A i \in 1..Len(s) : F[i] = u[s[i]]
      /\ Worth(s, u) = Total(F)
  BY <1>0, WorthsAreNumbers, SMTT(30)
<1>2. /\ IsNumbers(G) /\ Len(G) = Len(s) /\ \A i \in 1..Len(s) : G[i] = v[s[i]]
      /\ Worth(s, v) = Total(G)
  BY <1>0, WorthsAreNumbers, SMTT(30)
<1>3. /\ IsNumbers(H) /\ Len(H) = Len(s) /\ \A i \in 1..Len(s) : H[i] = w[s[i]]
      /\ Worth(s, w) = Total(H)
  BY <1>0, WorthsAreNumbers, SMTT(30)
<1>4. \A i \in 1..Len(s) : s[i] \in S
  BY ElementOfSeq
<1> HIDE DEF F, G, H
<1>5. \A i \in 1..Len(F) : F[i] = G[i] + H[i]
  BY <1>0, <1>1, <1>2, <1>3, <1>4
<1>6. Len(G) = Len(F) /\ Len(H) = Len(F)
  BY <1>1, <1>2, <1>3
<1>7. IsNumbers(F) /\ IsNumbers(G) /\ IsNumbers(H)
  BY <1>1, <1>2, <1>3
<1>8. Total(F) = Total(G) + Total(H)
  BY <1>5, <1>6, <1>7, TotalPlus
<1>9. QED
  BY <1>1, <1>2, <1>3, <1>8

LEMMA WorthSame ==
  ASSUME NEW S, NEW s \in Seq(S), NEW v, NEW w, \A i \in 1..Len(s) : v[s[i]] = w[s[i]]
  PROVE  Worth(s, v) = Worth(s, w)
<1>1. DOMAIN s = 1..Len(s)
  BY LenProperties
<1>2. QED
  BY <1>1 DEF Worth

\* Only e, which is at most once in the sequence, has a value.
LEMMA WorthAt ==
  ASSUME NEW S, NEW s \in Seq(S), Distinct(s), NEW v \in [S -> Int],
         NEW e, \A x \in S : x # e => v[x] = 0
  PROVE  Worth(s, v) = IF e \in ToSet(s) THEN v[e] ELSE 0
<1> DEFINE F == Worths(s, v)
<1>1. /\ IsNumbers(F) /\ Len(F) = Len(s) /\ \A i \in 1..Len(s) : F[i] = v[s[i]]
      /\ Worth(s, v) = Total(F)
  BY WorthsAreNumbers
<1>2. (\A i \in 1..Len(s) : s[i] \in S) /\ ToSet(s) = {s[i] : i \in 1..Len(s)}
  BY ElementOfSeq, SeqIsSeq
<1> HIDE DEF F
<1>3. CASE e \in ToSet(s)
  <2>1. PICK j \in 1..Len(s) : s[j] = e
    BY <1>2, <1>3
  <2>2. \A i \in 1..Len(s) : i # j => F[i] = 0
    BY <1>1, <1>2, <2>1 DEF Distinct
  <2>3. j \in 1..Len(F) /\ \A i \in 1..Len(F) : i # j => F[i] = 0
    BY <1>1, <2>2
  <2>4. Total(F) = F[j]
    BY <1>1, <2>3, TotalAt
  <2>5. QED
    BY <1>1, <1>3, <2>1, <2>4
<1>4. CASE e \notin ToSet(s)
  <2>1. \A i \in 1..Len(F) : F[i] = 0
    BY <1>1, <1>2, <1>4
  <2>2. QED
    BY <1>1, <1>4, <2>1, TotalZero
<1>5. QED
  BY <1>3, <1>4

\* The elements of one sequence are among those of the other, which have no value
\* but for them.
LEMMA WorthPart ==
  ASSUME NEW S, NEW s \in Seq(S), Distinct(s), NEW u \in Seq(S), Distinct(u),
         ToSet(u) \subseteq ToSet(s), NEW v \in [S -> Int]
  PROVE  Worth(s, [x \in S |-> IF x \in ToSet(u) THEN v[x] ELSE 0]) = Worth(u, v)
<1> DEFINE m == Len(u)
           First(n) == {u[i] : i \in 1..n}
           R(n) == [x \in S |-> IF x \in First(n) THEN v[x] ELSE 0]
           W(n) == Worth(s, R(n))
           F == Worths(u, v)
           T == {n \in Nat : n <= m => W(n) = Partial(F)[n]}
<1>1. /\ m \in Nat /\ ToSet(u) = {u[i] : i \in 1..m}
      /\ \A i \in 1..m : u[i] \in S /\ u[i] \in ToSet(s)
  <2>1. m \in Nat /\ ToSet(u) = {u[i] : i \in 1..m} /\ \A i \in 1..m : u[i] \in S
    BY LenProperties, SeqIsSeq, ElementOfSeq
  <2>2. QED
    BY <2>1
<1>2. /\ IsNumbers(F) /\ Len(F) = m /\ \A i \in 1..m : F[i] = v[u[i]]
      /\ Worth(u, v) = Total(F)
  BY <1>1, WorthsAreNumbers
<1>3. /\ Partial(F)[0] = 0 /\ Total(F) = Partial(F)[m]
      /\ \A i \in 1..m : Partial(F)[i] = Partial(F)[i - 1] + F[i]
  BY <1>1, <1>2, PartialDef
<1>4. \A n \in Nat : R(n) \in [S -> Int]
  OBVIOUS
<1>5. First(m) = ToSet(u)
  BY <1>1
<1>6. W(0) = 0
  <2> DEFINE G == Worths(s, R(0))
  <2>1. First(0) = {}
    OBVIOUS
  <2>2. \A x \in S : R(0)[x] = 0
    BY <2>1
  <2>3. R(0) \in [S -> Int]
    BY <1>4
  <2>4. \A i \in 1..Len(s) : s[i] \in S
    BY ElementOfSeq
  <2> HIDE DEF R
  <2>5. /\ IsNumbers(G) /\ Len(G) = Len(s) /\ W(0) = Total(G)
        /\ \A i \in 1..Len(s) : G[i] = R(0)[s[i]]
    BY <2>3, WorthsAreNumbers
  <2> HIDE DEF G, W
  <2>6. \A i \in 1..Len(G) : G[i] = 0
    BY <2>2, <2>4, <2>5
  <2>7. QED
    BY <2>5, <2>6, TotalZero
<1>7. ASSUME NEW n \in Nat, n + 1 \in 1..m
      PROVE  W(n + 1) = W(n) + v[u[n + 1]]
  <2> DEFINE e == u[n + 1]
             D == [x \in S |-> IF x = e THEN v[x] ELSE 0]
  <2>1. e \in S /\ e \in ToSet(s)
    BY <1>1, <1>7
  <2>2. First(n + 1) = First(n) \cup {e}
    <3>1. \A i \in 1..(n + 1) : i \in 1..n \/ i = n + 1
      OBVIOUS
    <3>2. (\A i \in 1..n : i \in 1..(n + 1)) /\ n + 1 \in 1..(n + 1)
      OBVIOUS
    <3>3. QED
      BY <3>1, <3>2
  <2>3. e \notin First(n)
    <3>1. \A i \in 1..n : i \in 1..m /\ i # n + 1
      BY <1>1, <1>7
    <3>2. QED
      BY <1>7, <3>1 DEF Distinct
  <2>4. WorthsAdd(S, R(n + 1), R(n), D)
    <3>1. R(n) \in [S -> Int] /\ R(n + 1) \in [S -> Int] /\ D \in [S -> Int]
      BY <1>4
    <3>2. ASSUME NEW x \in S
          PROVE  R(n + 1)[x] = R(n)[x] + D[x]
      <4>1. /\ v[x] \in Int
            /\ R(n + 1)[x] = IF x \in First(n + 1) THEN v[x] ELSE 0
            /\ R(n)[x] = IF x \in First(n) THEN v[x] ELSE 0
            /\ D[x] = IF x = e THEN v[x] ELSE 0
        OBVIOUS
      <4> HIDE DEF First, R, D, e
      <4>2. QED
        BY <2>2, <2>3, <4>1
    <3>3. QED
      BY <3>1, <3>2, Zenon DEF WorthsAdd
  <2>5. D \in [S -> Int] /\ (\A x \in S : x # e => D[x] = 0) /\ D[e] = v[e]
    BY <2>1
  <2> HIDE DEF R, D, e
  <2>6. Worth(s, R(n + 1)) = Worth(s, R(n)) + Worth(s, D)
    BY <2>4, WorthPlus
  <2>7. Worth(s, D) = v[e]
    <3>1. Worth(s, D) = IF e \in ToSet(s) THEN D[e] ELSE 0
      BY <2>5, WorthAt
    <3>2. QED
      BY <2>1, <2>5, <3>1, Zenon
  <2>8. QED
    BY <2>6, <2>7 DEF e
<1> HIDE DEF F, W
<1>8. 0 \in T
  BY <1>3, <1>6
<1>9. ASSUME NEW n \in Nat, n \in T PROVE n + 1 \in T
  <2>1. SUFFICES ASSUME n + 1 <= m PROVE W(n + 1) = Partial(F)[n + 1]
    OBVIOUS
  <2>2. n + 1 \in 1..m /\ (n + 1) - 1 = n /\ n <= m
    BY <1>1, <2>1
  <2>3. W(n) = Partial(F)[n]
    BY <1>9, <2>2
  <2>4. W(n + 1) = W(n) + v[u[n + 1]]
    BY <1>7, <2>2
  <2>5. Partial(F)[n + 1] = Partial(F)[n] + v[u[n + 1]]
    BY <1>2, <1>3, <2>2
  <2>6. QED
    BY <2>3, <2>4, <2>5
<1>10. m \in T
  <2> HIDE DEF T
  <2>1. QED
    BY <1>1, <1>8, <1>9, Induction
<1>11. W(m) = Partial(F)[m]
  BY <1>1, <1>10
<1>12. R(m) = [x \in S |-> IF x \in ToSet(u) THEN v[x] ELSE 0]
  BY <1>5
<1>13. QED
  BY <1>2, <1>3, <1>11, <1>12 DEF W

LEMMA WorthEmpty ==
  ASSUME NEW v
  PROVE  Worth(<<>>, v) = 0
<1>1. [i \in DOMAIN <<>> |-> v[<<>>[i]]] = <<>>
  OBVIOUS
<1>2. QED
  BY <1>1, TotalEmpty DEF Worth

-----------------------------------------------------------------------------
(* Layers of a tree. *)

\* A layer of w nodes, each of which stands for s leaves.
Nodes(leaves, w, s) == [j \in 1..w |-> [i \in 1..s |-> leaves[(j - 1) * s + i]]]

\* The node that stands for the first m leaves.
NodeOver(leaves, m) == [i \in 1..m |-> leaves[i]]

Layers(batch) ==
  CHOOSE layer : layer = [i \in 0..Len(batch) |-> IF i = 0 THEN batch ELSE Layer(layer[i - 1])]

LEMMA LayersDef ==
  ASSUME NEW batch, Len(batch) \in Nat
  PROVE  /\ Aggregate(batch) = Layers(batch)[Len(batch)][1]
         /\ Layers(batch)[0] = batch
         /\ \A i \in 1..Len(batch) : Layers(batch)[i] = Layer(Layers(batch)[i - 1])
<1> DEFINE Upto(f, n) == f = [i \in 0..n |-> IF i = 0 THEN batch ELSE Layer(f[i - 1])]
           S == {n \in Nat : \E f : Upto(f, n)}
<1>1. 0 \in S
  <2>1. Upto([i \in 0..0 |-> batch], 0)
    OBVIOUS
  <2>2. QED
    BY <2>1
<1>2. ASSUME NEW n \in Nat, n \in S PROVE n + 1 \in S
  <2>1. PICK f : Upto(f, n)
    BY <1>2
  <2> DEFINE g == [i \in 0..(n + 1) |-> IF i = n + 1 THEN Layer(f[n]) ELSE f[i]]
  <2>2. \A i \in 0..(n + 1) : g[i] = IF i = 0 THEN batch ELSE Layer(g[i - 1])
    <3>1. SUFFICES ASSUME NEW i \in 0..(n + 1)
                   PROVE  g[i] = IF i = 0 THEN batch ELSE Layer(g[i - 1])
      OBVIOUS
    <3>2. CASE i = n + 1
      BY <3>2
    <3>3. CASE i # n + 1
      <4>1. i \in 0..n /\ f[i] = IF i = 0 THEN batch ELSE Layer(f[i - 1])
        BY <2>1, <3>3
      <4>2. g[i] = f[i] /\ (i # 0 => g[i - 1] = f[i - 1])
        BY <3>3
      <4>3. QED
        BY <4>1, <4>2
    <3>4. QED
      BY <3>2, <3>3
  <2>3. Upto(g, n + 1)
    BY <2>2
  <2> HIDE DEF g
  <2>4. QED
    BY <2>3
<1>3. Len(batch) \in S
  <2> HIDE DEF S
  <2>1. QED
    BY <1>1, <1>2, Induction
<1>4. Upto(Layers(batch), Len(batch))
  BY <1>3 DEF Layers
<1>5. Aggregate(batch) = Layers(batch)[Len(batch)][1]
  BY DEF Aggregate, Layers
<1>6. QED
  BY <1>4, <1>5

\* The half of a power of two is one, unless that is one.
LEMMA HalfOfPower ==
  ASSUME NEW n \in Nat, IsBatchSize(n)
  PROVE  n \div 2 \in Nat \ {0} /\ n = 2 * (n \div 2) /\ IsPowerOfTwo(n \div 2)
<1>1. PICK k \in 1..n : n = 2 * k
  <2>1. n \in 1..n /\ 1 \in 1..n /\ n * 1 = n /\ n # 1
    BY DEF IsBatchSize
  <2>2. QED
    BY <2>1 DEF IsBatchSize, IsPowerOfTwo
<1>2. n \div 2 = k /\ k \in Nat \ {0}
  BY <1>1
<1>3. ASSUME NEW d \in 1..k, NEW q \in 1..k, d * q = k
      PROVE  d = 1 \/ \E j \in 1..k : d = 2 * j
  <2>1. d \in 1..n /\ 2 * q \in 1..n
    BY <1>1
  <2>2. d * (2 * q) = 2 * (d * q)
    BY <1>1
  <2>3. d * (2 * q) = n
    BY <1>1, <1>3, <2>2
  <2>4. d = 1 \/ \E j \in 1..n : d = 2 * j
    BY <2>1, <2>3 DEF IsBatchSize, IsPowerOfTwo
  <2>5. \A j \in 1..n : d = 2 * j => j \in 1..k
    BY <1>1
  <2>6. QED
    BY <2>4, <2>5
<1>4. IsPowerOfTwo(k)
  <2>1. \A d, q \in 1..k : d * q = k => d = 1 \/ \E j \in 1..k : d = 2 * j
    BY <1>3
  <2>2. k > 0
    BY <1>2
  <2>3. QED
    BY <2>1, <2>2 DEF IsPowerOfTwo
<1>5. QED
  BY <1>1, <1>2, <1>4

\* The next layer of a tree.
LEMMA LayerOfNodes ==
  ASSUME NEW F, NEW v \in Nat \ {0}, NEW s \in Nat
  PROVE  Layer(Nodes(F, 2 * v, s)) = Nodes(F, v, 2 * s)
<1> DEFINE N == Nodes(F, 2 * v, s)
<1>1. \A j \in 1..(2 * v) : N[j] = [i \in 1..s |-> F[(j - 1) * s + i]]
  BY DEF Nodes
<1>2. Len(N) = 2 * v
  <2>1. N = [j \in 1..(2 * v) |-> N[j]]
    BY DEF Nodes
  <2> HIDE DEF N
  <2>2. QED
    BY <2>1, FunctionSeq
<1> HIDE DEF N
<1>3. ASSUME NEW j \in 1..v
      PROVE  Combine(N[2 * j - 1], N[2 * j]) = [i \in 1..(2 * s) |-> F[(j - 1) * (2 * s) + i]]
  <2> DEFINE l == N[2 * j - 1]
             r == N[2 * j]
             c == [i \in 1..(2 * s) |-> F[(j - 1) * (2 * s) + i]]
  <2>1. 2 * j - 1 \in 1..(2 * v) /\ 2 * j \in 1..(2 * v)
    OBVIOUS
  <2>2. /\ l = [i \in 1..s |-> F[((2 * j - 1) - 1) * s + i]]
        /\ r = [i \in 1..s |-> F[(2 * j - 1) * s + i]]
    BY <1>1, <2>1
  <2>3. l = [i \in 1..s |-> l[i]] /\ r = [i \in 1..s |-> r[i]] /\ c = [i \in 1..(2 * s) |-> c[i]]
    BY <2>2
  <2>4. ((2 * j - 1) - 1) * s = (j - 1) * (2 * s)
    OBVIOUS
  <2>5. (2 * j - 1) * s = (j - 1) * (2 * s) + s
    OBVIOUS
  <2>6. (j - 1) * (2 * s) \in Int
    OBVIOUS
  <2>7. \A i \in 1..s : c[i] = l[i]
    BY <2>2, <2>4
  <2>8. \A i \in 1..s : c[s + i] = r[i]
    <3>1. ASSUME NEW i \in 1..s PROVE c[s + i] = r[i]
      <4>1. s + i \in 1..(2 * s)
        OBVIOUS
      <4>2. c[s + i] = F[(j - 1) * (2 * s) + (s + i)]
        BY <4>1
      <4>3. (j - 1) * (2 * s) + (s + i) = (2 * j - 1) * s + i
        BY <2>5, <2>6
      <4>4. QED
        BY <2>2, <4>2, <4>3
    <3>2. QED
      BY <3>1
  <2> HIDE DEF l, r, c
  <2>9. IsSeq(l) /\ Len(l) = s /\ IsSeq(r) /\ Len(r) = s
    BY <2>3, FunctionSeq
  <2>10. IsSeq(c) /\ Len(c) = 2 * s
    BY <2>3, FunctionSeq
  <2>11. c = l \o r
    <3>1. Len(c) = Len(l) + Len(r)
      BY <2>9, <2>10
    <3>2. (\A i \in 1..Len(l) : c[i] = l[i]) /\ (\A i \in 1..Len(r) : c[Len(l) + i] = r[i])
      BY <2>7, <2>8, <2>9
    <3>3. IsSeq(l) /\ IsSeq(r) /\ IsSeq(c)
      BY <2>9, <2>10
    <3>4. QED
      BY <3>1, <3>2, <3>3, ConcatIs
  <2>12. QED
    BY <2>9, <2>11 DEF Combine, l, r, c
<1>4. (2 * v) \div 2 = v /\ 2 * v > 1
  OBVIOUS
<1>5. Layer(N) = [j \in 1..v |-> Combine(N[2 * j - 1], N[2 * j])]
  BY <1>2, <1>4 DEF Layer
<1>6. QED
  BY <1>3, <1>5 DEF N, Nodes

\* The root of a layer stands for all the leaves.
LEMMA RootOfNodes ==
  ASSUME NEW F, NEW n \in Nat \ {0}, NEW s0 \in Nat, IsPowerOfTwo(n)
  PROVE  Aggregate(Nodes(F, n, s0)) = NodeOver(F, n * s0)
<1> DEFINE batch == Nodes(F, n, s0)
           L == Layers(batch)
           S == {i \in Nat : i <= n =>
                   \E w, s \in Nat : /\ w * s = n * s0 /\ IsPowerOfTwo(w)
                                     /\ w = 1 \/ w + i <= n
                                     /\ L[i] = Nodes(F, w, s)}
<1>2. Len(batch) = n
  <2>1. batch = [j \in 1..n |-> batch[j]]
    BY DEF Nodes
  <2> HIDE DEF batch
  <2>2. QED
    BY <2>1, FunctionSeq
<1>3. /\ Aggregate(batch) = L[n][1]
      /\ L[0] = batch
      /\ \A i \in 1..n : L[i] = Layer(L[i - 1])
  <2>1. Len(batch) \in Nat
    BY <1>2
  <2> HIDE DEF batch
  <2>2. /\ Aggregate(batch) = L[Len(batch)][1]
        /\ L[0] = batch
        /\ \A i \in 1..Len(batch) : L[i] = Layer(L[i - 1])
    BY <2>1, LayersDef
  <2>3. QED
    BY <1>2, <2>2
<1> HIDE DEF L
<1>4. 0 \in S
  <2>1. n + 0 <= n /\ IsPowerOfTwo(n) /\ L[0] = Nodes(F, n, s0)
    BY <1>3
  <2>2. QED
    BY <2>1
<1> HIDE DEF batch
<1>5. ASSUME NEW i \in Nat, i \in S PROVE i + 1 \in S
  <2>1. SUFFICES ASSUME i + 1 <= n
                 PROVE  \E w, s \in Nat : /\ w * s = n * s0 /\ IsPowerOfTwo(w)
                                          /\ w = 1 \/ w + (i + 1) <= n
                                          /\ L[i + 1] = Nodes(F, w, s)
    OBVIOUS
  <2>2. PICK w \in Nat, s \in Nat : /\ w * s = n * s0 /\ IsPowerOfTwo(w)
                                    /\ w = 1 \/ w + i <= n
                                    /\ L[i] = Nodes(F, w, s)
    BY <1>5, <2>1
  <2>3. L[i + 1] = Layer(L[i])
    <3>1. i + 1 \in 1..n /\ (i + 1) - 1 = i
      BY <2>1
    <3>2. QED
      BY <1>3, <3>1
  <2>4. CASE w = 1
    <3>1. L[i] = [j \in 1..1 |-> L[i][j]]
      BY <2>2, <2>4 DEF Nodes
    <3>2. Len(L[i]) = 1
      <4> DEFINE f == L[i]
      <4>1. f = [j \in 1..1 |-> f[j]] /\ 1 \in Nat
        BY <3>1
      <4> HIDE DEF f
      <4>2. Len(f) = 1
        BY <4>1, FunctionSeq
      <4>3. QED
        BY <4>2 DEF f
    <3>3. L[i + 1] = L[i]
      BY <2>3, <3>2 DEF Layer
    <3>4. QED
      BY <2>2, <2>4, <3>3
  <2>5. CASE w # 1
    <3>1. IsBatchSize(w)
      BY <2>2, <2>5 DEF IsBatchSize, IsPowerOfTwo
    <3>2. PICK v \in Nat \ {0} : w = 2 * v /\ IsPowerOfTwo(v)
      BY <3>1, HalfOfPower
    <3>3. L[i + 1] = Nodes(F, v, 2 * s)
      BY <2>2, <2>3, <3>2, LayerOfNodes
    <3>4. v * (2 * s) = w * s /\ 2 * s \in Nat
      BY <3>2
    <3>5. v + (i + 1) <= n
      BY <2>2, <2>5, <3>2
    <3>6. QED
      BY <2>2, <3>2, <3>3, <3>4, <3>5
  <2>6. QED
    BY <2>4, <2>5
<1>6. n \in S
  <2> HIDE DEF S
  <2>1. QED
    BY <1>4, <1>5, Induction
<1>7. PICK w \in Nat, s \in Nat : /\ w * s = n * s0 /\ IsPowerOfTwo(w)
                                  /\ w = 1 \/ w + n <= n
                                  /\ L[n] = Nodes(F, w, s)
  BY <1>6
<1>8. w = 1 /\ s = n * s0
  <2>1. w > 0
    BY <1>7 DEF IsPowerOfTwo
  <2>2. w = 1
    BY <1>7, <2>1
  <2>3. QED
    BY <1>7, <2>2
<1>9. L[n][1] = [i \in 1..s |-> F[(1 - 1) * s + i]]
  BY <1>7, <1>8 DEF Nodes
<1>10. \A i \in 1..s : (1 - 1) * s + i = i
  OBVIOUS
<1>11. QED
  BY <1>3, <1>8, <1>9, <1>10 DEF batch, NodeOver

LEMMA NodesOfLeaves ==
  ASSUME NEW b, NEW n \in Nat
  PROVE  BatchOf(Leaves(b, n)) = Nodes(Leaves(b, n), n, 1)
<1> DEFINE F == Leaves(b, n)
<1>1. Len(F) = n
  <2>1. F = [i \in 1..n |-> F[i]]
    BY DEF Leaves
  <2> HIDE DEF F
  <2>2. QED
    BY <2>1, FunctionSeq
<1> HIDE DEF F
<1>2. ASSUME NEW j \in 1..n
      PROVE  <<F[j]>> = [i \in 1..1 |-> F[(j - 1) * 1 + i]]
  <2>1. \A i \in 1..1 : (j - 1) * 1 + i = j
    OBVIOUS
  <2>2. [i \in 1..1 |-> F[(j - 1) * 1 + i]] = [i \in 1..1 |-> F[j]]
    BY <2>1
  <2>3. [i \in 1..1 |-> F[j]] = <<F[j]>>
    OBVIOUS
  <2>4. QED
    BY <2>2, <2>3
<1>3. BatchOf(F) = Nodes(F, n, 1)
  BY <1>1, <1>2 DEF BatchOf, Nodes
<1>4. QED
  BY <1>3 DEF F

\* The root of a batch that is pushed stands for its leaves in order.
LEMMA RootOfLeaves ==
  ASSUME NEW b, NEW n \in Nat, IsBatchSize(n)
  PROVE  Aggregate(BatchOf(Leaves(b, n))) = Leaves(b, n)
<1>1. n \in Nat \ {0} /\ IsPowerOfTwo(n) /\ 1 \in Nat
  BY DEF IsBatchSize
<1>2. Aggregate(Nodes(Leaves(b, n), n, 1)) = NodeOver(Leaves(b, n), n * 1)
  <2> DEFINE one == 1
  <2>1. one \in Nat
    OBVIOUS
  <2> HIDE DEF one
  <2>2. Aggregate(Nodes(Leaves(b, n), n, one)) = NodeOver(Leaves(b, n), n * one)
    BY <1>1, <2>1, RootOfNodes
  <2>3. QED
    BY <2>2 DEF one
<1>3. n * 1 = n /\ NodeOver(Leaves(b, n), n) = Leaves(b, n)
  BY DEF Leaves, NodeOver
<1>4. QED
  BY <1>2, <1>3, NodesOfLeaves

LEMMA LeavesLength ==
  ASSUME NEW id, NEW n \in Nat
  PROVE  Len(BatchOf(Leaves(id, n))) = n
<1> DEFINE f == Leaves(id, n)
           g == BatchOf(f)
<1>1. f = [i \in 1..n |-> f[i]]
  BY DEF Leaves
<1>2. g = [i \in 1..Len(f) |-> g[i]]
  BY DEF BatchOf
<1> HIDE DEF f, g
<1>3. Len(f) = n
  BY <1>1, FunctionSeq
<1>4. Len(g) = n
  BY <1>2, <1>3, FunctionSeq
<1>5. QED
  BY <1>4 DEF f, g

\* The proofs of a queue of batches.
LEMMA LengthsTotal ==
  ASSUME NEW s, IsSeq(s), \A b \in ToSet(s) : Len(b.proofs) \in Nat
  PROVE  /\ Total([i \in DOMAIN s |-> Len(s[i].proofs)]) \in Nat
         /\ \A b \in ToSet(s) : Len(b.proofs) <= Total([i \in DOMAIN s |-> Len(s[i].proofs)])
<1> DEFINE c == [i \in DOMAIN s |-> Len(s[i].proofs)]
           n == Len(s)
<1>1. DOMAIN s = 1..n /\ n \in Nat
  BY IsSeqLength
<1>2. ToSet(s) = {s[i] : i \in 1..n}
  BY SeqIsSeq DEF IsSeq
<1>3. c = [i \in 1..n |-> c[i]] /\ \A i \in 1..n : c[i] = Len(s[i].proofs)
  BY <1>1
<1> HIDE DEF c
<1>4. IsSeq(c) /\ Len(c) = n
  BY <1>1, <1>3, FunctionSeq
<1>5. IsCounts(c)
  BY <1>2, <1>3, <1>4 DEF IsCounts
<1>6. Total(c) \in Nat /\ \A i \in 1..n : c[i] <= Total(c)
  BY <1>4, <1>5, TotalNat
<1>7. QED
  BY <1>2, <1>3, <1>6 DEF c

-----------------------------------------------------------------------------
(* Trees of halves, and powers of two. *)

NodeAt(leaves, j, s) == [i \in 1..s |-> leaves[(j - 1) * s + i]]

LEMMA NodesLength ==
  ASSUME NEW F, NEW w \in Nat, NEW s
  PROVE  /\ IsSeq(Nodes(F, w, s)) /\ Len(Nodes(F, w, s)) = w
         /\ \A j \in 1..w : Nodes(F, w, s)[j] = NodeAt(F, j, s)
<1> DEFINE N == Nodes(F, w, s)
<1>1. N = [j \in 1..w |-> N[j]] /\ \A j \in 1..w : N[j] = NodeAt(F, j, s)
  BY DEF Nodes, NodeAt
<1> HIDE DEF N
<1>2. IsSeq(N) /\ Len(N) = w
  BY <1>1, FunctionSeq
<1>3. QED
  BY <1>1, <1>2 DEF N

\* G is the first half of F, and H the second.
IsConcat(r, s, t) == r = s \o t

AreHalves(F, G, H, n) == \A i \in 1..n : G[i] = F[i] /\ H[i] = F[n + i]

\* Two layers side by side are one.
LEMMA NodesJoin ==
  ASSUME NEW F, NEW G, NEW H, NEW v \in Nat, NEW s \in Nat,
         AreHalves(F, G, H, v * s)
  PROVE  IsConcat(Nodes(F, 2 * v, s), Nodes(G, v, s), Nodes(H, v, s))
<1> DEFINE a == Nodes(G, v, s)
           b == Nodes(H, v, s)
           c == Nodes(F, 2 * v, s)
<1>1. /\ IsSeq(a) /\ Len(a) = v /\ IsSeq(b) /\ Len(b) = v
      /\ \A j \in 1..v : a[j] = NodeAt(G, j, s) /\ b[j] = NodeAt(H, j, s)
  BY NodesLength
<1>2. /\ IsSeq(c) /\ Len(c) = 2 * v
      /\ \A j \in 1..(2 * v) : c[j] = NodeAt(F, j, s)
  <2>1. 2 * v \in Nat
    OBVIOUS
  <2>2. QED
    BY <2>1, NodesLength
<1> HIDE DEF a, b, c
<1>3. \A j \in 1..v : \A i \in 1..s : (j - 1) * s + i \in 1..(v * s)
  <2>1. SUFFICES ASSUME NEW j \in 1..v, NEW i \in 1..s PROVE (j - 1) * s + i \in 1..(v * s)
    OBVIOUS
  <2>2. (v - j) * s \in Nat /\ (j - 1) * s \in Nat
    OBVIOUS
  <2>3. v * s = (v - j) * s + ((j - 1) * s + s)
    OBVIOUS
  <2>4. QED
    BY <2>2, <2>3
<1>4. ASSUME NEW j \in 1..v PROVE c[j] = a[j]
  <2>1. j \in 1..(2 * v)
    OBVIOUS
  <2>2. \A i \in 1..s : F[(j - 1) * s + i] = G[(j - 1) * s + i]
    BY <1>3 DEF AreHalves
  <2>3. NodeAt(F, j, s) = NodeAt(G, j, s)
    BY <2>2 DEF NodeAt
  <2>4. QED
    BY <1>1, <1>2, <2>1, <2>3
<1>5. ASSUME NEW j \in 1..v PROVE c[v + j] = b[j]
  <2>1. v + j \in 1..(2 * v)
    OBVIOUS
  <2>2. ASSUME NEW i \in 1..s PROVE F[((v + j) - 1) * s + i] = H[(j - 1) * s + i]
    <3>1. (j - 1) * s + i \in 1..(v * s)
      BY <1>3
    <3>2. ((v + j) - 1) * s = v * s + (j - 1) * s
      OBVIOUS
    <3>3. v * s \in Nat /\ (j - 1) * s \in Nat
      OBVIOUS
    <3>4. ((v + j) - 1) * s + i = v * s + ((j - 1) * s + i)
      BY <3>2, <3>3
    <3>5. QED
      BY <3>1, <3>4 DEF AreHalves
  <2>3. NodeAt(F, v + j, s) = NodeAt(H, j, s)
    BY <2>2 DEF NodeAt
  <2>4. QED
    BY <1>1, <1>2, <2>1, <2>3
<1>6. c = a \o b
  <2>1. Len(c) = Len(a) + Len(b)
    BY <1>1, <1>2
  <2>2. (\A i \in 1..Len(a) : c[i] = a[i]) /\ (\A i \in 1..Len(b) : c[Len(a) + i] = b[i])
    BY <1>1, <1>4, <1>5
  <2>3. IsSeq(a) /\ IsSeq(b) /\ IsSeq(c)
    BY <1>1, <1>2
  <2>4. Joins(c, a, b)
    BY <2>1, <2>2, <2>3, Zenon DEF Joins
  <2>5. QED
    BY <2>3, <2>4, JoinsIs
<1>7. QED
  BY <1>6 DEF a, b, c, IsConcat

LEMMA SubSeqOf ==
  ASSUME NEW a, NEW b, IsSeq(a), IsSeq(b)
  PROVE  /\ SubSeq(a \o b, 1, Len(a)) = a
         /\ SubSeq(a \o b, Len(a) + 1, Len(a) + Len(b)) = b
<1>1. /\ IsSeq(a \o b) /\ Len(a \o b) = Len(a) + Len(b)
      /\ \A i \in 1..Len(a) : (a \o b)[i] = a[i]
      /\ \A i \in 1..Len(b) : (a \o b)[Len(a) + i] = b[i]
  BY ConcatIsSeq
<1> DEFINE c == a \o b
           n == Len(a)
           m == Len(b)
<1>2. /\ n \in Nat /\ m \in Nat
      /\ a = [i \in 1..n |-> a[i]] /\ b = [i \in 1..m |-> b[i]]
  BY SeqIsSeq, IsSeqLength DEF IsSeq
<1> HIDE DEF c, n, m
<1>3. SubSeq(c, 1, n) = [i \in 1..n |-> c[i]]
  BY <1>2
<1>4. SubSeq(c, n + 1, n + m) = [i \in 1..m |-> c[n + i]]
  <2> DEFINE d == SubSeq(c, n + 1, n + m)
             p == n + 1
             q == n + m
  <2>1. p \in Int /\ q \in Int /\ \A i \in p..q : c[i] \in {c[j] : j \in p..q}
    BY <1>2
  <2>2. /\ d \in Seq({c[j] : j \in p..q})
        /\ Len(d) = IF p <= q THEN q - p + 1 ELSE 0
        /\ \A i \in 1..(q - p + 1) : d[i] = c[p + i - 1]
    <3> HIDE DEF p, q
    <3>1. QED
      BY <2>1, SubSeqProperties DEF d, p, q
  <2>3. Len(d) = m /\ DOMAIN d = 1..m /\ d = [i \in DOMAIN d |-> d[i]]
    <3>1. (IF p <= q THEN q - p + 1 ELSE 0) = m
      <4>1. n \in Nat /\ m \in Nat
        BY <1>2
      <4> HIDE DEF d
      <4>2. QED
        BY <4>1
    <3>2. Len(d) = m
      BY <2>2, <3>1
    <3> HIDE DEF d, p, q
    <3>3. DOMAIN d = 1..Len(d) /\ d = [i \in DOMAIN d |-> d[i]]
      BY <2>2, LenProperties
    <3>4. QED
      BY <3>2, <3>3
  <2> HIDE DEF d
  <2>4. \A i \in 1..m : d[i] = c[n + i]
    <3>1. q - p + 1 = m /\ \A i \in 1..m : p + i - 1 = n + i
      BY <1>2
    <3>2. QED
      BY <2>2, <3>1
  <2>5. d = [i \in 1..m |-> c[n + i]]
    BY <2>3, <2>4
  <2>6. QED
    BY <2>5 DEF d
<1>5. QED
  BY <1>1, <1>2, <1>3, <1>4 DEF c, n, m

\* Twice a power of two is one.
LEMMA DoublePower ==
  ASSUME NEW n \in Nat \ {0}, IsPowerOfTwo(n)
  PROVE  IsPowerOfTwo(2 * n) /\ IsBatchSize(2 * n)
<1>1. ASSUME NEW d \in 1..(2 * n), NEW q \in 1..(2 * n), d * q = 2 * n,
             ~\E k \in 1..(2 * n) : d = 2 * k
      PROVE  d = 1
  <2>1. PICK a \in Nat : d = 2 * a + 1
    <3>1. d = 2 * (d \div 2) \/ d = 2 * (d \div 2) + 1
      OBVIOUS
    <3>2. d \div 2 \in Nat /\ (d = 2 * (d \div 2) => d \div 2 \in 1..(2 * n))
      OBVIOUS
    <3>3. QED
      BY <1>1, <3>1, <3>2
  <2>2. PICK k \in Nat : q = 2 * k
    <3>1. q = 2 * (q \div 2) \/ q = 2 * (q \div 2) + 1
      OBVIOUS
    <3>2. q \div 2 \in Nat
      OBVIOUS
    <3>3. ASSUME q = 2 * (q \div 2) + 1 PROVE FALSE
      <4> DEFINE c == q \div 2
      <4>1. c \in Nat /\ q = 2 * c + 1
        BY <3>3
      <4> HIDE DEF c
      <4>2. d * q = (2 * a + 1) * (2 * c + 1)
        BY <2>1, <4>1
      <4>3. (2 * a + 1) * (2 * c + 1) = 2 * (2 * (a * c) + a + c) + 1
        BY <4>1
      <4>4. 2 * (a * c) + a + c \in Nat
        BY <4>1
      <4>5. 2 * n = 2 * (2 * (a * c) + a + c) + 1
        BY <1>1, <4>2, <4>3
      <4>6. \A x, y \in Nat : 2 * x # 2 * y + 1
        OBVIOUS
      <4>7. QED
        BY <4>4, <4>5, <4>6
    <3>4. QED
      BY <3>1, <3>2, <3>3
  <2>3. d * k = n
    <3>1. d * (2 * k) = 2 * (d * k)
      OBVIOUS
    <3>2. d * k \in Nat /\ 2 * (d * k) = 2 * n
      BY <1>1, <2>2, <3>1
    <3>3. QED
      BY <3>2
  <2>4. k # 0 /\ d \in 1..n /\ k \in 1..n
    <3>1. k # 0
      BY <1>1, <2>2
    <3>2. d <= d * k /\ k <= d * k
      BY <3>1
    <3>3. QED
      BY <2>3, <3>1, <3>2
  <2>5. d = 1 \/ \E j \in 1..n : d = 2 * j
    BY <2>3, <2>4 DEF IsPowerOfTwo
  <2>6. \A j \in 1..n : j \in 1..(2 * n)
    OBVIOUS
  <2>7. QED
    BY <1>1, <2>5, <2>6
<1>2. IsPowerOfTwo(2 * n)
  <2>1. 2 * n > 0
    OBVIOUS
  <2>2. \A d, q \in 1..(2 * n) : d * q = 2 * n => d = 1 \/ \E k \in 1..(2 * n) : d = 2 * k
    BY <1>1
  <2>3. QED
    BY <2>1, <2>2 DEF IsPowerOfTwo
<1>3. 2 * n > 1
  OBVIOUS
<1>4. QED
  BY <1>2, <1>3 DEF IsBatchSize

LEMMA OneIsPower == IsPowerOfTwo(1)
BY DEF IsPowerOfTwo

-----------------------------------------------------------------------------
(* Lists of things that have ids. *)

LEMMA IdsConcat ==
  ASSUME NEW s, Listed(s), NEW t, Listed(t), Ids(s) \cap Ids(t) = {}
  PROVE  /\ Listed(s \o t) /\ Ids(s \o t) = Ids(s) \cup Ids(t)
         /\ ToSet(s \o t) = ToSet(s) \cup ToSet(t)
<1> DEFINE r == s \o t
           n == Len(s)
           m == Len(t)
<1>1. IsSeq(s) /\ IsSeq(t)
  BY DEF Listed
<1>2. /\ IsSeq(r) /\ n \in Nat /\ m \in Nat
      /\ \A i \in 1..(n + m) : r[i] = IF i <= n THEN s[i] ELSE t[i - n]
      /\ DOMAIN r = 1..(n + m) /\ DOMAIN s = 1..n /\ DOMAIN t = 1..m
  BY <1>1, ConcatIsSeq, IsSeqLength
<1>3. ToSet(r) = ToSet(s) \cup ToSet(t)
  BY <1>1, ConcatToSet
<1> HIDE DEF r, n, m
<1>4. Ids(r) = Ids(s) \cup Ids(t)
  <2>1. \A x : /\ x \in Ids(r) <=> \E e \in ToSet(r) : Bears(e) /\ e.id = x
               /\ x \in Ids(s) <=> \E e \in ToSet(s) : Bears(e) /\ e.id = x
               /\ x \in Ids(t) <=> \E e \in ToSet(t) : Bears(e) /\ e.id = x
    BY IdsOf
  <2>2. QED
    BY <1>3, <2>1
<1>5. \A i \in 1..n : Bears(s[i]) => s[i].id \in Ids(s)
  BY <1>2 DEF Ids
<1>6. \A i \in 1..m : Bears(t[i]) => t[i].id \in Ids(t)
  BY <1>2 DEF Ids
<1>7. \A i \in 1..(n + m) : \/ i \in 1..n /\ r[i] = s[i] /\ i <= n
                            \/ i - n \in 1..m /\ r[i] = t[i - n] /\ i > n
  BY <1>2
<1>8. OnceEach(r)
  <2>1. SUFFICES ASSUME NEW i \in 1..(n + m), NEW j \in 1..(n + m),
                        Bears(r[i]), Bears(r[j]), r[i].id = r[j].id
                 PROVE  i = j
    BY <1>2 DEF OnceEach
  <2>2. CASE i <= n /\ j <= n
    BY <1>2, <1>7, <2>1, <2>2 DEF Listed, OnceEach
  <2>3. CASE i > n /\ j > n
    <3>1. /\ i - n \in 1..m /\ r[i] = t[i - n]
          /\ j - n \in 1..m /\ r[j] = t[j - n]
      BY <1>2, <1>7, <2>3
    <3>2. i - n = j - n
      BY <1>2, <2>1, <3>1 DEF Listed, OnceEach
    <3>3. QED
      BY <1>2, <3>2
  <2>4. CASE i <= n /\ j > n
    <3>1. r[i].id \in Ids(s) /\ r[j].id \in Ids(t)
      BY <1>2, <1>5, <1>6, <1>7, <2>1, <2>4
    <3>2. QED
      BY <2>1, <3>1
  <2>5. CASE i > n /\ j <= n
    <3>1. r[j].id \in Ids(s) /\ r[i].id \in Ids(t)
      BY <1>2, <1>5, <1>6, <1>7, <2>1, <2>5
    <3>2. QED
      BY <2>1, <3>1
  <2>6. QED
    BY <1>2, <2>2, <2>3, <2>4, <2>5
<1>9. QED
  BY <1>2, <1>3, <1>4, <1>8 DEF r, Listed

LEMMA OneListed ==
  ASSUME NEW e, Bears(e)
  PROVE  Listed(<<e>>) /\ Ids(<<e>>) = {e.id} /\ ToSet(<<e>>) = {e}
<1>1. <<e>> = Append(<<>>, e)
  OBVIOUS
<1> DEFINE none == <<>>
<1>2. IsSeq(none) /\ OnceEach(none) /\ Ids(none) = {} /\ ToSet(none) = {} /\ <<e>> = Append(none, e)
  BY <1>1, EmptyIds
<1> HIDE DEF none
<1>3. /\ IsSeq(Append(none, e)) /\ OnceEach(Append(none, e))
      /\ ToSet(Append(none, e)) = {e} /\ Ids(Append(none, e)) = {e.id}
  BY <1>2, AppendIds
<1>4. QED
  BY <1>2, <1>3 DEF Listed

\* What is left of a list when one is taken out.
LEMMA IdsRemoveAt ==
  ASSUME NEW s, Listed(s), NEW k \in DOMAIN s, Bears(s[k])
  PROVE  /\ Listed(RemoveAt(s, k)) /\ Ids(RemoveAt(s, k)) = Ids(s) \ {s[k].id}
         /\ ToSet(RemoveAt(s, k)) \subseteq ToSet(s) /\ s[k] \in ToSet(s) /\ s[k].id \in Ids(s)
<1> DEFINE n == Len(s)
           a == SubSeq(s, 1, k - 1)
           b == SubSeq(s, k + 1, n)
           r == RemoveAt(s, k)
<1>1. IsSeq(s) /\ n \in Nat /\ DOMAIN s = 1..n /\ k \in 1..n
  BY IsSeqLength DEF Listed
<1>2. /\ IsSeq(a) /\ Len(a) = k - 1 /\ \A i \in 1..(k - 1) : a[i] = s[i]
  <2>1. (\A i \in 1..(k - 1) : s[i] \in {s[j] : j \in 1..(k - 1)}) /\ 1 \in Int /\ k - 1 \in Int
    BY <1>1
  <2>2. /\ a \in Seq({s[j] : j \in 1..(k - 1)})
        /\ Len(a) = IF 1 <= k - 1 THEN (k - 1) - 1 + 1 ELSE 0
        /\ \A i \in 1..((k - 1) - 1 + 1) : a[i] = s[1 + i - 1]
    BY <2>1, SubSeqProperties
  <2> HIDE DEF a
  <2>3. /\ (IF 1 <= k - 1 THEN (k - 1) - 1 + 1 ELSE 0) = k - 1 /\ (k - 1) - 1 + 1 = k - 1
        /\ \A i \in 1..(k - 1) : 1 + i - 1 = i
    BY <1>1
  <2>4. QED
    BY <2>2, <2>3, SeqIsSeq
<1>3. /\ IsSeq(b) /\ Len(b) = n - k /\ \A i \in 1..(n - k) : b[i] = s[k + i]
  <2>1. (\A i \in (k + 1)..n : s[i] \in {s[j] : j \in (k + 1)..n}) /\ n \in Int /\ k + 1 \in Int
    BY <1>1
  <2>2. /\ b \in Seq({s[j] : j \in (k + 1)..n})
        /\ Len(b) = IF k + 1 <= n THEN n - (k + 1) + 1 ELSE 0
        /\ \A i \in 1..(n - (k + 1) + 1) : b[i] = s[(k + 1) + i - 1]
    BY <2>1, SubSeqProperties, SMTT(30)
  <2> HIDE DEF b
  <2>3. /\ (IF k + 1 <= n THEN n - (k + 1) + 1 ELSE 0) = n - k /\ n - (k + 1) + 1 = n - k
        /\ \A i \in 1..(n - k) : (k + 1) + i - 1 = k + i
    <3> HIDE DEF n
    <3>1. QED
      BY <1>1
  <2>4. QED
    BY <2>2, <2>3, SeqIsSeq
<1>4. r = a \o b
  BY DEF RemoveAt
<1> HIDE DEF a, b, n
<1>5. DOMAIN a = 1..(k - 1) /\ DOMAIN b = 1..(n - k)
  BY <1>2, <1>3, IsSeqLength
<1>6. \A x : x \in Ids(a) <=> \E i \in 1..(k - 1) : Bears(s[i]) /\ s[i].id = x
  BY <1>2, <1>5 DEF Ids
<1>7. \A x : x \in Ids(b) <=> \E i \in 1..(n - k) : Bears(s[k + i]) /\ s[k + i].id = x
  BY <1>3, <1>5 DEF Ids
<1>8. \A x : x \in Ids(s) <=> \E i \in 1..n : Bears(s[i]) /\ s[i].id = x
  BY <1>1 DEF Ids
<1>9. \A i, j \in 1..n : Bears(s[i]) /\ Bears(s[j]) /\ s[i].id = s[j].id => i = j
  BY <1>1 DEF Listed, OnceEach
<1>10. \A i \in 1..(k - 1) : i \in 1..n /\ i < k
  BY <1>1
<1>11. \A i \in 1..(n - k) : k + i \in 1..n /\ k + i > k
  BY <1>1
<1>12. Listed(a) /\ Listed(b)
  <2>1. OnceEach(a)
    BY <1>2, <1>5, <1>9, <1>10 DEF OnceEach
  <2>2. ASSUME NEW i \in 1..(n - k), NEW j \in 1..(n - k), Bears(b[i]), Bears(b[j]), b[i].id = b[j].id
        PROVE  i = j
    <3>1. k + i = k + j
      BY <1>3, <1>9, <1>11, <2>2
    <3>2. QED
      BY <1>1, <3>1
  <2>3. QED
    BY <1>2, <1>3, <1>5, <2>1, <2>2 DEF Listed, OnceEach
<1>13. Ids(a) \cap Ids(b) = {}
  <2>1. SUFFICES ASSUME NEW i \in 1..(k - 1), NEW j \in 1..(n - k), Bears(s[i]),
                        Bears(s[k + j]), s[i].id = s[k + j].id
                 PROVE  FALSE
    BY <1>6, <1>7
  <2>2. i = k + j
    BY <1>9, <1>10, <1>11, <2>1
  <2>3. QED
    BY <1>1, <1>10, <1>11, <2>2
<1>14. Listed(r) /\ Ids(r) = Ids(a) \cup Ids(b) /\ ToSet(r) = ToSet(a) \cup ToSet(b)
  BY <1>4, <1>12, <1>13, IdsConcat
<1>15. Ids(a) \cup Ids(b) = Ids(s) \ {s[k].id}
  <2>1. ASSUME NEW x, x \in Ids(a) \cup Ids(b) PROVE x \in Ids(s) /\ x # s[k].id
    <3>1. PICK i \in 1..n : i # k /\ Bears(s[i]) /\ s[i].id = x
      BY <1>1, <1>6, <1>7, <1>10, <1>11, <2>1
    <3>2. QED
      BY <1>1, <1>8, <1>9, <3>1
  <2>2. ASSUME NEW x, x \in Ids(s), x # s[k].id PROVE x \in Ids(a) \cup Ids(b)
    <3>1. PICK i \in 1..n : i # k /\ Bears(s[i]) /\ s[i].id = x
      BY <1>8, <2>2
    <3>2. i \in 1..(k - 1) \/ (i - k \in 1..(n - k) /\ k + (i - k) = i)
      BY <1>1, <3>1
    <3>3. QED
      BY <1>6, <1>7, <3>1, <3>2
  <2>3. QED
    BY <2>1, <2>2
<1>16. ToSet(a) \subseteq ToSet(s) /\ ToSet(b) \subseteq ToSet(s)
  <2>1. ToSet(s) = {s[i] : i \in 1..n}
    BY <1>1 DEF ToSet
  <2>2. ToSet(a) = {a[i] : i \in 1..(k - 1)} /\ ToSet(b) = {b[i] : i \in 1..(n - k)}
    BY <1>5 DEF ToSet
  <2>3. QED
    BY <1>2, <1>3, <1>10, <1>11, <2>1, <2>2
<1>17. s[k] \in ToSet(s) /\ s[k].id \in Ids(s)
  BY DEF ToSet, Ids
<1>18. QED
  BY <1>14, <1>15, <1>16, <1>17

\* A list given by what is at its places.
LEMMA ListedIs ==
  ASSUME NEW n \in Nat, NEW f, f = [i \in 1..n |-> f[i]],
         \A i \in 1..n : Bears(f[i]),
         \A i, j \in 1..n : f[i].id = f[j].id => i = j
  PROVE  /\ Listed(f) /\ Len(f) = n
         /\ ToSet(f) = {f[i] : i \in 1..n} /\ Ids(f) = {f[i].id : i \in 1..n}
<1>1. IsSeq(f) /\ Len(f) = n /\ DOMAIN f = 1..n
  BY FunctionSeq, IsSeqLength
<1>2. OnceEach(f)
  BY <1>1 DEF OnceEach
<1>3. QED
  BY <1>1, <1>2 DEF Listed, Ids, ToSet

-----------------------------------------------------------------------------
(* Elements taken out of a sequence, and put back. *)

\* What comes before a place, and what comes after it.
LEMMA SubSeqsAre ==
  ASSUME NEW s, IsSeq(s), NEW n \in Nat, Len(s) = n, NEW i \in 1..n, NEW j \in 1..(n + 1)
  PROVE  /\ IsSeq(SubSeq(s, 1, i - 1)) /\ Len(SubSeq(s, 1, i - 1)) = i - 1
         /\ \A k \in 1..(i - 1) : SubSeq(s, 1, i - 1)[k] = s[k]
         /\ IsSeq(SubSeq(s, j, n)) /\ Len(SubSeq(s, j, n)) = (n - j) + 1
         /\ \A k \in 1..((n - j) + 1) : SubSeq(s, j, n)[k] = s[(j + k) - 1]
<1>1. PICK a : a = SubSeq(s, 1, i - 1)
  OBVIOUS
<1>2. PICK b : b = SubSeq(s, j, n)
  OBVIOUS
<1>3. /\ IsSeq(a) /\ Len(a) = i - 1 /\ \A k \in 1..(i - 1) : a[k] = s[k]
  <2>1. (\A k \in 1..(i - 1) : s[k] \in {s[x] : x \in 1..(i - 1)}) /\ 1 \in Int /\ i - 1 \in Int
    OBVIOUS
  <2>2. /\ SubSeq(s, 1, i - 1) \in Seq({s[x] : x \in 1..(i - 1)})
        /\ Len(SubSeq(s, 1, i - 1)) = IF 1 <= i - 1 THEN (i - 1) - 1 + 1 ELSE 0
        /\ \A k \in 1..((i - 1) - 1 + 1) : SubSeq(s, 1, i - 1)[k] = s[1 + k - 1]
    BY <2>1, SubSeqProperties
  <2>3. /\ (IF 1 <= i - 1 THEN (i - 1) - 1 + 1 ELSE 0) = i - 1 /\ (i - 1) - 1 + 1 = i - 1
        /\ \A k \in 1..(i - 1) : 1 + k - 1 = k
    OBVIOUS
  <2>4. QED
    BY <1>1, <2>2, <2>3, SeqIsSeq
<1>4. /\ IsSeq(b) /\ Len(b) = (n - j) + 1 /\ \A k \in 1..((n - j) + 1) : b[k] = s[(j + k) - 1]
  <2>0. PICK S : S = {s[x] : x \in j..n}
    OBVIOUS
  <2>1. (\A k \in j..n : s[k] \in S) /\ n \in Int /\ j \in Int
    BY <2>0
  <2>2. /\ SubSeq(s, j, n) \in Seq(S)
        /\ Len(SubSeq(s, j, n)) = IF j <= n THEN n - j + 1 ELSE 0
        /\ \A k \in 1..(n - j + 1) : SubSeq(s, j, n)[k] = s[j + k - 1]
    BY <2>1, SubSeqProperties
  <2>3. (IF j <= n THEN n - j + 1 ELSE 0) = (n - j) + 1
    OBVIOUS
  <2>4. b \in Seq(S)
    BY <1>2, <2>2
  <2>5. IsSeq(b)
    BY <2>4, SeqIsSeq
  <2>6. Len(b) = (n - j) + 1
    BY <1>2, <2>2, <2>3
  <2>7. ASSUME NEW k \in 1..((n - j) + 1) PROVE b[k] = s[(j + k) - 1]
    BY <1>2, <2>2
  <2>8. QED
    BY <2>5, <2>6, <2>7
<1>5. QED
  BY <1>1, <1>2, <1>3, <1>4

LEMMA RemoveAtIs ==
  ASSUME NEW s, IsSeq(s), NEW n \in Nat, Len(s) = n, NEW i \in 1..n
  PROVE  /\ IsSeq(RemoveAt(s, i)) /\ Len(RemoveAt(s, i)) = n - 1
         /\ \A k \in 1..(n - 1) : RemoveAt(s, i)[k] = IF k < i THEN s[k] ELSE s[k + 1]
<1>1. PICK a : a = SubSeq(s, 1, i - 1)
  OBVIOUS
<1>2. PICK b : b = SubSeq(s, i + 1, n)
  OBVIOUS
<1>3. PICK r : r = RemoveAt(s, i)
  OBVIOUS
<1>4. r = a \o b
  BY <1>1, <1>2, <1>3 DEF RemoveAt
<1>5. i + 1 \in 1..(n + 1)
  OBVIOUS
<1>6. /\ IsSeq(a) /\ Len(a) = i - 1 /\ \A k \in 1..(i - 1) : a[k] = s[k]
      /\ IsSeq(b) /\ Len(b) = (n - (i + 1)) + 1
      /\ \A k \in 1..((n - (i + 1)) + 1) : b[k] = s[((i + 1) + k) - 1]
  BY <1>1, <1>2, <1>5, SubSeqsAre
<1>7. (n - (i + 1)) + 1 = n - i
  OBVIOUS
<1>8. /\ IsSeq(r) /\ Len(r) = (i - 1) + (n - i)
      /\ \A k \in 1..((i - 1) + (n - i)) : r[k] = IF k <= i - 1 THEN a[k] ELSE b[k - (i - 1)]
  <2>1. IsSeq(r) /\ Len(r) = Len(a) + Len(b)
        /\ \A k \in 1..(Len(a) + Len(b)) : r[k] = IF k <= Len(a) THEN a[k] ELSE b[k - Len(a)]
    BY <1>4, <1>6, ConcatIsSeq
  <2>2. Len(a) = i - 1 /\ Len(b) = n - i
    BY <1>6, <1>7
  <2>3. QED
    BY <2>1, <2>2
<1>9. (i - 1) + (n - i) = n - 1
  OBVIOUS
<1>10. ASSUME NEW k \in 1..(n - 1) PROVE r[k] = IF k < i THEN s[k] ELSE s[k + 1]
  <2>1. CASE k < i
    <3>1. k \in 1..(i - 1) /\ k <= i - 1
      BY <2>1
    <3>2. QED
      BY <1>6, <1>8, <1>9, <2>1, <3>1
  <2>2. CASE ~(k < i)
    <3>1. ~(k <= i - 1) /\ k - (i - 1) \in 1..(n - i) /\ ((i + 1) + (k - (i - 1))) - 1 = k + 1
      BY <2>2
    <3>2. b[k - (i - 1)] = s[k + 1]
      BY <1>6, <1>7, <3>1
    <3>3. r[k] = b[k - (i - 1)]
      BY <1>8, <1>9, <3>1
    <3>4. QED
      BY <2>2, <3>2, <3>3
  <2>3. QED
    BY <2>1, <2>2
<1>11. QED
  BY <1>3, <1>8, <1>9, <1>10

LEMMA InsertAtIs ==
  ASSUME NEW s, IsSeq(s), NEW n \in Nat, Len(s) = n - 1, NEW i \in 1..n, NEW e
  PROVE  /\ IsSeq(InsertAt(s, i, e)) /\ Len(InsertAt(s, i, e)) = n
         /\ \A k \in 1..n : InsertAt(s, i, e)[k] =
              IF k < i THEN s[k] ELSE IF k = i THEN e ELSE s[k - 1]
<1>1. PICK a : a = SubSeq(s, 1, i - 1)
  OBVIOUS
<1>2. PICK b : b = SubSeq(s, i, n - 1)
  OBVIOUS
<1>3. PICK r : r = InsertAt(s, i, e)
  OBVIOUS
<1>4. PICK c : c = a \o <<e>>
  OBVIOUS
<1>5. r = c \o b
  BY <1>1, <1>2, <1>3, <1>4 DEF InsertAt
<1>6. /\ IsSeq(a) /\ Len(a) = i - 1 /\ \A k \in 1..(i - 1) : a[k] = s[k]
  <2>1. CASE i = n
    <3>1. SubSeq(s, 1, n - 1) = s
      <4>1. s \in Seq(ToSet(s))
        BY DEF IsSeq
      <4>2. PICK m \in Nat : m = n - 1
        OBVIOUS
      <4>3. (\A k \in 1..m : s[k] \in ToSet(s)) /\ 1 \in Int /\ m \in Int /\ Len(s) = m
        BY <4>2, IsSeqRange
      <4>4. /\ SubSeq(s, 1, m) \in Seq(ToSet(s))
            /\ Len(SubSeq(s, 1, m)) = IF 1 <= m THEN m - 1 + 1 ELSE 0
            /\ \A k \in 1..(m - 1 + 1) : SubSeq(s, 1, m)[k] = s[1 + k - 1]
        BY <4>3, SubSeqProperties
      <4>5. PICK d : d = SubSeq(s, 1, m)
        OBVIOUS
      <4>6. d \in Seq(ToSet(s)) /\ Len(d) = m /\ \A k \in 1..m : d[k] = s[k]
        <5>1. (IF 1 <= m THEN m - 1 + 1 ELSE 0) = m /\ m - 1 + 1 = m /\ \A k \in 1..m : 1 + k - 1 = k
          OBVIOUS
        <5>2. QED
          BY <4>4, <4>5, <5>1
      <4>7. d = s
        BY <4>1, <4>3, <4>6, SeqEqual
      <4>8. QED
        BY <4>2, <4>5, <4>7
    <3>2. QED
      BY <1>1, <2>1, <3>1
  <2>2. CASE i # n
    <3>1. i \in 1..(n - 1) /\ n - 1 \in Nat /\ n - 1 \in 1..((n - 1) + 1)
      BY <2>2
    <3>2. PICK m \in Nat : m = n - 1
      BY <3>1
    <3>3. QED
      BY <1>1, <3>1, <3>2, SubSeqsAre
  <2>3. QED
    BY <2>1, <2>2
<1>7. /\ IsSeq(b) /\ Len(b) = n - i /\ \A k \in 1..(n - i) : b[k] = s[(i + k) - 1]
  <2>a. PICK m : m = n - 1
    OBVIOUS
  <2>0. PICK S : S = {s[x] : x \in i..m}
    OBVIOUS
  <2>1. (\A k \in i..m : s[k] \in S) /\ m \in Int /\ i \in Int
    BY <2>a, <2>0
  <2>2. /\ SubSeq(s, i, m) \in Seq(S)
        /\ Len(SubSeq(s, i, m)) = IF i <= m THEN m - i + 1 ELSE 0
        /\ \A k \in 1..(m - i + 1) : SubSeq(s, i, m)[k] = s[i + k - 1]
    BY <2>1, SubSeqProperties
  <2>3. (IF i <= m THEN m - i + 1 ELSE 0) = n - i /\ m - i + 1 = n - i
    BY <2>a
  <2>4. b = SubSeq(s, i, m)
    BY <1>2, <2>a
  <2>5. b \in Seq(S)
    BY <2>2, <2>4
  <2>6. IsSeq(b)
    BY <2>5, SeqIsSeq
  <2>7. Len(b) = n - i
    BY <2>2, <2>3, <2>4
  <2>8. ASSUME NEW k \in 1..(n - i) PROVE b[k] = s[(i + k) - 1]
    BY <2>2, <2>3, <2>4
  <2>9. QED
    BY <2>6, <2>7, <2>8
<1>8. c = Append(a, e)
  BY <1>4
<1>9. /\ IsSeq(c) /\ Len(c) = i /\ \A k \in 1..(i - 1) : c[k] = s[k]
      /\ c[i] = e
  <2>1. (i - 1) + 1 = i
    OBVIOUS
  <2>2. /\ IsSeq(c) /\ Len(c) = (i - 1) + 1 /\ \A k \in 1..(i - 1) : c[k] = a[k]
        /\ c[(i - 1) + 1] = e
    BY <1>6, <1>8, AppendIsSeq
  <2>3. QED
    BY <1>6, <2>1, <2>2
<1>10. /\ IsSeq(r) /\ Len(r) = n
       /\ \A k \in 1..n : r[k] = IF k <= i THEN c[k] ELSE b[k - i]
  <2>1. i + (n - i) = n
    OBVIOUS
  <2>2. IsSeq(r) /\ Len(r) = Len(c) + Len(b)
        /\ \A k \in 1..(Len(c) + Len(b)) : r[k] = IF k <= Len(c) THEN c[k] ELSE b[k - Len(c)]
    BY <1>5, <1>7, <1>9, ConcatIsSeq
  <2>3. Len(c) = i /\ Len(b) = n - i
    BY <1>7, <1>9
  <2>4. QED
    BY <2>1, <2>2, <2>3
<1>11. ASSUME NEW k \in 1..n
       PROVE  r[k] = IF k < i THEN s[k] ELSE IF k = i THEN e ELSE s[k - 1]
  <2>1. CASE k < i
    <3>1. k \in 1..(i - 1) /\ k <= i
      BY <2>1
    <3>2. QED
      BY <1>9, <1>10, <2>1, <3>1
  <2>2. CASE k = i
    BY <1>9, <1>10, <2>2
  <2>3. CASE k > i
    <3>1. k - i \in 1..(n - i) /\ ~(k <= i) /\ (i + (k - i)) - 1 = k - 1
      BY <2>3
    <3>2. b[k - i] = s[k - 1]
      BY <1>7, <3>1
    <3>3. QED
      BY <1>10, <2>3, <3>1, <3>2
  <2>4. QED
    BY <2>1, <2>2, <2>3
<1>12. QED
  BY <1>3, <1>10, <1>11

\* An element is taken out and put back, changed, at a later place.
LEMMA MovedIs ==
  ASSUME NEW s, IsSeq(s), NEW n \in Nat, Len(s) = n, NEW i \in 1..n, NEW p \in 1..n, i < p, NEW e
  PROVE  /\ IsSeq(InsertAt(RemoveAt(s, i), p, e)) /\ Len(InsertAt(RemoveAt(s, i), p, e)) = n
         /\ \A k \in 1..n : InsertAt(RemoveAt(s, i), p, e)[k] =
              IF k < i \/ k > p THEN s[k] ELSE IF k = p THEN e ELSE s[k + 1]
<1>1. PICK t : t = RemoveAt(s, i)
  OBVIOUS
<1>2. PICK r : r = InsertAt(t, p, e)
  OBVIOUS
<1>3. /\ IsSeq(t) /\ Len(t) = n - 1
      /\ \A k \in 1..(n - 1) : t[k] = IF k < i THEN s[k] ELSE s[k + 1]
  BY <1>1, RemoveAtIs
<1>4. /\ IsSeq(r) /\ Len(r) = n
      /\ \A k \in 1..n : r[k] = IF k < p THEN t[k] ELSE IF k = p THEN e ELSE t[k - 1]
  BY <1>2, <1>3, InsertAtIs
<1>5. ASSUME NEW k \in 1..n
      PROVE  r[k] = IF k < i \/ k > p THEN s[k] ELSE IF k = p THEN e ELSE s[k + 1]
  <2>1. CASE k < p
    <3>1. k \in 1..(n - 1)
      BY <2>1
    <3>2. r[k] = IF k < i THEN s[k] ELSE s[k + 1]
      BY <1>3, <1>4, <2>1, <3>1
    <3>3. QED
      BY <2>1, <3>2
  <2>2. CASE k = p
    BY <1>4, <2>2
  <2>3. CASE k > p
    <3>1. k - 1 \in 1..(n - 1) /\ ~(k - 1 < i) /\ (k - 1) + 1 = k
      BY <2>3
    <3>2. t[k - 1] = s[k]
      BY <1>3, <3>1
    <3>3. QED
      BY <1>4, <2>3, <3>2
  <2>4. QED
    BY <2>1, <2>2, <2>3
<1>6. QED
  BY <1>1, <1>2, <1>4, <1>5

\* The sums of counts grow.
LEMMA PartialGrows ==
  ASSUME NEW s, IsCounts(s), NEW m \in 0..Len(s)
  PROVE  Partial(s)[m] \in Nat /\ Partial(s)[m] <= Total(s)
<1> DEFINE P == Partial(s)
           n == Len(s)
           S == {i \in Nat : i <= n => P[i] \in Nat}
           T == {i \in Nat : m + i <= n => P[m + i] \in Nat /\ P[m] <= P[m + i]}
<1>1. n \in Nat /\ \A i \in 1..n : s[i] \in Nat
  BY IsSeqLength DEF IsCounts
<1>2. /\ \A i \in 1..n : P[i] = P[i - 1] + s[i]
      /\ P[0] = 0 /\ Total(s) = P[n]
  BY <1>1, PartialDef
<1> HIDE DEF P
<1>3. \A i \in Nat : i \in S
  <2>1. 0 \in S
    BY <1>2
  <2>2. ASSUME NEW i \in Nat, i \in S PROVE i + 1 \in S
    <3>1. SUFFICES ASSUME i + 1 <= n PROVE P[i + 1] \in Nat
      OBVIOUS
    <3>2. i + 1 \in 1..n /\ (i + 1) - 1 = i /\ P[i] \in Nat
      BY <1>1, <2>2, <3>1
    <3>3. P[i + 1] = P[i] + s[i + 1] /\ s[i + 1] \in Nat
      BY <1>1, <1>2, <3>2
    <3>4. QED
      BY <3>2, <3>3
  <2> HIDE DEF S
  <2>3. QED
    BY <2>1, <2>2, Induction
<1>4. m \in Nat /\ P[m] \in Nat
  BY <1>1, <1>3
<1>5. \A i \in Nat : i \in T
  <2>1. 0 \in T
    BY <1>4
  <2>2. ASSUME NEW i \in Nat, i \in T PROVE i + 1 \in T
    <3>1. SUFFICES ASSUME m + (i + 1) <= n
                   PROVE  P[m + (i + 1)] \in Nat /\ P[m] <= P[m + (i + 1)]
      OBVIOUS
    <3>2. m + (i + 1) \in 1..n /\ (m + (i + 1)) - 1 = m + i
          /\ P[m + i] \in Nat /\ P[m] <= P[m + i]
      BY <1>1, <1>4, <2>2, <3>1
    <3>3. P[m + (i + 1)] = P[m + i] + s[m + (i + 1)] /\ s[m + (i + 1)] \in Nat
      BY <1>1, <1>2, <3>2
    <3>4. QED
      BY <1>4, <3>2, <3>3
  <2> HIDE DEF T
  <2>3. QED
    BY <2>1, <2>2, Induction
<1>6. n - m \in Nat /\ m + (n - m) = n
  BY <1>1, <1>4
<1>7. P[m] <= P[n]
  <2>1. n - m \in T
    BY <1>5, <1>6
  <2>2. QED
    BY <1>1, <1>6, <2>1
<1>8. QED
  BY <1>2, <1>4, <1>7 DEF P

\* A sequence that is another with one element more.
LEMMA IsAppend ==
  ASSUME NEW s, IsSeq(s), NEW t, IsSeq(t), Len(t) = Len(s) + 1,
         \A i \in 1..Len(s) : t[i] = s[i]
  PROVE  t # <<>> /\ Last(t) = t[Len(s) + 1] /\ t = Append(s, Last(t))
<1> DEFINE n == Len(s)
           u == Append(s, Last(t))
<1>1. n \in Nat /\ DOMAIN t = 1..(n + 1) /\ Len(t) = n + 1
  BY IsSeqLength
<1>2. Last(t) = t[n + 1]
  BY DEF Last
<1>3. /\ IsSeq(u) /\ Len(u) = n + 1 /\ u[n + 1] = Last(t)
      /\ \A i \in 1..n : u[i] = s[i]
  BY AppendIsSeq
<1> HIDE DEF u
<1>4. DOMAIN u = 1..(n + 1)
  BY <1>3, IsSeqLength
<1>5. ASSUME NEW i \in 1..(n + 1) PROVE t[i] = u[i]
  <2>1. i \in 1..n \/ i = n + 1
    BY <1>1
  <2>2. QED
    BY <1>2, <1>3, <2>1
<1>6. t = [i \in 1..(n + 1) |-> t[i]] /\ u = [i \in 1..(n + 1) |-> u[i]]
  BY <1>1, <1>3, <1>4, SeqIsSeq DEF IsSeq
<1>7. t = u
  BY <1>5, <1>6
<1>8. t # <<>>
  BY <1>1, EmptyIsSeq
<1>9. QED
  BY <1>2, <1>7, <1>8 DEF u

-----------------------------------------------------------------------------
(* Equality, parts, and rows of one width. *)

\* A sequence that continues another.
Continues(r, s, t) ==
  /\ IsSeq(s) /\ IsSeq(t) /\ IsSeq(r) /\ Len(r) = Len(s) + Len(t)
  /\ \A i \in 1..Len(s) : r[i] = s[i]
  /\ \A i \in 1..Len(t) : r[Len(s) + i] = t[i]

LEMMA ContinuesIs ==
  ASSUME NEW r, NEW s, NEW t, Continues(r, s, t)
  PROVE  r = s \o t
BY ConcatIs DEF Continues

\* Two sequences are one if they have the same elements.
LEMMA SameSeq ==
  ASSUME NEW s, IsSeq(s), NEW t, IsSeq(t), Len(s) = Len(t), \A i \in 1..Len(s) : s[i] = t[i]
  PROVE  s = t
<1>1. DOMAIN s = 1..Len(s) /\ DOMAIN t = 1..Len(s)
  BY IsSeqLength
<1>2. s = [i \in DOMAIN s |-> s[i]] /\ t = [i \in DOMAIN t |-> t[i]]
  BY DEF IsSeq
<1>3. QED
  BY <1>1, <1>2

\* The part of a sequence behind its first a elements, b elements long.
LEMMA PartIs ==
  ASSUME NEW s, IsSeq(s), NEW a \in Nat, NEW b \in Nat, a + b <= Len(s)
  PROVE  /\ IsSeq(SubSeq(s, a + 1, a + b)) /\ Len(SubSeq(s, a + 1, a + b)) = b
         /\ \A k \in 1..b : SubSeq(s, a + 1, a + b)[k] = s[a + k]
<1>0. PICK S : S = {s[x] : x \in (a + 1)..(a + b)}
  OBVIOUS
<1>1. (\A k \in (a + 1)..(a + b) : s[k] \in S) /\ a + 1 \in Int /\ a + b \in Int
  BY <1>0
<1>2. /\ SubSeq(s, a + 1, a + b) \in Seq(S)
      /\ Len(SubSeq(s, a + 1, a + b))
           = IF a + 1 <= a + b THEN (a + b) - (a + 1) + 1 ELSE 0
      /\ \A k \in 1..((a + b) - (a + 1) + 1) :
           SubSeq(s, a + 1, a + b)[k] = s[(a + 1) + k - 1]
  BY <1>1, SubSeqProperties
<1>3. PICK u : u = SubSeq(s, a + 1, a + b)
  OBVIOUS
<1>4. (a + b) - (a + 1) + 1 = b /\ (IF a + 1 <= a + b THEN (a + b) - (a + 1) + 1 ELSE 0) = b
  OBVIOUS
<1>5. IsSeq(u)
  BY <1>2, <1>3, SeqIsSeq
<1>6. Len(u) = b
  BY <1>2, <1>3, <1>4
<1>7. ASSUME NEW k \in 1..b PROVE u[k] = s[a + k]
  <2>1. (a + 1) + k - 1 = a + k /\ k \in 1..((a + b) - (a + 1) + 1)
    OBVIOUS
  <2>2. QED
    BY <1>2, <1>3, <2>1
<1>8. QED
  BY <1>3, <1>5, <1>6, <1>7

\* n sequences of one length, and a sequence that has them one after the other.
AreRows(f, n, w) ==
  f = [k \in 1..n |-> f[k]] /\ \A k \in 1..n : IsSeq(f[k]) /\ Len(f[k]) = w

HasRows(r, f, n, w) ==
  /\ IsSeq(r) /\ Len(r) = n * w
  /\ \A x \in 1..(n * w) : \E k \in 1..n, j \in 1..w : x = (k - 1) * w + j /\ r[x] = f[k][j]

LEMMA FlattenRows ==
  ASSUME NEW w \in Nat, NEW n \in Nat, NEW f, AreRows(f, n, w)
  PROVE  HasRows(FlattenSeq(f), f, n, w)
<1> USE DEF AreRows, HasRows
<1> DEFINE R(m) == FlattenSeq([k \in 1..m |-> f[k]])
           Q(m) == /\ IsSeq(R(m)) /\ Len(R(m)) = m * w
                   /\ \A x \in 1..(m * w) :
                        \E k \in 1..m, j \in 1..w : x = (k - 1) * w + j /\ R(m)[x] = f[k][j]
           S == {m \in Nat : m <= n => Q(m)}
<1> HIDE DEF Q
<1>1. ASSUME NEW m \in Nat PROVE /\ IsSeq([k \in 1..m |-> f[k]]) /\ Len([k \in 1..m |-> f[k]]) = m
  <2>1. PICK g : g = [k \in 1..m |-> f[k]]
    OBVIOUS
  <2>2. g = [k \in 1..m |-> g[k]]
    BY <2>1
  <2>3. QED
    BY <2>1, <2>2, FunctionSeq
<1>2. 0 \in S
  <2>1. PICK g : g = [k \in 1..0 |-> f[k]]
    OBVIOUS
  <2>2. IsSeq(g) /\ Len(g) = 0
    BY <1>1, <2>1
  <2>3. FlattenSeq(g) = g
    BY <2>2, FlattenDef, 0 \in Nat
  <2>4. R(0) = g
    BY <2>1, <2>3
  <2>5. 0 * w = 0
    OBVIOUS
  <2>6. Q(0)
    BY <2>2, <2>4, <2>5 DEF Q
  <2>7. QED
    BY <2>6
<1>3. ASSUME NEW m \in Nat, m \in S PROVE m + 1 \in S
  <2>1. SUFFICES ASSUME m + 1 <= n PROVE Q(m + 1)
    OBVIOUS
  <2>2. Q(m)
    BY <1>3, <2>1
  <2> USE DEF Q
  <2>3. PICK g : g = [k \in 1..m |-> f[k]]
    OBVIOUS
  <2>4. PICK h : h = [k \in 1..(m + 1) |-> f[k]]
    OBVIOUS
  <2>5. IsSeq(g) /\ Len(g) = m
    BY <1>1, <2>3
  <2>6. IsSeq(h) /\ Len(h) = m + 1
    <3>1. m + 1 \in Nat
      OBVIOUS
    <3>2. QED
      BY <1>1, <2>4, <3>1
  <2>7. (\A k \in 1..m : g[k] = f[k]) /\ (\A k \in 1..(m + 1) : h[k] = f[k])
    BY <2>3, <2>4
  <2>8. AreSeqs(g) /\ AreSeqs(h) /\ \A k \in 1..Len(g) : h[k] = g[k]
    <3>1. \A k \in 1..(m + 1) : IsSeq(f[k])
      BY <2>1
    <3>2. (\A k \in 1..m : IsSeq(g[k])) /\ (\A k \in 1..(m + 1) : IsSeq(h[k]))
      <4>1. ASSUME NEW k \in 1..m PROVE IsSeq(g[k])
        <5>1. g[k] = f[k] /\ k \in 1..(m + 1)
          BY <2>7
        <5>2. QED
          BY <3>1, <5>1
      <4>2. ASSUME NEW k \in 1..(m + 1) PROVE IsSeq(h[k])
        <5>1. h[k] = f[k]
          BY <2>7
        <5>2. QED
          BY <3>1, <5>1
      <4>3. QED
        BY <4>1, <4>2
    <3>3. AreSeqs(g) /\ AreSeqs(h)
      BY <2>5, <2>6, <3>2 DEF AreSeqs
    <3>4. QED
      <4>1. ASSUME NEW k \in 1..Len(g) PROVE h[k] = g[k]
        <5>1. k \in 1..m /\ k \in 1..(m + 1)
          BY <2>5
        <5>2. g[k] = f[k] /\ h[k] = f[k]
          BY <2>7, <5>1
        <5>3. QED
          BY <5>2
      <4>2. QED
        BY <3>3, <4>1
  <2>9. FlattenSeq(h) = FlattenSeq(g) \o h[Len(g) + 1]
    BY <2>5, <2>6, <2>8, FlattenAppended
  <2>10. R(m) = FlattenSeq(g) /\ R(m + 1) = FlattenSeq(h) /\ h[Len(g) + 1] = f[m + 1]
    BY <2>3, <2>4, <2>5, <2>7
  <2> DEFINE a == R(m)
             b == f[m + 1]
             c == R(m + 1)
  <2>11. c = a \o b
    BY <2>9, <2>10
  <2>12. IsSeq(b) /\ Len(b) = w
    BY <2>1
  <2>13. IsSeq(a) /\ Len(a) = m * w
    BY <2>2
  <2>14. /\ IsSeq(c) /\ Len(c) = m * w + w
         /\ \A x \in 1..(m * w + w) : c[x] = IF x <= m * w THEN a[x] ELSE b[x - m * w]
    <3>1. IsSeq(a \o b) /\ Len(a \o b) = Len(a) + Len(b)
          /\ \A x \in 1..(Len(a) + Len(b)) :
               (a \o b)[x] = IF x <= Len(a) THEN a[x] ELSE b[x - Len(a)]
      BY <2>12, <2>13, ConcatIsSeq
    <3> HIDE DEF a, b, c
    <3>2. QED
      BY <2>11, <2>12, <2>13, <3>1
  <2>15. (m + 1) * w = m * w + w /\ m * w \in Nat
    OBVIOUS
  <2>16. \A x \in 1..(m * w) :
           \E k \in 1..m, j \in 1..w : x = (k - 1) * w + j /\ a[x] = f[k][j]
    BY <2>2
  <2> HIDE DEF a, c, R
  <2>17. ASSUME NEW x \in 1..(m * w + w)
         PROVE  \E k \in 1..(m + 1), j \in 1..w : x = (k - 1) * w + j /\ c[x] = f[k][j]
    <3>1. CASE x <= m * w
      <4>0. x \in 1..(m * w)
        BY <2>15, <3>1
      <4>1. PICK k \in 1..m, j \in 1..w : x = (k - 1) * w + j /\ a[x] = f[k][j]
        BY <2>16, <4>0
      <4>2. k \in 1..(m + 1) /\ c[x] = f[k][j]
        <5>1. c[x] = a[x]
          BY <2>14, <3>1
        <5>2. QED
          BY <4>1, <5>1
      <4>3. QED
        BY <4>1, <4>2
    <3>2. CASE ~(x <= m * w)
      <4>1. PICK j \in 1..w : j = x - m * w
        BY <2>15, <3>2
      <4>2. c[x] = f[m + 1][j]
        BY <2>14, <3>2, <4>1
      <4>3. m + 1 \in 1..(m + 1) /\ x = ((m + 1) - 1) * w + j
        <5>1. (m + 1) - 1 = m /\ m + 1 \in 1..(m + 1)
          OBVIOUS
        <5>2. x = m * w + j
          BY <2>15, <4>1
        <5>3. QED
          BY <5>1, <5>2
      <4>4. QED
        BY <4>2, <4>3
    <3>3. QED
      BY <3>1, <3>2
  <2>18. IsSeq(c) /\ Len(c) = (m + 1) * w
    BY <2>14, <2>15
  <2>19. QED
    BY <2>15, <2>17, <2>18 DEF c
<1>4. \A m \in Nat : m \in S
  <2> HIDE DEF S
  <2>1. QED
    BY <1>2, <1>3, Induction
<1>5. Q(n)
  BY <1>4
<1>6. R(n) = FlattenSeq(f)
  BY Zenon
<1>7. QED
  BY <1>5, <1>6 DEF Q

-----------------------------------------------------------------------------
(* Places of a grid. *)

\* Every place of a grid of w rows of s is in a row.
LEMMA GridPlace ==
  ASSUME NEW s \in Nat, NEW w \in Nat
  PROVE  \A i \in 1..(w * s) : \E j \in 1..w, n \in 1..s : i = (j - 1) * s + n
<1> DEFINE P(m) == \A i \in 1..(m * s) : \E j \in 1..m, n \in 1..s : i = (j - 1) * s + n
           S == {m \in Nat : P(m)}
<1> HIDE DEF P
<1>1. 0 \in S
  <2>1. 1..(0 * s) = {}
    OBVIOUS
  <2>2. QED
    BY <2>1 DEF P
<1>2. ASSUME NEW m \in Nat, m \in S PROVE m + 1 \in S
  <2>1. ASSUME NEW i \in 1..((m + 1) * s) PROVE \E j \in 1..(m + 1), n \in 1..s : i = (j - 1) * s + n
    <3>1. PICK t : t = m * s
      OBVIOUS
    <3>2. t \in Nat /\ (m + 1) * s = t + s
      BY <3>1
    <3>3. CASE i <= t
      <4>1. i \in 1..(m * s)
        BY <3>1, <3>2, <3>3
      <4>2. PICK j \in 1..m, n \in 1..s : i = (j - 1) * s + n
        BY <1>2, <4>1 DEF P
      <4>3. j \in 1..(m + 1)
        OBVIOUS
      <4>4. QED
        BY <4>2, <4>3
    <3>4. CASE ~(i <= t)
      <4>1. i - t \in 1..s /\ i = t + (i - t)
        BY <3>2, <3>4
      <4>2. m + 1 \in 1..(m + 1) /\ (m + 1) - 1 = m
        OBVIOUS
      <4>3. i = ((m + 1) - 1) * s + (i - t)
        BY <3>1, <4>1, <4>2
      <4>4. QED
        BY <4>1, <4>2, <4>3
    <3>5. QED
      BY <3>3, <3>4
  <2>2. P(m + 1)
    BY <2>1 DEF P
  <2>3. QED
    BY <2>2
<1>3. S = Nat
  BY <1>1, <1>2, Induction
<1>4. P(w)
  BY <1>3
<1>5. QED
  BY <1>4 DEF P

\* And in one place of one row.
LEMMA GridOnce ==
  ASSUME NEW s \in Nat, NEW j \in Nat \ {0}, NEW k \in Nat \ {0}, NEW m \in 1..s, NEW n \in 1..s,
         (j - 1) * s + m = (k - 1) * s + n
  PROVE  j = k /\ m = n
<1>1. ASSUME NEW a \in Nat \ {0}, NEW b \in Nat \ {0}, NEW c \in 1..s, NEW d \in 1..s, a < b
      PROVE  (a - 1) * s + c # (b - 1) * s + d
  <2>1. PICK e \in Nat : b = (a + 1) + e
    <3>1. b - (a + 1) \in Nat /\ b = (a + 1) + (b - (a + 1))
      BY <1>1
    <3>2. QED
      BY <3>1
  <2>2. PICK x, y : x = (a - 1) * s /\ y = e * s
    OBVIOUS
  <2>3. a - 1 \in Nat
    OBVIOUS
  <2>4. x \in Nat /\ y \in Nat
    BY <2>2, <2>3
  <2>5. (b - 1) * s = x + s + y
    <3>1. b - 1 = (a - 1) + 1 + e
      BY <2>1
    <3>2. ((a - 1) + 1 + e) * s = (a - 1) * s + s + e * s
      BY <2>3
    <3>3. QED
      BY <2>2, <3>1, <3>2
  <2>6. QED
    BY <2>2, <2>4, <2>5
<1>2. ~(j < k) /\ ~(k < j)
  BY <1>1
<1>3. j = k
  BY <1>2
<1>4. PICK x : x = (j - 1) * s
  OBVIOUS
<1>5. x \in Nat
  <2>1. j - 1 \in Nat
    OBVIOUS
  <2>2. QED
    BY <1>4, <2>1
<1>6. m = n
  BY <1>3, <1>4, <1>5
<1>7. QED
  BY <1>3, <1>6
=============================================================================
