-------------------------- MODULE StreamSessionProofs --------------------------
(***************************************************************************)
(* The stdio client, the sessions over it and the decoder of their responses,   *)
(* for every number of requests, sessions and processes and all limits.         *)
(*                                                                          *)
(* The decoder: fed a byte or a chunk, it has taken whole lines off the bytes,   *)
(* and what it has made of them is what a reader of the whole would.  Feed is a  *)
(* recursive function; that there is one is proved by least counterexample, and *)
(* so is what it returns.  The client: who waits is attended to, notifications   *)
(* stay with their request, no process is forgotten, and the bytes in the queues *)
(* are counted right.  The sessions: each is one user of the client, so what      *)
(* holds of the client holds under them; what one has told is right by its own   *)
(* record and by what its request is about, which changes in step with it.       *)
(***************************************************************************)
EXTENDS StreamSession, FiniteSetTheorems, SequenceTheorems, TLAPS
-------------------------------------------------------------------------------
(* The decoder.  Numbers, and sets of them in order.                         *)

LEMMA LeastNat ==
  ASSUME NEW S \in SUBSET Nat, S # {}
  PROVE  \E m \in S : \A n \in S : m <= n
<1>1. \E m \in S : \A n \in S : ~(<<n, m>> \in OpToRel(<, Nat))
  BY WFMin, NatLessThanWellFounded
<1>2. \A n, m \in S : n < m => <<n, m>> \in OpToRel(<, Nat)
  BY DEF OpToRel
<1>3. PICK m \in S : \A n \in S : ~(n < m)
  BY <1>1, <1>2
<1>4. QED
  BY <1>3

LEMMA MinIsLeast ==
  ASSUME NEW S \in SUBSET Nat, S # {}
  PROVE  Min(S) \in S /\ \A n \in S : Min(S) <= n
BY LeastNat DEF Min

LEMMA MaxIsGreatest ==
  ASSUME NEW c \in Nat, NEW S \in SUBSET (0 .. c), S # {}
  PROVE  Max(S) \in S /\ \A n \in S : n <= Max(S)
<1> DEFINE T == {c - i : i \in S}
<1>1. T \in SUBSET Nat /\ T # {}
  <2>1. \A i \in S : c - i \in Nat
    OBVIOUS
  <2> QED
    BY <2>1
<1>2. PICK m \in T : \A n \in T : m <= n
  BY <1>1, LeastNat
<1>3. PICK i \in S : m = c - i
  BY <1>2
<1>4. \A n \in S : n <= i
  BY <1>2, <1>3
<1>5. QED
  BY <1>4 DEF Max

Rank(S, i) == Cardinality({j \in S : j < i})

LEMMA RankGrows ==
  ASSUME NEW S, S \subseteq Nat, IsFiniteSet(S), NEW i \in S
  PROVE  /\ Rank(S, i) \in Nat /\ Rank(S, i) < Cardinality(S) /\ Cardinality(S) \in Nat
         /\ \A j \in S : i < j => Rank(S, i) < Rank(S, j)
         /\ \A j \in S : Rank(S, j) = Rank(S, i) => j = i
<1>1. ASSUME NEW T \in SUBSET S, NEW k \in S, k \in T, \A j \in S : j < k => j \in T
      PROVE  Rank(S, k) \in Nat /\ Cardinality(T) \in Nat /\ Rank(S, k) < Cardinality(T)
  <2> DEFINE B == {j \in S : j < k}
  <2>0. k \in Nat /\ ~(k < k)
    OBVIOUS
  <2>1. B \in SUBSET S /\ k \notin B /\ B \in SUBSET T /\ B # T
    BY <1>1, <2>0
  <2>2. IsFiniteSet(T) /\ IsFiniteSet(B)
    BY <1>1, <2>1, FS_Subset
  <2>3. Cardinality(B) \in Nat /\ Cardinality(T) \in Nat
    BY <2>2, FS_CardinalityType
  <2>4. Cardinality(B) <= Cardinality(T) /\ Cardinality(B) # Cardinality(T)
    BY <2>1, <2>2, FS_Subset
  <2> QED
    BY <2>3, <2>4 DEF Rank
<1>2. ASSUME NEW k \in S, NEW j \in S, k < j
      PROVE  Rank(S, k) < Rank(S, j)
  <2> DEFINE T == {n \in S : n < j}
  <2>1. T \in SUBSET S /\ k \in T /\ \A n \in S : n < k => n \in T
    BY <1>2
  <2> QED
    BY <1>1, <2>1 DEF Rank
<1>3. Rank(S, i) \in Nat /\ Rank(S, i) < Cardinality(S) /\ Cardinality(S) \in Nat
  BY <1>1
<1>4. ASSUME NEW j \in S, Rank(S, j) = Rank(S, i)
      PROVE  j = i
  <2>1. Rank(S, j) \in Nat
    BY <1>3, <1>4
  <2>2. ~(j < i) /\ ~(i < j)
    BY <1>2, <1>3, <1>4
  <2> QED
    BY <2>2
<1> QED
  BY <1>2, <1>3, <1>4

\* Every place in the order has its element.
LEMMA RankOnto ==
  ASSUME NEW S, S \subseteq Nat, IsFiniteSet(S), NEW k \in 1 .. Cardinality(S)
  PROVE  \E i \in S : Rank(S, i) = k - 1
<1> DEFINE Missing == {n \in Nat : n < Cardinality(S) /\ \A i \in S : Rank(S, i) # n}
<1>0. Cardinality(S) \in Nat
  BY FS_CardinalityType
<1> SUFFICES ASSUME Missing # {} PROVE FALSE
  BY <1>0
<1>1. PICK m \in Missing : \A n \in Missing : m <= n
  BY LeastNat
<1> DEFINE T == {i \in S : \A j \in S : Rank(S, j) = m - 1 => j < i}
<1>2. T # {}
  <2>1. CASE m = 0
    <3>1. S # {}
      BY <1>1, <2>1, FS_EmptySet
    <3>2. \A j \in S : Rank(S, j) \in Nat
      BY RankGrows
    <3>3. T = S
      BY <2>1, <3>2
    <3> QED
      BY <3>1, <3>3
  <2>2. CASE m # 0
    <3>1. m - 1 \in Nat /\ m - 1 \notin Missing
      BY <1>1, <2>2
    <3>2. PICK p \in S : Rank(S, p) = m - 1
      <4>1. m - 1 < Cardinality(S)
        BY <1>0, <1>1
      <4> QED
        BY <3>1, <4>1
    <3>3. \A j \in S : Rank(S, j) = m - 1 => j = p
      BY <3>2, RankGrows
    <3> DEFINE B == {j \in S : j < p}
    <3>4. IsFiniteSet(B) /\ Cardinality(B) = m - 1 /\ p \notin B
      BY <3>2, FS_Subset DEF Rank
    <3>5. Cardinality(B \cup {p}) = m
      <4>1. Cardinality(B \cup {p}) = Cardinality(B) + 1
        BY <3>4, FS_AddElement
      <4> QED
        BY <1>1, <3>4, <4>1
    <3>6. B \cup {p} # S
      BY <1>1, <3>5
    <3>7. PICK i \in S : i \notin B \cup {p}
      BY <3>6
    <3>8. p < i
      BY <3>7
    <3> QED
      BY <3>3, <3>7, <3>8
  <2> QED
    BY <2>1, <2>2
<1>3. PICK i \in T : \A n \in T : i <= n
  BY <1>2, LeastNat
<1>4. \A j \in S : j < i => j \notin T
  BY <1>3
<1>5. Rank(S, i) = m
  <2>1. CASE m = 0
    <3>1. \A j \in S : Rank(S, j) \in Nat
      BY RankGrows
    <3>2. T = S
      BY <2>1, <3>1
    <3>3. {j \in S : j < i} = {}
      <4>1. \A j \in S : i <= j /\ i \in Nat /\ j \in Nat
        BY <1>3, <3>2
      <4>2. \A j \in S : ~(j < i)
        BY <4>1
      <4> QED
        BY <4>2
    <3> QED
      BY <2>1, <3>3, FS_EmptySet DEF Rank
  <2>2. CASE m # 0
    <3>1. m - 1 \in Nat /\ m - 1 \notin Missing
      BY <1>1, <2>2
    <3>2. PICK p \in S : Rank(S, p) = m - 1
      <4>1. m - 1 < Cardinality(S)
        BY <1>0, <1>1
      <4> QED
        BY <3>1, <4>1
    <3>3. \A j \in S : Rank(S, j) = m - 1 => j = p
      BY <3>2, RankGrows
    <3>4. \A j \in S : j \in T <=> p < j
      BY <3>2, <3>3
    <3> DEFINE B == {j \in S : j < p}
    <3>5. IsFiniteSet(B) /\ Cardinality(B) = m - 1 /\ p \notin B
      BY <3>2, FS_Subset DEF Rank
    <3>6. Cardinality(B \cup {p}) = m
      <4>1. Cardinality(B \cup {p}) = Cardinality(B) + 1
        BY <3>5, FS_AddElement
      <4> QED
        BY <1>1, <3>5, <4>1
    <3>7. {j \in S : j < i} = B \cup {p}
      <4>1. i \in S /\ p < i
        BY <1>3, <3>4
      <4>2. \A j \in S : j < i <=> ~(p < j)
        <5> SUFFICES ASSUME NEW j \in S PROVE j < i <=> ~(p < j)
          OBVIOUS
        <5>1. i \in Nat /\ j \in Nat /\ p \in Nat
          BY <4>1
        <5>2. p < j => i <= j
          BY <1>3, <3>4
        <5>3. j < i => ~(p < j)
          BY <1>4, <3>4
        <5>4. ~(p < j) => j < i
          BY <4>1, <5>1
        <5> QED
          BY <5>3, <5>1, <5>2, <5>4
      <4>3. \A j \in S : ~(p < j) <=> j < p \/ j = p
        OBVIOUS
      <4> QED
        BY <4>2, <4>3
    <3> QED
      BY <3>6, <3>7 DEF Rank
  <2> QED
    BY <2>1, <2>2
<1>6. QED
  BY <1>1, <1>3, <1>5

LEMMA InOrderFacts ==
  ASSUME NEW S, S \subseteq Nat, IsFiniteSet(S)
  PROVE  /\ Cardinality(S) \in Nat /\ Len(InOrder(S)) = Cardinality(S)
         /\ \A k \in 1 .. Cardinality(S) :
              InOrder(S)[k] \in S /\ Rank(S, InOrder(S)[k]) = k - 1
         /\ \A i \in S : Rank(S, i) + 1 \in 1 .. Cardinality(S) /\ InOrder(S)[Rank(S, i) + 1] = i
<1>1. Cardinality(S) \in Nat
  BY FS_CardinalityType
<1>2. Len(InOrder(S)) = Cardinality(S)
  BY <1>1 DEF InOrder
<1>3. ASSUME NEW k \in 1 .. Cardinality(S)
      PROVE  InOrder(S)[k] \in S /\ Rank(S, InOrder(S)[k]) = k - 1
  <2>1. \E i \in S : Cardinality({j \in S : j < i}) = k - 1
    BY RankOnto DEF Rank
  <2>2. InOrder(S)[k] = CHOOSE i \in S : Cardinality({j \in S : j < i}) = k - 1
    BY DEF InOrder
  <2> QED
    BY <2>1, <2>2 DEF Rank
<1>4. ASSUME NEW i \in S
      PROVE  Rank(S, i) + 1 \in 1 .. Cardinality(S) /\ InOrder(S)[Rank(S, i) + 1] = i
  <2>0. Rank(S, i) \in Nat /\ Rank(S, i) < Cardinality(S)
    BY RankGrows
  <2>1. Rank(S, i) + 1 \in 1 .. Cardinality(S)
    BY <1>1, <2>0
  <2> DEFINE k == Rank(S, i) + 1
  <2>2. InOrder(S)[k] \in S /\ Rank(S, InOrder(S)[k]) = k - 1
    BY <1>3, <2>1
  <2>3. Rank(S, InOrder(S)[k]) = Rank(S, i)
    BY <2>0, <2>2
  <2> QED
    BY <2>1, <2>2, <2>3, RankGrows
<1> QED
  BY <1>1, <1>2, <1>3, <1>4

\* The others in T are greater than all of S.
Begins(S, T) ==
  /\ T \subseteq Nat /\ IsFiniteSet(T) /\ S \subseteq T
  /\ \A i \in S : \A j \in T \ S : i < j

\* They do not change the order of S.
LEMMA InOrderPrefix ==
  ASSUME NEW S, NEW T, Begins(S, T)
  PROVE  /\ Cardinality(S) <= Cardinality(T)
         /\ \A k \in 1 .. Cardinality(S) : InOrder(T)[k] = InOrder(S)[k]
         /\ \A p \in T \ S : (\A j \in T \ S : p <= j) =>
              Cardinality(S) + 1 \in 1 .. Cardinality(T) /\ InOrder(T)[Cardinality(S) + 1] = p
<1>0. /\ T \subseteq Nat /\ IsFiniteSet(T) /\ S \subseteq T
      /\ \A i \in S : \A j \in T \ S : i < j
  BY DEF Begins
<1>1. S \subseteq Nat /\ IsFiniteSet(S) /\ Cardinality(S) <= Cardinality(T)
  BY <1>0, FS_Subset
<1>2. Cardinality(S) \in Nat /\ Cardinality(T) \in Nat
  BY <1>0, <1>1, FS_CardinalityType
<1>3. ASSUME NEW k \in 1 .. Cardinality(S)
      PROVE  InOrder(T)[k] = InOrder(S)[k]
  <2> DEFINE i == InOrder(S)[k]
  <2>1. i \in S /\ Rank(S, i) = k - 1
    BY <1>1, InOrderFacts
  <2>2. {j \in T : j < i} = {j \in S : j < i}
    <3>1. \A j \in T \ S : i < j /\ i \in Nat /\ j \in Nat
      BY <1>0, <1>1, <2>1
    <3>2. \A j \in T \ S : ~(j < i)
      BY <3>1
    <3> QED
      BY <1>0, <3>2
  <2>3. Rank(T, i) = k - 1
    BY <2>1, <2>2 DEF Rank
  <2>4. InOrder(T)[Rank(T, i) + 1] = i
    BY <1>0, <2>1, InOrderFacts
  <2>5. Rank(T, i) + 1 = k
    BY <2>3
  <2> QED
    BY <2>4, <2>5
<1>4. ASSUME NEW p \in T \ S, \A j \in T \ S : p <= j
      PROVE  Cardinality(S) + 1 \in 1 .. Cardinality(T) /\ InOrder(T)[Cardinality(S) + 1] = p
  <2>1. {j \in T : j < p} = S
    <3>1. \A j \in T \ S : p <= j /\ p \in Nat /\ j \in Nat
      BY <1>0, <1>4
    <3>2. \A j \in T \ S : ~(j < p)
      BY <3>1
    <3>3. \A j \in S : j < p
      BY <1>0, <1>4
    <3> QED
      BY <1>0, <3>2, <3>3
  <2>2. Rank(T, p) = Cardinality(S)
    BY <2>1 DEF Rank
  <2> QED
    BY <1>0, <1>4, <2>2, InOrderFacts
<1> QED
  BY <1>1, <1>3, <1>4
-------------------------------------------------------------------------------
(* Lines and events of bytes.                                               *)

LEMMA BytesDiffer == CR # LF
<1> SUFFICES ASSUME CR = LF PROVE FALSE
  OBVIOUS
<1>1. IsFiniteSet({LF}) /\ Cardinality({LF}) = 1
  BY FS_Singleton
<1>2. IsFiniteSet({LF} \cup {Data}) /\ Cardinality({LF} \cup {Data}) <= 2
  BY <1>1, FS_AddElement
<1>3. Cardinality({LF} \cup {Data}) \in Nat
  BY <1>2, FS_CardinalityType
<1>4. Cardinality(({LF} \cup {Data}) \cup {Other}) <= 3
  BY <1>2, <1>3, FS_AddElement
<1>5. Bytes = ({LF} \cup {Data}) \cup {Other}
  BY DEF Bytes
<1> QED
  BY <1>4, <1>5, SseDecoderAssumption DEF SseDecoderAssumption

LEMMA LineEndFacts ==
  ASSUME NEW b \in Seq(Bytes)
  PROVE  /\ Len(b) \in Nat /\ DOMAIN b = 1 .. Len(b)
         /\ LineEnds(b) \subseteq 1 .. Len(b)
         /\ \A i \in LineEnds(b) :
              /\ Past(b, i) \in i .. Len(b) /\ Past(b, i) <= i + 1
              /\ \A j \in LineEnds(b) : i < j => Past(b, i) < j
<1>1. Len(b) \in Nat /\ DOMAIN b = 1 .. Len(b)
  OBVIOUS
<1>2. LineEnds(b) \subseteq 1 .. Len(b)
  BY <1>1 DEF LineEnds
<1>3. ASSUME NEW i \in LineEnds(b)
      PROVE  Past(b, i) \in i .. Len(b) /\ Past(b, i) <= i + 1
  BY <1>1, <1>2 DEF Past
<1>4. ASSUME NEW i \in LineEnds(b), NEW j \in LineEnds(b), i < j
      PROVE  Past(b, i) < j
  <2>1. i \in 1 .. Len(b) /\ j \in 1 .. Len(b)
    BY <1>2
  <2>2. CASE Past(b, i) = i
    BY <1>4, <2>2
  <2>3. CASE Past(b, i) # i
    <3>1. b[i] = CR /\ b[i + 1] = LF /\ Past(b, i) = i + 1
      BY <2>3 DEF Past
    <3>2. i + 1 \notin LineEnds(b)
      BY <2>1, <3>1, BytesDiffer DEF LineEnds
    <3>3. j # i + 1
      BY <3>2
    <3> QED
      BY <1>4, <2>1, <3>1, <3>3
  <2> QED
    BY <2>2, <2>3
<1> QED
  BY <1>1, <1>2, <1>3, <1>4

LEMMA LineStartFacts ==
  ASSUME NEW b \in Seq(Bytes), NEW i \in LineEnds(b)
  PROVE  /\ LineStart(b, i) \in 1 .. i
         /\ \A e \in LineEnds(b) : e < i /\ (\A j \in LineEnds(b) : j < i => j <= e)
              => LineStart(b, i) = Past(b, e) + 1
         /\ (\A j \in LineEnds(b) : i <= j) => LineStart(b, i) = 1
<1> DEFINE before == {j \in LineEnds(b) : j < i}
<1>1. LineEnds(b) \subseteq 1 .. Len(b) /\ Len(b) \in Nat /\ i \in 1 .. Len(b)
  BY LineEndFacts
<1>2. before \in SUBSET (0 .. Len(b))
  BY <1>1
<1>3. CASE before = {}
  <2>1. LineStart(b, i) = 1
    BY <1>3 DEF LineStart
  <2> QED
    BY <1>1, <1>3, <2>1
<1>4. CASE before # {}
  <2>1. Max(before) \in before /\ \A n \in before : n <= Max(before)
    BY <1>1, <1>2, <1>4, MaxIsGreatest
  <2>2. LineStart(b, i) = Past(b, Max(before)) + 1
    BY <1>4 DEF LineStart
  <2>3. Past(b, Max(before)) \in Nat /\ Past(b, Max(before)) < i
    BY <1>1, <2>1, LineEndFacts
  <2>4. ASSUME NEW e \in LineEnds(b), e < i, \A j \in LineEnds(b) : j < i => j <= e
        PROVE  e = Max(before)
    <3>1. e \in before /\ Max(before) <= e /\ e <= Max(before)
      BY <2>1, <2>4
    <3>2. e \in Nat /\ Max(before) \in Nat
      BY <1>1, <2>1
    <3> QED
      BY <3>1, <3>2
  <2>5. ~(\A j \in LineEnds(b) : i <= j)
    BY <1>1, <2>1
  <2> QED
    BY <1>1, <2>2, <2>3, <2>4, <2>5
<1> QED
  BY <1>3, <1>4

LEMMA EventEndFacts ==
  ASSUME NEW b \in Seq(Bytes)
  PROVE  /\ EventEnds(b) \subseteq LineEnds(b) /\ EventEnds(b) \subseteq Nat
         /\ IsFiniteSet(EventEnds(b)) /\ Cardinality(EventEnds(b)) \in Nat
         /\ LineEnds(b) \subseteq Nat /\ IsFiniteSet(LineEnds(b))
<1>1. LineEnds(b) \subseteq 1 .. Len(b) /\ Len(b) \in Nat
  BY LineEndFacts
<1>2. IsFiniteSet(1 .. Len(b))
  BY <1>1, FS_Interval
<1>3. EventEnds(b) \subseteq LineEnds(b)
  BY DEF EventEnds
<1>4. IsFiniteSet(LineEnds(b)) /\ IsFiniteSet(EventEnds(b))
  BY <1>1, <1>2, <1>3, FS_Subset
<1> QED
  BY <1>1, <1>3, <1>4, FS_CardinalityType

\* The bytes of `more` begin with those of b.
Grown(b, more) ==
  /\ b \in Seq(Bytes) /\ more \in Seq(Bytes)
  /\ Len(b) <= Len(more) /\ \A i \in 1 .. Len(b) : more[i] = b[i]

LEMMA GrownLines ==
  ASSUME NEW b, NEW more, Grown(b, more)
  PROVE  /\ \A i \in 1 .. Len(b) : i \in LineEnds(more) <=> i \in LineEnds(b)
         /\ LineEnds(b) \subseteq LineEnds(more)
         /\ \A i \in LineEnds(more) \ LineEnds(b) : Len(b) < i
         /\ \A i \in LineEnds(b) : i < Len(b) \/ b[i] # CR => Past(more, i) = Past(b, i)
         /\ \A i \in LineEnds(b) : LineStart(more, i) = LineStart(b, i)
<1> USE DEF Grown
<1>1. /\ Len(b) \in Nat /\ DOMAIN b = 1 .. Len(b) /\ LineEnds(b) \subseteq 1 .. Len(b)
      /\ Len(more) \in Nat /\ DOMAIN more = 1 .. Len(more) /\ LineEnds(more) \subseteq 1 .. Len(more)
  BY LineEndFacts
<1>2. ASSUME NEW i \in 1 .. Len(b)
      PROVE  i \in LineEnds(more) <=> i \in LineEnds(b)
  <2>1. i \in 1 .. Len(more) /\ more[i] = b[i]
    BY <1>1
  <2>2. i > 1 => i - 1 \in 1 .. Len(b)
    BY <1>1
  <2>3. i > 1 => more[i - 1] = b[i - 1]
    BY <2>2
  <2> QED
    BY <1>1, <2>1, <2>3 DEF LineEnds
<1>3. ASSUME NEW i \in LineEnds(b), i < Len(b) \/ b[i] # CR
      PROVE  Past(more, i) = Past(b, i)
  <2>1. i \in 1 .. Len(b) /\ more[i] = b[i]
    BY <1>1
  <2>2. i < Len(b) => more[i + 1] = b[i + 1]
    BY <1>1, <2>1
  <2> QED
    BY <1>1, <1>3, <2>1, <2>2 DEF Past
<1>4. ASSUME NEW i \in LineEnds(b)
      PROVE  LineStart(more, i) = LineStart(b, i)
  <2> DEFINE before == {j \in LineEnds(b) : j < i}
  <2>1. {j \in LineEnds(more) : j < i} = before
    BY <1>1, <1>2
  <2>2. CASE before = {}
    BY <2>1, <2>2 DEF LineStart
  <2>3. CASE before # {}
    <3>0. before \in SUBSET (0 .. Len(b))
      BY <1>1
    <3>1. Max(before) \in before
      BY <1>1, <2>3, <3>0, MaxIsGreatest
    <3>2. Past(more, Max(before)) = Past(b, Max(before))
      BY <1>1, <1>3, <3>1
    <3> QED
      BY <2>1, <2>3, <3>2 DEF LineStart
  <2> QED
    BY <2>2, <2>3
<1> QED
  BY <1>1, <1>2, <1>3, <1>4

LEMMA GrownData ==
  ASSUME NEW b, NEW more, Grown(b, more), NEW lines, lines \subseteq LineEnds(b)
  PROVE  DataOf(more, lines) = DataOf(b, lines)
<1>1. /\ b \in Seq(Bytes) /\ more \in Seq(Bytes) /\ Len(b) \in Nat /\ Len(more) \in Nat
      /\ Len(b) <= Len(more) /\ \A i \in 1 .. Len(b) : more[i] = b[i]
      /\ LineEnds(b) \subseteq 1 .. Len(b)
  BY LineEndFacts DEF Grown
<1> DEFINE wanted == {i \in lines : LineStart(b, i) < i /\ b[LineStart(b, i)] = Data}
<1>2. \A i \in lines : /\ LineStart(more, i) = LineStart(b, i)
                       /\ LineStart(b, i) \in 1 .. i /\ i \in 1 .. Len(b)
  BY <1>1, GrownLines, LineStartFacts
<1>3. \A i \in lines : more[LineStart(b, i)] = b[LineStart(b, i)]
  BY <1>1, <1>2
<1>4. {i \in lines : LineStart(more, i) < i /\ more[LineStart(more, i)] = Data} = wanted
  BY <1>2, <1>3
<1>5. wanted \subseteq Nat /\ IsFiniteSet(wanted) /\ wanted \subseteq lines
  BY <1>1, EventEndFacts, FS_Subset
<1> DEFINE order == InOrder(wanted)
<1>6. Len(order) \in Nat /\ \A k \in 1 .. Len(order) : order[k] \in lines
  BY <1>5, InOrderFacts
<1>7. ASSUME NEW i \in lines
      PROVE  SubSeq(more, LineStart(more, i) + 1, i - 1) = SubSeq(b, LineStart(b, i) + 1, i - 1)
  <2> DEFINE m == LineStart(b, i) + 1
             n == i - 1
  <2>1. m \in Int /\ n \in Int /\ 1 <= m /\ n <= Len(b)
    BY <1>1, <1>2
  <2>2. \A j \in m .. n : b[j] \in Bytes /\ more[j] = b[j]
    BY <1>1, <2>1
  <2>3. /\ SubSeq(b, m, n) \in Seq(Bytes) /\ SubSeq(more, m, n) \in Seq(Bytes)
        /\ Len(SubSeq(b, m, n)) = (IF m <= n THEN n - m + 1 ELSE 0)
        /\ Len(SubSeq(more, m, n)) = (IF m <= n THEN n - m + 1 ELSE 0)
        /\ \A j \in 1 .. n - m + 1 : SubSeq(b, m, n)[j] = b[m + j - 1]
        /\ \A j \in 1 .. n - m + 1 : SubSeq(more, m, n)[j] = more[m + j - 1]
    BY <2>1, <2>2, SubSeqProperties
  <2>4. ASSUME NEW j \in 1 .. Len(SubSeq(b, m, n))
        PROVE  SubSeq(b, m, n)[j] = SubSeq(more, m, n)[j]
    <3>1. j \in 1 .. n - m + 1
      BY <2>1, <2>3
    <3>2. m + j - 1 \in m .. n
      BY <2>1, <3>1
    <3> QED
      BY <2>2, <2>3, <3>1, <3>2
  <2>5. SubSeq(more, m, n) = SubSeq(b, m, n)
    BY <2>3, <2>4, SeqEqual
  <2> QED
    BY <1>2, <2>5
<1> HIDE DEF wanted, order
<1>8. \A k \in 1 .. Len(order) :
        SubSeq(more, LineStart(more, order[k]) + 1, order[k] - 1)
          = SubSeq(b, LineStart(b, order[k]) + 1, order[k] - 1)
  BY <1>6, <1>7
<1>9. DataOf(b, lines) = [k \in 1 .. Len(order) |-> SubSeq(b, LineStart(b, order[k]) + 1, order[k] - 1)]
  BY DEF DataOf, wanted, order
<1>10. DataOf(more, lines)
         = [k \in 1 .. Len(order) |-> SubSeq(more, LineStart(more, order[k]) + 1, order[k] - 1)]
  BY <1>4 DEF DataOf, order
<1> QED
  BY <1>8, <1>9, <1>10

LEMMA GrownEvents ==
  ASSUME NEW b, NEW more, Grown(b, more)
  PROVE  /\ EventEnds(b) \subseteq EventEnds(more)
         /\ \A i \in EventEnds(more) \ EventEnds(b) : Len(b) < i
         /\ \A i \in 1 .. Len(b) + 1 : LinesOf(more, i) = LinesOf(b, i)
         /\ Cardinality(EventEnds(b)) <= Cardinality(EventEnds(more))
         /\ \A k \in 1 .. Cardinality(EventEnds(b)) :
              /\ InOrder(EventEnds(more))[k] = InOrder(EventEnds(b))[k]
              /\ EventsOf(more)[k] = EventsOf(b)[k]
<1>1. /\ b \in Seq(Bytes) /\ more \in Seq(Bytes) /\ Len(b) \in Nat /\ Len(more) \in Nat
      /\ Len(b) <= Len(more) /\ LineEnds(b) \subseteq 1 .. Len(b)
  BY LineEndFacts DEF Grown
<1>2. EventEnds(b) \subseteq EventEnds(more)
  BY GrownLines DEF EventEnds
<1>3. \A i \in EventEnds(more) \ EventEnds(b) : Len(b) < i
  BY GrownLines DEF EventEnds
<1>4. ASSUME NEW i \in 1 .. Len(b) + 1
      PROVE  LinesOf(more, i) = LinesOf(b, i)
  <2>1. \A j \in LineEnds(more) : j < i => j \in LineEnds(b)
    <3> SUFFICES ASSUME NEW j \in LineEnds(more), j < i PROVE j \in LineEnds(b)
      OBVIOUS
    <3>1. j \in Nat
      BY <1>1, EventEndFacts
    <3> QED
      BY <1>1, <3>1, GrownLines
  <2>2. LineEnds(b) \subseteq LineEnds(more)
    BY GrownLines
  <2>3. \A e \in EventEnds(more) : e < i => e \in EventEnds(b)
    <3> SUFFICES ASSUME NEW e \in EventEnds(more), e < i PROVE e \in EventEnds(b)
      OBVIOUS
    <3>1. e \in Nat
      BY <1>1, EventEndFacts
    <3> QED
      BY <1>1, <1>3, <3>1
  <2> QED
    BY <1>2, <2>1, <2>2, <2>3 DEF LinesOf
<1>5. /\ EventEnds(b) \subseteq Nat /\ EventEnds(b) \subseteq 1 .. Len(b)
      /\ EventEnds(more) \subseteq Nat /\ IsFiniteSet(EventEnds(more)) /\ IsFiniteSet(EventEnds(b))
  BY <1>1, EventEndFacts
<1>6. \A i \in EventEnds(b) : \A j \in EventEnds(more) \ EventEnds(b) : i < j
  BY <1>1, <1>3, <1>5
<1>7. /\ Cardinality(EventEnds(b)) <= Cardinality(EventEnds(more))
      /\ \A k \in 1 .. Cardinality(EventEnds(b)) :
           InOrder(EventEnds(more))[k] = InOrder(EventEnds(b))[k]
  <2>1. Begins(EventEnds(b), EventEnds(more))
    BY <1>2, <1>5, <1>6 DEF Begins
  <2> QED
    BY <2>1, InOrderPrefix
<1>8. ASSUME NEW k \in 1 .. Cardinality(EventEnds(b))
      PROVE  EventsOf(more)[k] = EventsOf(b)[k]
  <2> DEFINE i == InOrder(EventEnds(b))[k]
  <2>1. i \in EventEnds(b) /\ i \in 1 .. Len(b) + 1
    BY <1>1, <1>5, InOrderFacts
  <2>2. Cardinality(EventEnds(b)) \in Nat /\ Cardinality(EventEnds(more)) \in Nat
    BY <1>1, EventEndFacts
  <2>3. k \in 1 .. Cardinality(EventEnds(more))
    BY <1>7, <2>2
  <2>4. InOrder(EventEnds(more))[k] = i
    BY <1>7
  <2>5. EventsOf(b)[k] = DataOf(b, LinesOf(b, i))
    BY <1>5, InOrderFacts DEF EventsOf
  <2>6. EventsOf(more)[k] = DataOf(more, LinesOf(more, i))
    BY <1>5, <2>3, <2>4, InOrderFacts DEF EventsOf
  <2>7. LinesOf(more, i) = LinesOf(b, i) /\ LinesOf(b, i) \subseteq LineEnds(b)
    BY <1>4, <2>1 DEF LinesOf
  <2> QED
    BY <2>5, <2>6, <2>7, GrownData
<1> QED
  BY <1>2, <1>3, <1>4, <1>7, <1>8

LEMMA DataFacts ==
  ASSUME NEW b \in Seq(Bytes), NEW lines, lines \subseteq LineEnds(b)
  PROVE  /\ DataOf(b, lines) \in Seq(Seq(Bytes))
         /\ lines = {} => DataOf(b, lines) = <<>>
<1> DEFINE wanted == {i \in lines : LineStart(b, i) < i /\ b[LineStart(b, i)] = Data}
           order == InOrder(wanted)
<1>1. Len(b) \in Nat /\ LineEnds(b) \subseteq 1 .. Len(b)
  BY LineEndFacts
<1>2. wanted \subseteq Nat /\ IsFiniteSet(wanted) /\ wanted \subseteq LineEnds(b)
  BY <1>1, EventEndFacts, FS_Subset
<1>3. Len(order) = Cardinality(wanted) /\ Len(order) \in Nat
      /\ \A k \in 1 .. Len(order) : order[k] \in LineEnds(b)
  BY <1>2, InOrderFacts
<1>4. ASSUME NEW i \in LineEnds(b)
      PROVE  SubSeq(b, LineStart(b, i) + 1, i - 1) \in Seq(Bytes)
  <2>1. i \in 1 .. Len(b) /\ LineStart(b, i) \in 1 .. i
    BY <1>1, LineStartFacts
  <2>2. LineStart(b, i) + 1 \in Int /\ i - 1 \in Int
        /\ \A j \in LineStart(b, i) + 1 .. i - 1 : b[j] \in Bytes
    BY <1>1, <2>1
  <2> QED
    BY <2>2, SubSeqProperties
<1>5. lines = {} => wanted = {}
  OBVIOUS
<1> HIDE DEF wanted
<1>6. \A k \in 1 .. Len(order) : SubSeq(b, LineStart(b, order[k]) + 1, order[k] - 1) \in Seq(Bytes)
  BY <1>3, <1>4
<1>7. DataOf(b, lines) = [k \in 1 .. Len(order) |-> SubSeq(b, LineStart(b, order[k]) + 1, order[k] - 1)]
  BY DEF DataOf, wanted
<1> DEFINE n == Len(order)
<1>8. n \in Nat
  BY <1>3
<1>9. DataOf(b, lines) \in [1 .. n -> Seq(Bytes)]
  BY <1>6, <1>7
<1>10. DataOf(b, lines) \in Seq(Seq(Bytes))
  BY <1>8, <1>9, SeqDef
<1>11. ASSUME lines = {} PROVE DataOf(b, lines) = <<>>
  <2>1. n = 0
    BY <1>3, <1>5, <1>11, FS_EmptySet
  <2>2. Len(DataOf(b, lines)) = 0
    BY <1>7, <2>1
  <2> QED
    BY <1>10, <2>2, EmptySeq
<1> QED
  BY <1>10, <1>11

\* One more line.
LEMMA DataGrows ==
  ASSUME NEW b \in Seq(Bytes), NEW lines, lines \subseteq LineEnds(b),
         NEW p \in LineEnds(b), \A i \in lines : i < p
  PROVE  DataOf(b, lines \cup {p}) =
           IF LineStart(b, p) < p /\ b[LineStart(b, p)] = Data
           THEN Append(DataOf(b, lines), SubSeq(b, LineStart(b, p) + 1, p - 1))
           ELSE DataOf(b, lines)
<1> DEFINE Wanted(i) == LineStart(b, i) < i /\ b[LineStart(b, i)] = Data
           S == {i \in lines : Wanted(i)}
           T == {i \in lines \cup {p} : Wanted(i)}
           Value(i) == SubSeq(b, LineStart(b, i) + 1, i - 1)
<1>1. Len(b) \in Nat /\ LineEnds(b) \subseteq 1 .. Len(b) /\ LineEnds(b) \subseteq Nat
      /\ IsFiniteSet(LineEnds(b))
  BY LineEndFacts, EventEndFacts
<1>2. DataOf(b, lines) = [k \in 1 .. Len(InOrder(S)) |-> Value(InOrder(S)[k])]
  BY DEF DataOf
<1>3. DataOf(b, lines \cup {p}) = [k \in 1 .. Len(InOrder(T)) |-> Value(InOrder(T)[k])]
  BY DEF DataOf
<1>4. CASE ~Wanted(p)
  <2>1. S = T
    BY <1>4
  <2> HIDE DEF S, T, Value
  <2> QED
    BY <1>2, <1>3, <1>4, <2>1
<1>5. CASE Wanted(p)
  <2>1. T = S \cup {p} /\ p \notin S
    <3>1. \A i \in S : i # p
      BY <1>1
    <3> QED
      BY <1>5, <3>1
  <2>2. T \subseteq Nat /\ IsFiniteSet(T) /\ S \subseteq T /\ IsFiniteSet(S) /\ S \subseteq Nat
    BY <1>1, <2>1, FS_Subset
  <2>3. \A i \in S : \A j \in T \ S : i < j
    BY <2>1
  <2>4. T \ S = {p}
    BY <2>1
  <2>5. p <= p
    BY <1>1
  <2> DEFINE n == Cardinality(S)
  <2>6. Cardinality(T) = n + 1 /\ n \in Nat
    BY <2>1, <2>2, FS_AddElement, FS_CardinalityType
  <2> HIDE DEF S, T, Wanted
  <2>7. Len(InOrder(S)) = n /\ Len(InOrder(T)) = n + 1
    BY <2>2, <2>6, InOrderFacts
  <2> Begins(S, T)
    BY <2>2, <2>3 DEF Begins
  <2>8. \A k \in 1 .. n : InOrder(T)[k] = InOrder(S)[k]
    BY InOrderPrefix
  <2>9. InOrder(T)[n + 1] = p
    <3>1. p \in T \ S /\ \A j \in T \ S : p <= j
      BY <2>4, <2>5
    <3> QED
      BY <3>1, InOrderPrefix
  <2> DEFINE s == DataOf(b, lines)
             t == DataOf(b, lines \cup {p})
  <2>10. s \in Seq(Seq(Bytes)) /\ t \in Seq(Seq(Bytes))
    BY DataFacts
  <2>11. Len(s) = n /\ \A k \in 1 .. n : s[k] = Value(InOrder(S)[k])
    <3>1. s = [k \in 1 .. n |-> Value(InOrder(S)[k])]
      BY <1>2, <2>7
    <3> HIDE DEF Value, s
    <3> QED
      BY <2>6, <3>1
  <2>12. Len(t) = n + 1 /\ \A k \in 1 .. n + 1 : t[k] = Value(InOrder(T)[k])
    <3>1. t = [k \in 1 .. n + 1 |-> Value(InOrder(T)[k])]
      BY <1>3, <2>7
    <3> HIDE DEF Value, t
    <3> QED
      BY <2>6, <3>1
  <2>13. t[n + 1] = Value(p) /\ \A k \in 1 .. n : t[k] = s[k]
    <3>1. n + 1 \in 1 .. n + 1 /\ 1 .. n \subseteq 1 .. n + 1
      BY <2>6
    <3> HIDE DEF Value, s, t, n
    <3> QED
      BY <2>8, <2>9, <2>11, <2>12, <3>1
  <2>14. Value(p) \in Seq(Bytes)
    <3>1. t[n + 1] \in Seq(Bytes)
      BY <2>6, <2>10, <2>12, ElementOfSeq
    <3> QED
      BY <2>13, <3>1
  <2> HIDE DEF s, t, Value, n
  <2>15. Append(s, Value(p)) \in Seq(Seq(Bytes)) /\ Len(Append(s, Value(p))) = Len(s) + 1
         /\ (\A k \in 1 .. Len(s) : Append(s, Value(p))[k] = s[k])
         /\ Append(s, Value(p))[Len(s) + 1] = Value(p)
    BY <2>10, <2>14, AppendProperties
  <2>16. \A k \in 1 .. n + 1 : k \in 1 .. n \/ k = n + 1
    BY <2>6
  <2>17. \A k \in 1 .. Len(t) : t[k] = Append(s, Value(p))[k]
    BY <2>11, <2>12, <2>13, <2>15, <2>16
  <2>18. Len(t) = Len(Append(s, Value(p)))
    BY <2>11, <2>12, <2>15
  <2>19. t = Append(s, Value(p))
    BY <2>10, <2>15, <2>17, <2>18, SeqEqual
  <2> QED
    BY <1>5, <2>19 DEF s, t, Value, Wanted
<1> QED
  BY <1>4, <1>5
-------------------------------------------------------------------------------
(* Where the decoder stands: it has taken the first c bytes.                  *)

UpTo(S, c) == {i \in S : i <= c}

\* It has taken whole lines, and of the last one it knows whether LF follows its CR.
Boundary(b, c) ==
  /\ c = 0 \/ \E e \in LineEnds(b) : c = Past(b, e)
  /\ c > 0 /\ b[c] = CR => c < Len(b)

LEMMA BoundaryFacts ==
  ASSUME NEW b \in Seq(Bytes), NEW c, Boundary(b, c)
  PROVE  /\ c \in 0 .. Len(b)
         /\ \A i \in LineEnds(b) : i <= c => Past(b, i) <= c /\ (i < Len(b) \/ b[i] # CR)
         /\ c < Len(b) /\ b[c + 1] \in {CR, LF} => c + 1 \in LineEnds(b)
<1>1. /\ Len(b) \in Nat /\ DOMAIN b = 1 .. Len(b) /\ LineEnds(b) \subseteq 1 .. Len(b)
      /\ \A i \in LineEnds(b) :
           /\ Past(b, i) \in i .. Len(b) /\ Past(b, i) <= i + 1
           /\ \A j \in LineEnds(b) : i < j => Past(b, i) < j
  BY LineEndFacts
<1>2. CASE c = 0
  <2>1. \A i \in LineEnds(b) : ~(i <= c)
    BY <1>1, <1>2
  <2>2. c < Len(b) /\ b[c + 1] \in {CR, LF} => c + 1 \in LineEnds(b)
    BY <1>1, <1>2 DEF LineEnds
  <2> QED
    BY <1>1, <1>2, <2>1, <2>2
<1>3. ASSUME NEW e \in LineEnds(b), c = Past(b, e)
      PROVE  /\ c \in 0 .. Len(b)
             /\ \A i \in LineEnds(b) : i <= c => Past(b, i) <= c /\ (i < Len(b) \/ b[i] # CR)
             /\ c < Len(b) /\ b[c + 1] \in {CR, LF} => c + 1 \in LineEnds(b)
  <2>1. c \in 1 .. Len(b) /\ e \in 1 .. Len(b) /\ e <= c /\ c <= e + 1
    BY <1>1, <1>3
  <2>2. ASSUME NEW i \in LineEnds(b), i <= c
        PROVE  Past(b, i) <= c /\ (i < Len(b) \/ b[i] # CR)
    <3>1. i \in 1 .. Len(b) /\ (e < i => c < i)
      BY <1>1, <1>3
    <3>2. i <= e
      BY <2>1, <2>2, <3>1
    <3>3. Past(b, i) <= c
      <4>1. CASE i = e
        BY <1>3, <2>1, <4>1
      <4>2. CASE i # e
        <5>1. Past(b, i) < e /\ Past(b, i) \in Nat
          BY <1>1, <3>1, <3>2, <4>2
        <5> QED
          BY <2>1, <5>1
      <4> QED
        BY <4>1, <4>2
    <3>4. i < Len(b) \/ b[i] # CR
      <4>1. CASE i < c
        BY <2>1, <3>1, <4>1
      <4>2. CASE i = c
        BY <2>1, <4>2 DEF Boundary
      <4> QED
        BY <2>1, <2>2, <3>1, <4>1, <4>2
    <3> QED
      BY <3>3, <3>4
  <2>3. ASSUME c < Len(b), b[c + 1] \in {CR, LF}
        PROVE  c + 1 \in LineEnds(b)
    <3>1. c + 1 \in 1 .. Len(b)
      BY <2>1, <2>3
    <3>2. CASE b[c] # CR \/ b[c + 1] = CR
      BY <1>1, <2>1, <2>3, <3>1, <3>2 DEF LineEnds
    <3>3. CASE b[c] = CR /\ b[c + 1] = LF
      <4>1. c # e
        BY <1>3, <2>3, <3>3, <2>1 DEF Past
      <4>2. c = e + 1 /\ b[e + 1] = LF
        BY <1>3, <2>1, <4>1 DEF Past
      <4> QED
        BY <3>3, <4>2, BytesDiffer
    <3> QED
      BY <2>3, <3>2, <3>3
  <2> QED
    BY <2>1, <2>2, <2>3
<1> QED
  BY <1>2, <1>3 DEF Boundary

\* The next line.
LEMMA NextLine ==
  ASSUME NEW b \in Seq(Bytes), NEW c, Boundary(b, c), NEW p \in c + 1 .. Len(b),
         b[p] \in {CR, LF}, \A j \in c + 1 .. p - 1 : b[j] \notin {CR, LF}
  PROVE  /\ p \in LineEnds(b) /\ LineStart(b, p) = c + 1
         /\ \A j \in LineEnds(b) : c < j => p <= j
         /\ UpTo(LineEnds(b), Past(b, p)) = UpTo(LineEnds(b), c) \cup {p}
         /\ (b[p] = CR => p < Len(b)) => Boundary(b, Past(b, p))
<1>1. /\ Len(b) \in Nat /\ DOMAIN b = 1 .. Len(b) /\ LineEnds(b) \subseteq 1 .. Len(b)
      /\ \A i \in LineEnds(b) :
           /\ Past(b, i) \in i .. Len(b) /\ Past(b, i) <= i + 1
           /\ \A j \in LineEnds(b) : i < j => Past(b, i) < j
  BY LineEndFacts
<1>2. c \in 0 .. Len(b) /\ c \in Nat /\ p \in 1 .. Len(b)
  BY <1>1, BoundaryFacts
<1>3. p \in LineEnds(b)
  <2>1. CASE p = c + 1
    BY <1>2, <2>1, BoundaryFacts
  <2>2. CASE p # c + 1
    <3>1. p - 1 \in c + 1 .. p - 1
      BY <1>2, <2>2
    <3>2. b[p - 1] # CR
      BY <3>1
    <3> QED
      BY <1>1, <1>2, <3>2 DEF LineEnds
  <2> QED
    BY <2>1, <2>2
<1>4. ASSUME NEW j \in LineEnds(b), c < j
      PROVE  p <= j
  <2>1. j \in 1 .. Len(b) /\ b[j] \in {CR, LF}
    BY <1>1 DEF LineEnds
  <2>2. j \notin c + 1 .. p - 1
    BY <2>1
  <2> QED
    BY <1>2, <1>4, <2>1, <2>2
<1>5. LineStart(b, p) = c + 1
  <2>1. CASE c = 0
    <3>1. \A j \in LineEnds(b) : p <= j
      BY <1>1, <1>4, <2>1
    <3> QED
      BY <1>3, <2>1, <3>1, LineStartFacts
  <2>2. CASE c # 0
    <3>1. PICK e \in LineEnds(b) : c = Past(b, e)
      BY <2>2 DEF Boundary
    <3>2. e \in 1 .. Len(b) /\ e <= c /\ e < p
      BY <1>1, <1>2, <3>1
    <3>3. ASSUME NEW j \in LineEnds(b), j < p PROVE j <= e
      <4>1. j \in 1 .. Len(b) /\ (e < j => c < j)
        BY <1>1, <3>1
      <4>2. c < j => p <= j
        BY <1>4
      <4> QED
        BY <1>2, <3>2, <3>3, <4>1, <4>2
    <3> QED
      BY <1>3, <3>1, <3>2, <3>3, LineStartFacts
  <2> QED
    BY <2>1, <2>2
<1> DEFINE q == Past(b, p)
<1>6. q \in p .. Len(b) /\ q <= p + 1 /\ \A j \in LineEnds(b) : p < j => q < j
  BY <1>1, <1>3
<1>7. UpTo(LineEnds(b), q) = UpTo(LineEnds(b), c) \cup {p}
  <2>1. ASSUME NEW j \in LineEnds(b)
        PROVE  j <= q <=> j <= c \/ j = p
    <3>1. j \in 1 .. Len(b)
      BY <1>1
    <3>2. (c < j => p <= j) /\ (p < j => q < j)
      BY <1>4, <1>6
    <3> QED
      BY <1>2, <1>6, <3>1, <3>2
  <2> QED
    BY <1>3, <2>1 DEF UpTo
<1>8. ASSUME b[p] = CR => p < Len(b)
      PROVE  Boundary(b, q)
  <2>1. q > 0 /\ b[q] = CR => q < Len(b)
    <3>1. CASE q = p
      BY <1>2, <1>8, <3>1
    <3>2. CASE q # p
      <4>1. b[q] = LF
        BY <3>2 DEF Past
      <4> QED
        BY <4>1, BytesDiffer
    <3> QED
      BY <3>1, <3>2
  <2> QED
    BY <1>3, <2>1 DEF Boundary
<1> QED
  BY <1>3, <1>4, <1>5, <1>7, <1>8

Events(b, c) == Cardinality(UpTo(EventEnds(b), c))

\* The events that have ended at a boundary, and the next one.
LEMMA CountFacts ==
  ASSUME NEW b \in Seq(Bytes), NEW c, Boundary(b, c)
  PROVE  /\ Events(b, c) \in 0 .. Cardinality(EventEnds(b))
         /\ \A k \in 0 .. Events(b, c) : EndOf(b, k) \in 0 .. c
         /\ \A p \in EventEnds(b) : c < p /\ (\A j \in EventEnds(b) : c < j => p <= j) =>
              /\ Events(b, c) < Cardinality(EventEnds(b))
              /\ InOrder(EventEnds(b))[Events(b, c) + 1] = p
         /\ Events(b, c) < Cardinality(EventEnds(b)) =>
              \E p \in EventEnds(b) : c < p /\ EndOf(b, Events(b, c) + 1) = Past(b, p)
<1> DEFINE E == EventEnds(b)
           S == UpTo(E, c)
           n == Events(b, c)
<1>1. /\ E \subseteq LineEnds(b) /\ E \subseteq Nat /\ IsFiniteSet(E) /\ Cardinality(E) \in Nat
      /\ LineEnds(b) \subseteq 1 .. Len(b) /\ Len(b) \in Nat
  BY EventEndFacts, LineEndFacts
<1>2. c \in 0 .. Len(b) /\ c \in Nat /\ \A i \in LineEnds(b) : i <= c => Past(b, i) <= c
  BY <1>1, BoundaryFacts
<1>3. S \subseteq E /\ IsFiniteSet(S) /\ \A i \in S : i <= c /\ Past(b, i) \in 0 .. c
  <2>1. S \subseteq E /\ \A i \in S : i <= c
    BY DEF UpTo
  <2>2. IsFiniteSet(S)
    BY <1>1, <2>1, FS_Subset
  <2>3. ASSUME NEW i \in S PROVE Past(b, i) \in 0 .. c
    <3>1. i \in LineEnds(b) /\ i <= c
      BY <1>1, <2>1
    <3>2. Past(b, i) \in i .. Len(b) /\ i \in Nat
      BY <1>1, <3>1, LineEndFacts
    <3> QED
      BY <1>2, <3>1, <3>2
  <2> QED
    BY <2>1, <2>2, <2>3
<1>4. \A j \in E \ S : c < j
  BY <1>1, <1>2 DEF UpTo
<1>5. \A i \in S : \A j \in E \ S : i < j
  <2> SUFFICES ASSUME NEW i \in S, NEW j \in E \ S PROVE i < j
    OBVIOUS
  <2>1. i <= c /\ c < j /\ i \in Nat /\ j \in Nat
    BY <1>1, <1>3, <1>4
  <2> QED
    BY <1>2, <2>1
<1>6. n \in Nat /\ n = Cardinality(S)
  BY <1>3, FS_CardinalityType DEF Events
<1> HIDE DEF E, S, n
<1>6a. Begins(S, E)
  BY <1>1, <1>3, <1>5 DEF Begins
<1>7. n <= Cardinality(E) /\ \A k \in 1 .. n : InOrder(E)[k] = InOrder(S)[k]
  <2>1. Cardinality(S) <= Cardinality(E)
        /\ \A k \in 1 .. Cardinality(S) : InOrder(E)[k] = InOrder(S)[k]
    BY <1>6a, InOrderPrefix
  <2> QED
    BY <1>6, <2>1
<1>8. ASSUME NEW k \in 0 .. n PROVE EndOf(b, k) \in 0 .. c
  <2>1. CASE k = 0
    BY <1>2, <2>1 DEF EndOf
  <2>2. CASE k # 0
    <3>1. k \in 1 .. n
      BY <1>6, <2>2
    <3>2. S \subseteq Nat
      BY <1>1, <1>3
    <3>3. InOrder(S)[k] \in S
      BY <1>3, <1>6, <3>1, <3>2, InOrderFacts
    <3>4. EndOf(b, k) = Past(b, InOrder(S)[k])
      BY <1>7, <2>2, <3>1 DEF EndOf, E
    <3> QED
      BY <1>3, <3>3, <3>4
  <2> QED
    BY <2>1, <2>2
<1>9. ASSUME NEW p \in E, c < p, \A j \in E : c < j => p <= j
      PROVE  n < Cardinality(E) /\ InOrder(E)[n + 1] = p
  <2>1. p \notin S
    <3>1. p \in Nat
      BY <1>1
    <3> QED
      BY <1>2, <1>3, <1>9, <3>1
  <2>2. p \in E \ S /\ \A j \in E \ S : p <= j
    BY <1>4, <1>9, <2>1
  <2>3. n + 1 \in 1 .. Cardinality(E) /\ InOrder(E)[n + 1] = p
    BY <1>6a, <1>6, <2>2, InOrderPrefix
  <2> QED
    BY <1>1, <1>6, <2>3
<1>10. ASSUME n < Cardinality(E)
       PROVE  \E p \in E : c < p /\ EndOf(b, n + 1) = Past(b, p)
  <2>1. E \ S # {}
    <3> SUFFICES ASSUME E \ S = {} PROVE FALSE
      OBVIOUS
    <3>1. E = S
      BY <1>3
    <3> QED
      BY <1>6, <1>10, <3>1
  <2>2. PICK p \in E \ S : \A j \in E \ S : p <= j
    BY <1>1, <2>1, LeastNat
  <2>3. InOrder(E)[n + 1] = p
    <3>1. InOrder(E)[Cardinality(S) + 1] = p
      BY <1>6a, <2>2, InOrderPrefix
    <3> QED
      BY <1>6, <3>1
  <2>4. EndOf(b, n + 1) = Past(b, p)
    BY <1>6, <2>3 DEF EndOf, E
  <2> QED
    BY <1>4, <2>2, <2>4
<1>11. n \in 0 .. Cardinality(E)
  BY <1>1, <1>6, <1>7
<1> QED
  BY <1>8, <1>9, <1>10, <1>11 DEF E, n

LEMMA GrownCount ==
  ASSUME NEW b, NEW more, Grown(b, more), NEW c, Boundary(b, c)
  PROVE  /\ Boundary(more, c) /\ Events(more, c) = Events(b, c)
         /\ \A k \in 0 .. Events(b, c) : EndOf(more, k) = EndOf(b, k)
         /\ \A k \in 1 .. Events(b, c) : /\ SizeOf(more, k) = SizeOf(b, k)
                                         /\ EventsOf(more)[k] = EventsOf(b)[k]
<1>1. b \in Seq(Bytes) /\ more \in Seq(Bytes) /\ Len(b) \in Nat /\ Len(more) \in Nat
      /\ Len(b) <= Len(more) /\ \A i \in 1 .. Len(b) : more[i] = b[i]
  BY DEF Grown
<1>2. /\ c \in 0 .. Len(b)
      /\ \A i \in LineEnds(b) : i <= c => Past(b, i) <= c /\ (i < Len(b) \/ b[i] # CR)
  BY <1>1, BoundaryFacts
<1>3. /\ EventEnds(b) \subseteq LineEnds(b) /\ EventEnds(b) \subseteq Nat
      /\ IsFiniteSet(EventEnds(b)) /\ Cardinality(EventEnds(b)) \in Nat
      /\ LineEnds(b) \subseteq 1 .. Len(b)
      /\ EventEnds(more) \subseteq Nat
  BY <1>1, EventEndFacts, LineEndFacts
<1>4. \A i \in LineEnds(b) : i <= c => Past(more, i) = Past(b, i)
  BY <1>2, GrownLines
<1>5. Boundary(more, c)
  <2>1. c = 0 \/ \E e \in LineEnds(more) : c = Past(more, e)
    <3>1. CASE c = 0
      BY <3>1
    <3>2. ASSUME NEW e \in LineEnds(b), c = Past(b, e)
          PROVE  \E i \in LineEnds(more) : c = Past(more, i)
      <4>1. e <= c
        BY <1>1, <3>2, LineEndFacts
      <4> QED
        BY <1>4, <3>2, <4>1, GrownLines
    <3> QED
      BY <3>1, <3>2 DEF Boundary
  <2>2. c > 0 /\ more[c] = CR => c < Len(more)
    <3>1. c > 0 => more[c] = b[c]
      BY <1>1, <1>2
    <3> QED
      BY <1>1, <1>2, <3>1 DEF Boundary
  <2> QED
    BY <2>1, <2>2 DEF Boundary
<1>6. UpTo(EventEnds(more), c) = UpTo(EventEnds(b), c)
  <2>1. ASSUME NEW i \in EventEnds(more), i <= c PROVE i \in EventEnds(b)
    <3>1. i \in Nat /\ ~(Len(b) < i)
      BY <1>1, <1>2, <1>3, <2>1
    <3> QED
      BY <3>1, GrownEvents
  <2> QED
    BY <2>1, GrownEvents DEF UpTo
<1> DEFINE n == Events(b, c)
<1>7. Events(more, c) = n
  BY <1>6 DEF Events
<1>8. n \in 0 .. Cardinality(EventEnds(b)) /\ \A k \in 0 .. n : EndOf(b, k) \in 0 .. c
  BY <1>1, CountFacts
<1> HIDE DEF n
<1>9. Cardinality(EventEnds(b)) <= Cardinality(EventEnds(more))
      /\ Cardinality(EventEnds(more)) \in Nat
  BY <1>1, GrownEvents, EventEndFacts
<1>10. ASSUME NEW k \in 0 .. n PROVE EndOf(more, k) = EndOf(b, k)
  <2>1. CASE k = 0
    BY <2>1 DEF EndOf
  <2>2. CASE k # 0
    <3>1. k \in 1 .. Cardinality(EventEnds(b))
      BY <1>3, <1>8, <2>2
    <3> DEFINE i == InOrder(EventEnds(b))[k]
    <3>2. InOrder(EventEnds(more))[k] = i
      BY <3>1, GrownEvents
    <3>3. i \in EventEnds(b)
      BY <1>3, <3>1, InOrderFacts
    <3>4. i \in LineEnds(b)
      BY <1>3, <3>3
    <3>5. EndOf(b, k) = Past(b, i) /\ EndOf(more, k) = Past(more, i)
      BY <2>2, <3>2 DEF EndOf
    <3>6. i <= c
      <4>1. Past(b, i) <= c /\ i \in Nat /\ Past(b, i) \in Nat /\ i <= Past(b, i)
        BY <1>1, <1>3, <1>8, <3>4, <3>5, LineEndFacts
      <4> QED
        BY <1>2, <4>1
    <3> QED
      BY <1>4, <3>4, <3>5, <3>6
  <2> QED
    BY <2>1, <2>2
<1>11. ASSUME NEW k \in 1 .. n
       PROVE  SizeOf(more, k) = SizeOf(b, k) /\ EventsOf(more)[k] = EventsOf(b)[k]
  <2>1. k \in 1 .. Cardinality(EventEnds(b)) /\ k \in 0 .. n /\ k - 1 \in 0 .. n
    BY <1>3, <1>8
  <2>2. k <= Cardinality(EventEnds(b)) /\ k <= Cardinality(EventEnds(more))
    BY <1>3, <1>9, <2>1
  <2>3. EndOf(more, k) = EndOf(b, k) /\ EndOf(more, k - 1) = EndOf(b, k - 1)
    BY <1>10, <2>1
  <2> QED
    BY <2>1, <2>2, <2>3, GrownEvents DEF SizeOf
<1> QED
  BY <1>5, <1>7, <1>10, <1>11 DEF n

\* The next line ends at p.
NextEnd(b, c, p) ==
  /\ p \in LineEnds(b) /\ LineStart(b, p) = c + 1
  /\ \A j \in LineEnds(b) : c < j => p <= j
  /\ UpTo(LineEnds(b), Past(b, p)) = UpTo(LineEnds(b), c) \cup {p}

\* The event is at least as long as its lines so far.
LEMMA SizeFacts ==
  ASSUME NEW b \in Seq(Bytes), NEW c, Boundary(b, c), NEW p, NextEnd(b, c, p)
  PROVE  SizeOf(b, Events(b, c) + 1) >= Past(b, p) - EndOf(b, Events(b, c))
<1> DEFINE n == Events(b, c)
           E == EventEnds(b)
<1>1. /\ n \in 0 .. Cardinality(E) /\ EndOf(b, n) \in 0 .. c
      /\ n < Cardinality(E) => \E e \in E : c < e /\ EndOf(b, n + 1) = Past(b, e)
  BY CountFacts
<1>2. /\ E \subseteq LineEnds(b) /\ Cardinality(E) \in Nat /\ LineEnds(b) \subseteq Nat
      /\ Len(b) \in Nat /\ p \in LineEnds(b) /\ p \in Nat
      /\ Past(b, p) \in p .. Len(b) /\ \A j \in LineEnds(b) : c < j => p <= j
  BY EventEndFacts, LineEndFacts DEF NextEnd
<1>3. c \in Nat /\ EndOf(b, n) \in Nat
  BY <1>1, <1>2, BoundaryFacts
<1> HIDE DEF n, E
<1>4. CASE n < Cardinality(E)
  <2>1. PICK e \in E : c < e /\ EndOf(b, n + 1) = Past(b, e)
    BY <1>1, <1>4
  <2>2. e \in LineEnds(b) /\ e \in Nat /\ p <= e
    BY <1>2, <2>1
  <2>3. Past(b, p) <= Past(b, e) /\ Past(b, e) \in Nat
    <3>1. Past(b, e) \in e .. Len(b) /\ (p < e => Past(b, p) < e)
      BY <1>2, <2>2, LineEndFacts
    <3>2. CASE p = e
      BY <1>2, <3>1, <3>2
    <3>3. CASE p < e
      BY <1>2, <2>2, <3>1, <3>3
    <3> QED
      BY <1>2, <2>2, <3>2, <3>3
  <2>4. SizeOf(b, n + 1) = Past(b, e) - EndOf(b, n)
    <3>1. n + 1 <= Cardinality(E) /\ (n + 1) - 1 = n
      BY <1>1, <1>2, <1>4
    <3> QED
      BY <2>1, <3>1 DEF SizeOf, E
  <2>5. Past(b, p) \in Nat
    BY <1>2
  <2>6. SizeOf(b, n + 1) >= Past(b, p) - EndOf(b, n)
    BY <1>3, <2>3, <2>4, <2>5
  <2> QED
    BY <2>6 DEF n
<1>5. CASE ~(n < Cardinality(E))
  <2>1. SizeOf(b, n + 1) = Len(b) - EndOf(b, n)
    <3>1. ~(n + 1 <= Cardinality(E)) /\ (n + 1) - 1 = n
      BY <1>1, <1>2, <1>5
    <3> QED
      BY <3>1 DEF SizeOf, E
  <2>2. SizeOf(b, n + 1) >= Past(b, p) - EndOf(b, n)
    BY <1>2, <1>3, <2>1
  <2> QED
    BY <2>2 DEF n
<1> QED
  BY <1>4, <1>5

\* An empty line ends an event.
LEMMA EmptyLine ==
  ASSUME NEW b \in Seq(Bytes), NEW c, Boundary(b, c), NextEnd(b, c, c + 1)
  PROVE  LET q == Past(b, c + 1)
             n == Events(b, c)
         IN /\ Events(b, q) = n + 1 /\ EndOf(b, n + 1) = q
            /\ SizeOf(b, n + 1) = q - EndOf(b, n)
            /\ EventsOf(b)[n + 1] = DataOf(b, LinesOf(b, c + 1))
            /\ LinesOf(b, q + 1) = {}
<1> DEFINE n == Events(b, c)
           E == EventEnds(b)
           p == c + 1
           q == Past(b, p)
<1>1. /\ p \in LineEnds(b) /\ LineStart(b, p) = p /\ \A j \in LineEnds(b) : c < j => p <= j
      /\ UpTo(LineEnds(b), q) = UpTo(LineEnds(b), c) \cup {p}
  BY DEF NextEnd
<1>2. /\ E \subseteq LineEnds(b) /\ E \subseteq Nat /\ Cardinality(E) \in Nat /\ IsFiniteSet(E)
      /\ LineEnds(b) \subseteq Nat /\ Len(b) \in Nat /\ q \in p .. Len(b)
  BY <1>1, EventEndFacts, LineEndFacts
<1>3. c \in Nat /\ p \in Nat /\ q \in Nat /\ p <= q
  BY <1>2, BoundaryFacts
<1>4. p \in E /\ c < p
  BY <1>1, <1>3 DEF EventEnds
<1>5. UpTo(E, q) = UpTo(E, c) \cup {p} /\ p \notin UpTo(E, c)
  <2>1. \A i \in E : i \in UpTo(E, q) <=> i \in UpTo(LineEnds(b), q)
    BY <1>2 DEF UpTo
  <2>2. \A i \in E : i \in UpTo(E, c) <=> i \in UpTo(LineEnds(b), c)
    BY <1>2 DEF UpTo
  <2>3. UpTo(E, q) \subseteq E /\ UpTo(E, c) \subseteq E
    BY DEF UpTo
  <2>4. p \notin UpTo(E, c)
    BY <1>3 DEF UpTo
  <2> QED
    BY <1>1, <1>4, <2>1, <2>2, <2>3, <2>4
<1>6. IsFiniteSet(UpTo(E, c))
  BY <1>2, FS_Subset DEF UpTo
<1>7. n \in Nat /\ n = Cardinality(UpTo(E, c)) /\ Events(b, q) = n + 1
  <2>1. n \in Nat
    BY <1>6, FS_CardinalityType DEF Events
  <2> QED
    BY <1>5, <1>6, <2>1, FS_AddElement DEF Events
<1>8. n < Cardinality(E) /\ InOrder(E)[n + 1] = p
  <2>1. \A j \in E : c < j => p <= j
    BY <1>1, <1>2
  <2> HIDE DEF p
  <2> QED
    BY <1>4, <2>1, CountFacts
<1> HIDE DEF n, q, E
<1>9. EndOf(b, n + 1) = q
  BY <1>7, <1>8 DEF EndOf, E, q
<1>10. SizeOf(b, n + 1) = q - EndOf(b, n)
  <2>1. n + 1 <= Cardinality(E) /\ (n + 1) - 1 = n
    BY <1>2, <1>7, <1>8
  <2> QED
    BY <1>9, <2>1 DEF SizeOf, E
<1>11. EventsOf(b)[n + 1] = DataOf(b, LinesOf(b, p))
  <2>1. n + 1 \in 1 .. Cardinality(E) /\ Len(InOrder(E)) = Cardinality(E)
    <3>1. Len(InOrder(E)) = Cardinality(E)
      BY <1>2, InOrderFacts
    <3> QED
      BY <1>2, <1>7, <1>8, <3>1
  <2> QED
    BY <1>8, <2>1 DEF EventsOf, E
<1>12. LinesOf(b, q + 1) = {}
  <2> SUFFICES ASSUME NEW j \in LinesOf(b, q + 1) PROVE FALSE
    OBVIOUS
  <2>1. j \in LineEnds(b) /\ j < q + 1 /\ \A e \in EventEnds(b) : e < q + 1 => e < j
    BY DEF LinesOf
  <2>2. p < j /\ j \in Nat /\ j <= q
    BY <1>2, <1>3, <1>4, <2>1 DEF E
  <2>3. j \in UpTo(LineEnds(b), c) \cup {p}
    BY <1>1, <2>1, <2>2 DEF UpTo
  <2> QED
    BY <1>3, <2>2, <2>3 DEF UpTo
<1> QED
  BY <1>7, <1>9, <1>10, <1>11, <1>12 DEF n, q

\* Another line adds to the event.
LEMMA FullLine ==
  ASSUME NEW b \in Seq(Bytes), NEW c, Boundary(b, c), NEW p, NextEnd(b, c, p), p # c + 1
  PROVE  LET q == Past(b, p)
         IN /\ Events(b, q) = Events(b, c)
            /\ LinesOf(b, q + 1) = LinesOf(b, c + 1) \cup {p}
            /\ LinesOf(b, c + 1) \subseteq LineEnds(b) /\ \A i \in LinesOf(b, c + 1) : i < p
<1> DEFINE q == Past(b, p)
           E == EventEnds(b)
<1>1. /\ p \in LineEnds(b) /\ LineStart(b, p) = c + 1 /\ \A j \in LineEnds(b) : c < j => p <= j
      /\ UpTo(LineEnds(b), q) = UpTo(LineEnds(b), c) \cup {p}
  BY DEF NextEnd
<1>2. /\ E \subseteq LineEnds(b) /\ E \subseteq Nat
      /\ LineEnds(b) \subseteq Nat /\ Len(b) \in Nat /\ q \in p .. Len(b)
  BY <1>1, EventEndFacts, LineEndFacts
<1>3. c \in Nat /\ p \in Nat /\ q \in Nat /\ p <= q
  BY <1>1, <1>2, BoundaryFacts
<1>4. c + 1 <= p
  BY <1>1, <1>2, LineStartFacts
<1>5. p \notin E
  BY <1>1 DEF EventEnds
<1>6. \A j \in LineEnds(b) : j <= q <=> j <= c \/ j = p
  <2> SUFFICES ASSUME NEW j \in LineEnds(b) PROVE j <= q <=> j <= c \/ j = p
    OBVIOUS
  <2>1. j <= q <=> j \in UpTo(LineEnds(b), c) \cup {p}
    BY <1>1 DEF UpTo
  <2>2. j \in UpTo(LineEnds(b), c) <=> j <= c
    BY DEF UpTo
  <2> QED
    BY <2>1, <2>2
<1>7. \A j \in E : j <= q <=> j <= c
  BY <1>2, <1>5, <1>6
<1>8. UpTo(E, q) = UpTo(E, c)
  BY <1>7 DEF UpTo
<1>9. \A j \in LineEnds(b) : (j < q + 1 <=> j <= q) /\ (j < c + 1 <=> j <= c)
  BY <1>2, <1>3
<1>10. \A i \in LinesOf(b, c + 1) : i \in LineEnds(b) /\ i < p
  <2> SUFFICES ASSUME NEW i \in LinesOf(b, c + 1) PROVE i \in LineEnds(b) /\ i < p
    OBVIOUS
  <2>1. i \in LineEnds(b) /\ i < c + 1 /\ i \in Nat
    BY <1>2 DEF LinesOf
  <2> QED
    BY <1>3, <1>4, <2>1
<1>11. LinesOf(b, q + 1) = LinesOf(b, c + 1) \cup {p}
  <2>1. ASSUME NEW j \in LineEnds(b)
        PROVE  j \in LinesOf(b, q + 1) <=> j \in LinesOf(b, c + 1) \/ j = p
    <3>1. \A e \in E : e < q + 1 <=> e < c + 1
      BY <1>2, <1>7, <1>9
    <3>2. j \in LinesOf(b, q + 1)
            <=> (j <= c \/ j = p) /\ \A e \in E : e < c + 1 => e < j
      BY <1>6, <1>9, <2>1, <3>1 DEF LinesOf
    <3>3. j \in LinesOf(b, c + 1) <=> j <= c /\ \A e \in E : e < c + 1 => e < j
      BY <1>9, <2>1 DEF LinesOf
    <3>4. \A e \in E : e < c + 1 => e < p
      BY <1>2, <1>3, <1>4
    <3> QED
      BY <3>2, <3>3, <3>4
  <2>2. LinesOf(b, q + 1) \subseteq LineEnds(b)
    BY DEF LinesOf
  <2> QED
    BY <1>1, <1>10, <2>1, <2>2
<1> QED
  BY <1>8, <1>10, <1>11 DEF Events
-------------------------------------------------------------------------------
(* A round of feed(), and feed() as a whole.                                 *)

\* The line that is taken from the buffer, in terms of its bytes.
LEMMA LineFacts ==
  ASSUME NEW d \in Decoders, d.buffer # <<>>, ~NoLine(d)
  PROVE  LET m == Len(d.buffer)
             e == Min(Delimiters(d))
             taken == IF d.buffer[e] = CR /\ e < m /\ d.buffer[e + 1] = LF THEN e + 1 ELSE e
         IN /\ m \in Nat /\ e \in 1 .. m /\ d.buffer[e] \in {CR, LF}
            /\ \A i \in d.scan + 1 .. e - 1 : d.buffer[i] \notin {CR, LF}
            /\ d.buffer[e] = CR => e < m
            /\ d.scan < e /\ taken \in 1 .. m
            /\ Line(d) \in Seq(Bytes) /\ Len(Line(d)) = e - 1
            /\ \A i \in 1 .. e - 1 : Line(d)[i] = d.buffer[i]
            /\ Len(Line(d)) + Width(d) = taken
            /\ WithoutLine(d) \in Decoders
            /\ WithoutLine(d).data = d.data /\ WithoutLine(d).scan = 0
            /\ WithoutLine(d).frame = d.frame + taken
            /\ Len(WithoutLine(d).buffer) = m - taken
            /\ \A i \in 1 .. m - taken : WithoutLine(d).buffer[i] = d.buffer[taken + i]
<1> DEFINE m == Len(d.buffer)
           e == Min(Delimiters(d))
           both == d.buffer[e] = CR /\ e < m /\ d.buffer[e + 1] = LF
           taken == IF both THEN e + 1 ELSE e
<1>1. /\ d.buffer \in Seq(Bytes) /\ d.scan \in Nat /\ d.data \in Seq(Seq(Bytes)) /\ d.frame \in Nat
      /\ m \in Nat /\ \A i \in 1 .. m : d.buffer[i] \in Bytes
  BY DEF Decoders
<1>2. Delimiters(d) \in SUBSET Nat /\ Delimiters(d) # {}
  BY <1>1 DEF NoLine, Delimiters
<1>3. e \in Delimiters(d) /\ \A i \in Delimiters(d) : e <= i
  BY <1>2, MinIsLeast
<1>4. e \in 1 .. m /\ d.scan < e /\ d.buffer[e] \in {CR, LF}
  BY <1>1, <1>3 DEF Delimiters
<1>5. ASSUME NEW i \in d.scan + 1 .. e - 1 PROVE d.buffer[i] \notin {CR, LF}
  <2>1. i \notin Delimiters(d)
    BY <1>1, <1>3, <1>4
  <2>2. i \in d.scan + 1 .. m
    BY <1>1, <1>4
  <2> QED
    BY <2>1, <2>2 DEF Delimiters
<1>6. d.buffer[e] = CR => e < m
  <2>1. Last(d.buffer) = d.buffer[m]
    BY DEF Last
  <2> QED
    BY <1>1, <1>2, <1>4, <2>1 DEF NoLine
<1>7. Line(d) \in Seq(Bytes) /\ Len(Line(d)) = e - 1
      /\ \A i \in 1 .. e - 1 : Line(d)[i] = d.buffer[i]
  <2>1. \A i \in 1 .. e - 1 : d.buffer[i] \in Bytes
    BY <1>1, <1>4
  <2> HIDE DEF e
  <2>2. e - 1 \in Int /\ e \in Nat /\ e >= 1
    BY <1>4
  <2>3. /\ SubSeq(d.buffer, 1, e - 1) \in Seq(Bytes)
        /\ Len(SubSeq(d.buffer, 1, e - 1)) = IF 1 <= e - 1 THEN e - 1 - 1 + 1 ELSE 0
        /\ \A i \in 1 .. e - 1 - 1 + 1 : SubSeq(d.buffer, 1, e - 1)[i] = d.buffer[1 + i - 1]
    BY <2>1, <2>2, SubSeqProperties
  <2>4. Line(d) = SubSeq(d.buffer, 1, e - 1)
    BY DEF Line, e
  <2>5. \A i \in 1 .. e - 1 : Line(d)[i] = d.buffer[i]
    BY <2>2, <2>3, <2>4
  <2> QED
    BY <2>2, <2>3, <2>4, <2>5
<1>8. Width(d) = IF both THEN 2 ELSE 1
  <2> DEFINE last == Min({e + 1, m})
             two == SubSeq(d.buffer, e, last)
  <2>1. {e + 1, m} \in SUBSET Nat /\ {e + 1, m} # {}
    BY <1>1, <1>4
  <2>2. last = IF e < m THEN e + 1 ELSE m
    <3>1. last \in {e + 1, m} /\ last <= e + 1 /\ last <= m
      BY <2>1, MinIsLeast
    <3> HIDE DEF last, e, m
    <3> QED
      BY <1>1, <1>4, <3>1
  <2>3. last \in Int /\ e \in Int /\ \A i \in e .. last : d.buffer[i] \in Bytes
    <3> HIDE DEF last, e
    <3> QED
      BY <1>1, <1>4, <2>2
  <2>4. /\ two \in Seq(Bytes) /\ Len(two) = IF e <= last THEN last - e + 1 ELSE 0
        /\ \A i \in 1 .. last - e + 1 : two[i] = d.buffer[e + i - 1]
    <3> HIDE DEF last, e
    <3> QED
      BY <2>3, SubSeqProperties
  <2>5. two = <<CR, LF>> <=> both
    <3> HIDE DEF last, e, m, two
    <3>1. CASE e < m
      <4>1. Len(two) = 2 /\ two[1] = d.buffer[e] /\ two[2] = d.buffer[e + 1]
        BY <1>1, <1>4, <2>2, <2>4, <3>1
      <4>2. two = <<CR, LF>> <=> two[1] = CR /\ two[2] = LF
        <5>1. ASSUME two[1] = CR, two[2] = LF PROVE two = <<CR, LF>>
          BY <2>4, <4>1, <5>1
        <5> QED
          BY <5>1
      <4> QED
        BY <3>1, <4>1, <4>2
    <3>2. CASE ~(e < m)
      <4>1. Len(two) = 1
        BY <1>1, <1>4, <2>2, <2>4, <3>2
      <4> QED
        BY <3>2, <4>1
    <3> QED
      BY <3>1, <3>2
  <2> QED
    BY <2>5 DEF Width
<1>9. taken \in 1 .. m /\ Len(Line(d)) + Width(d) = taken
  <2> HIDE DEF e, m, both
  <2>1. both => e < m
    BY DEF both
  <2> QED
    BY <1>1, <1>4, <1>7, <1>8, <2>1
<1>10. /\ WithoutLine(d) \in Decoders
       /\ WithoutLine(d).data = d.data /\ WithoutLine(d).scan = 0
       /\ WithoutLine(d).frame = d.frame + taken
       /\ Len(WithoutLine(d).buffer) = m - taken
       /\ \A i \in 1 .. m - taken : WithoutLine(d).buffer[i] = d.buffer[taken + i]
  <2> DEFINE rest == SubSeq(d.buffer, taken + 1, m)
  <2> HIDE DEF taken, m
  <2>1. taken + 1 \in Int /\ m \in Int /\ \A i \in taken + 1 .. m : d.buffer[i] \in Bytes
    BY <1>1, <1>9
  <2>2. /\ rest \in Seq(Bytes) /\ Len(rest) = IF taken + 1 <= m THEN m - (taken + 1) + 1 ELSE 0
        /\ \A i \in 1 .. m - (taken + 1) + 1 : rest[i] = d.buffer[taken + 1 + i - 1]
    BY <2>1, SubSeqProperties
  <2>3. Len(rest) = m - taken /\ \A i \in 1 .. m - taken : rest[i] = d.buffer[taken + i]
    <3>1. \A i \in 1 .. m - taken : taken + 1 + i - 1 = taken + i
      BY <1>9, <2>1
    <3> HIDE DEF rest
    <3> QED
      BY <1>1, <1>9, <2>2, <3>1
  <2>4. WithoutLine(d) = [d EXCEPT !.buffer = rest, !.scan = 0, !.frame = d.frame + taken]
    BY <1>9 DEF WithoutLine, m
  <2> HIDE DEF rest
  <2>5. d.frame + taken \in Nat
    BY <1>1, <1>9
  <2>6. [d EXCEPT !.buffer = rest, !.scan = 0, !.frame = d.frame + taken] \in Decoders
    BY <2>2, <2>5 DEF Decoders
  <2>7. /\ WithoutLine(d).data = d.data /\ WithoutLine(d).scan = 0
        /\ WithoutLine(d).frame = d.frame + taken /\ WithoutLine(d).buffer = rest
    BY <2>4 DEF Decoders
  <2> QED
    BY <2>3, <2>4, <2>6, <2>7
<1> QED
  BY <1>1, <1>4, <1>5, <1>6, <1>7, <1>9, <1>10

GoesOn(d) == EndsLine(d) /\ Line(d) # <<>>

LEMMA AfterFieldFacts ==
  ASSUME NEW d \in Decoders, GoesOn(d)
  PROVE  AfterField(d) \in Decoders /\ Len(AfterField(d).buffer) < Len(d.buffer)
<1>1. /\ WithoutLine(d) \in Decoders /\ Line(d) \in Seq(Bytes)
      /\ Len(WithoutLine(d).buffer) < Len(d.buffer)
  <2>1. \E taken \in 1 .. Len(d.buffer) :
          /\ WithoutLine(d) \in Decoders /\ Line(d) \in Seq(Bytes)
          /\ Len(WithoutLine(d).buffer) = Len(d.buffer) - taken
    BY LineFacts DEF GoesOn, EndsLine
  <2>2. Len(d.buffer) \in Nat
    BY DEF Decoders
  <2> QED
    BY <2>1, <2>2
<1>2. Line(d) # <<>>
  BY DEF GoesOn
<1>3. Tail(Line(d)) \in Seq(Bytes)
  BY <1>1, <1>2, HeadTailProperties
<1> DEFINE w == WithoutLine(d)
           t == Tail(Line(d))
<1>4. w.data \in Seq(Seq(Bytes))
  BY <1>1 DEF Decoders
<1>5. Append(w.data, t) \in Seq(Seq(Bytes))
  BY <1>3, <1>4, AppendProperties
<1>6. AfterField(d) = w \/ AfterField(d) = [w EXCEPT !.data = Append(w.data, t)]
  BY DEF AfterField
<1> HIDE DEF w, t
<1>7. [w EXCEPT !.data = Append(w.data, t)] \in Decoders
  BY <1>1, <1>5 DEF Decoders, w
<1>8. [w EXCEPT !.data = Append(w.data, t)].buffer = w.buffer
  BY <1>1 DEF Decoders, w
<1> QED
  BY <1>1, <1>6, <1>7, <1>8 DEF w

Small(n) == {d \in Decoders : Len(d.buffer) < n}

Solves(f, S) == f = [d \in S |-> IF GoesOn(d) THEN f[AfterField(d)] ELSE Outcome(d)]

\* The equation of Feed has a solution for short buffers,
LEMMA ShortSolved ==
  ASSUME NEW n \in Nat
  PROVE  \E f : Solves(f, Small(n))
<1> DEFINE Apart == {k \in Nat : ~\E f : Solves(f, Small(k))}
<1> SUFFICES ASSUME Apart # {} PROVE FALSE
  OBVIOUS
<1>1. PICK m \in Apart : \A k \in Apart : m <= k
  BY LeastNat
<1>2. CASE m = 0
  <2>1. Small(0) = {}
    BY DEF Small, Decoders
  <2>2. Solves([d \in {} |-> 0], {})
    BY DEF Solves
  <2> QED
    BY <1>1, <1>2, <2>1, <2>2
<1>3. CASE m # 0
  <2>1. m - 1 \in Nat /\ m - 1 \notin Apart
    BY <1>1, <1>3
  <2>2. PICK g : Solves(g, Small(m - 1))
    BY <2>1
  <2> DEFINE f == [d \in Small(m) |-> IF GoesOn(d) THEN g[AfterField(d)] ELSE Outcome(d)]
  <2>3. ASSUME NEW d \in Small(m), GoesOn(d)
        PROVE  f[AfterField(d)] = g[AfterField(d)]
    <3> DEFINE a == AfterField(d)
    <3>1. d \in Decoders /\ Len(d.buffer) < m /\ Len(d.buffer) \in Nat
      BY DEF Small, Decoders
    <3>2. a \in Decoders /\ Len(a.buffer) < Len(d.buffer)
      BY <2>3, <3>1, AfterFieldFacts
    <3>3. Len(a.buffer) \in Nat
      BY <3>2 DEF Decoders
    <3> HIDE DEF a
    <3>4. a \in Small(m) /\ a \in Small(m - 1)
      BY <1>1, <3>1, <3>2, <3>3 DEF Small
    <3>5. f[a] = IF GoesOn(a) THEN g[AfterField(a)] ELSE Outcome(a)
      BY <3>4
    <3>6. g[a] = IF GoesOn(a) THEN g[AfterField(a)] ELSE Outcome(a)
      BY <2>2, <3>4 DEF Solves
    <3> QED
      BY <3>5, <3>6 DEF a
  <2>4. f = [d \in Small(m) |-> IF GoesOn(d) THEN f[AfterField(d)] ELSE Outcome(d)]
    <3>1. \A d \in Small(m) : (IF GoesOn(d) THEN g[AfterField(d)] ELSE Outcome(d))
                              = (IF GoesOn(d) THEN f[AfterField(d)] ELSE Outcome(d))
      BY <2>3
    <3> DEFINE h == [d \in Small(m) |-> IF GoesOn(d) THEN f[AfterField(d)] ELSE Outcome(d)]
    <3>2. f = h
      BY <3>1, Zenon
    <3> QED
      BY <3>2
  <2>5. Solves(f, Small(m))
    BY <2>4 DEF Solves
  <2> QED
    BY <1>1, <2>5
<1> QED
  BY <1>2, <1>3

\* any two solutions agree,
LEMMA SolutionsAgree ==
  ASSUME NEW S, NEW T, S \subseteq Decoders, T \subseteq Decoders,
         NEW f, NEW g, Solves(f, S), Solves(g, T),
         \A d \in S : GoesOn(d) => AfterField(d) \in S,
         \A d \in T : GoesOn(d) => AfterField(d) \in T,
         NEW d \in S \cap T
  PROVE  f[d] = g[d]
<1> DEFINE Apart == {e \in S \cap T : f[e] # g[e]}
           Lengths == {Len(e.buffer) : e \in Apart}
<1> SUFFICES ASSUME Apart # {} PROVE FALSE
  OBVIOUS
<1>1. \A e \in Apart : Len(e.buffer) \in Nat
  BY DEF Decoders
<1>2. Lengths \in SUBSET Nat /\ Lengths # {}
  BY <1>1
<1>3. PICK m \in Lengths : \A k \in Lengths : m <= k
  BY <1>2, LeastNat
<1>4. PICK e \in Apart : m = Len(e.buffer)
  BY <1>3
<1>5. f[e] = (IF GoesOn(e) THEN f[AfterField(e)] ELSE Outcome(e))
      /\ g[e] = (IF GoesOn(e) THEN g[AfterField(e)] ELSE Outcome(e))
  <2>1. \A x \in S : f[x] = (IF GoesOn(x) THEN f[AfterField(x)] ELSE Outcome(x))
    BY Zenon DEF Solves
  <2>2. \A x \in T : g[x] = (IF GoesOn(x) THEN g[AfterField(x)] ELSE Outcome(x))
    BY Zenon DEF Solves
  <2> QED
    BY <1>4, <2>1, <2>2
<1>6. GoesOn(e)
  BY <1>4, <1>5
<1> DEFINE a == AfterField(e)
<1>7. a \in S \cap T /\ Len(a.buffer) < Len(e.buffer)
  BY <1>4, <1>6, AfterFieldFacts
<1>8. f[a] # g[a]
  BY <1>4, <1>5, <1>6
<1>9. a \in Apart
  BY <1>7, <1>8
<1>10. m <= Len(a.buffer) /\ Len(a.buffer) \in Nat
  BY <1>1, <1>3, <1>9
<1> QED
  BY <1>1, <1>4, <1>7, <1>10

\* and so there is one for all, which Feed is.
LEMMA FeedEquation ==
  ASSUME NEW d \in Decoders
  PROVE  Feed[d] = IF GoesOn(d) THEN Feed[AfterField(d)] ELSE Outcome(d)
<1> DEFINE Part(e) == CHOOSE f : Solves(f, Small(Len(e.buffer) + 1))
           G == [e \in Decoders |-> Part(e)[e]]
<1>1. \A e \in Decoders : Len(e.buffer) \in Nat
  BY DEF Decoders
<1>2. ASSUME NEW e \in Decoders
      PROVE  Solves(Part(e), Small(Len(e.buffer) + 1)) /\ e \in Small(Len(e.buffer) + 1)
  <2>1. \E f : Solves(f, Small(Len(e.buffer) + 1))
    BY <1>1, ShortSolved
  <2>2. Len(e.buffer) < Len(e.buffer) + 1 /\ Len(e.buffer) + 1 \in Nat
    BY <1>1
  <2>3. Solves(Part(e), Small(Len(e.buffer) + 1))
    BY <2>1
  <2>4. e \in Small(Len(e.buffer) + 1)
    BY <2>2 DEF Small
  <2> QED
    BY <2>3, <2>4
<1>3. ASSUME NEW n \in Nat, NEW e \in Small(n), GoesOn(e)
      PROVE  AfterField(e) \in Small(n)
  <2>1. e \in Decoders /\ Len(e.buffer) < n
    BY DEF Small
  <2>2. AfterField(e) \in Decoders /\ Len(AfterField(e).buffer) < Len(e.buffer)
    BY <1>3, <2>1, AfterFieldFacts
  <2> QED
    BY <1>1, <2>1, <2>2 DEF Small
<1>4. ASSUME NEW e \in Decoders
      PROVE  Part(e)[e] = IF GoesOn(e) THEN G[AfterField(e)] ELSE Outcome(e)
  <2> DEFINE n == Len(e.buffer) + 1
             a == AfterField(e)
             k == Len(a.buffer) + 1
  <2>1. Part(e)[e] = IF GoesOn(e) THEN Part(e)[a] ELSE Outcome(e)
    <3>1. \A x \in Small(n) : Part(e)[x] = (IF GoesOn(x) THEN Part(e)[AfterField(x)] ELSE Outcome(x))
      <4> DEFINE f == Part(e)
      <4>1. Solves(f, Small(n))
        BY <1>2
      <4> HIDE DEF f
      <4> QED
        BY <4>1 DEF Solves, f
    <3>2. e \in Small(n)
      BY <1>2
    <3> QED
      BY <3>1, <3>2
  <2>2. ASSUME GoesOn(e) PROVE Part(e)[a] = G[a]
    <3>1. a \in Decoders /\ a \in Small(n)
      <4>0. Len(e.buffer) \in Nat
        BY <1>1
      <4>1. n \in Nat /\ e \in Small(n)
        BY <1>2, <4>0
      <4>2. a \in Decoders
        BY <2>2, AfterFieldFacts
      <4> QED
        BY <1>3, <2>2, <4>1, <4>2
    <3>2. Solves(Part(a), Small(k)) /\ a \in Small(k) /\ Solves(Part(e), Small(n))
      BY <1>2, <3>1
    <3>3. n \in Nat /\ k \in Nat
      BY <1>1, <3>1
    <3>4. Small(n) \subseteq Decoders /\ Small(k) \subseteq Decoders
      BY DEF Small
    <3>5. /\ \A x \in Small(n) : GoesOn(x) => AfterField(x) \in Small(n)
          /\ \A x \in Small(k) : GoesOn(x) => AfterField(x) \in Small(k)
      BY <1>3, <3>3
    <3> HIDE DEF Part, a, n, k
    <3>6. Part(e)[a] = Part(a)[a]
      BY <3>1, <3>2, <3>4, <3>5, SolutionsAgree
    <3> QED
      BY <3>1, <3>6
  <2> QED
    BY <2>1, <2>2
<1> HIDE DEF Part
<1>5. Solves(G, Decoders)
  <2>1. G = [e \in Decoders |-> IF GoesOn(e) THEN G[AfterField(e)] ELSE Outcome(e)]
    BY <1>4, Zenon
  <2> QED
    BY <2>1 DEF Solves
<1> HIDE DEF G
<1>6. Feed = CHOOSE f : Solves(f, Decoders)
  BY DEF Feed, Solves, GoesOn
<1>7. Solves(Feed, Decoders)
  BY <1>5, <1>6
<1> QED
  BY <1>7 DEF Solves
-------------------------------------------------------------------------------
(* What the decoder has made of the bytes b it was fed.                       *)

Taken(b, d) == Len(b) - Len(d.buffer)

\* The rest is in the buffer, and what was looked at has no delimiter.
Holds(b, d) ==
  /\ b \in Seq(Bytes) /\ d \in Decoders
  /\ Len(d.buffer) <= Len(b) /\ \A i \in 1 .. Len(d.buffer) : d.buffer[i] = b[Taken(b, d) + i]
  /\ d.scan <= Len(d.buffer) /\ \A i \in 1 .. d.scan : d.buffer[i] \notin {CR, LF}

Reads(b, d, found) ==
  LET c == Taken(b, d)
      n == Events(b, c)
  IN /\ Holds(b, d) /\ Boundary(b, c)
     /\ found \in Seq(Seq(Seq(Bytes))) /\ Len(found) = n
     /\ \A k \in 1 .. n : found[k] = EventsOf(b)[k] /\ SizeOf(b, k) <= FrameLimit
     /\ d.frame = c - EndOf(b, n) /\ d.frame <= FrameLimit
     /\ d.data = DataOf(b, LinesOf(b, c + 1))

\* A whole line in the buffer is the next line of the bytes.
LEMMA TakesLine ==
  ASSUME NEW b, NEW d, Holds(b, d), Boundary(b, Taken(b, d)), d.buffer # <<>>, ~NoLine(d)
  PROVE  LET c == Taken(b, d)
             w == WithoutLine(d)
             q == Taken(b, w)
         IN \E p \in Nat :
              /\ NextEnd(b, c, p) /\ Past(b, p) = q /\ Boundary(b, q)
              /\ c \in Nat /\ p \in c + 1 .. Len(b) /\ q \in Nat /\ c < q /\ Len(b) \in Nat
              /\ Holds(b, w) /\ w.data = d.data /\ w.frame = d.frame + (q - c)
              /\ Line(d) \in Seq(Bytes) /\ Len(Line(d)) = p - (c + 1)
              /\ \A i \in 1 .. Len(Line(d)) : Line(d)[i] = b[c + i]
<1> DEFINE c == Taken(b, d)
           m == Len(d.buffer)
           e == Min(Delimiters(d))
           taken == IF d.buffer[e] = CR /\ e < m /\ d.buffer[e + 1] = LF THEN e + 1 ELSE e
           p == c + e
           w == WithoutLine(d)
           q == Taken(b, w)
<1>1. /\ b \in Seq(Bytes) /\ d \in Decoders /\ Len(b) \in Nat /\ d.frame \in Nat /\ d.scan \in Nat
      /\ m <= Len(b) /\ \A i \in 1 .. m : d.buffer[i] = b[c + i]
      /\ d.scan <= m /\ \A i \in 1 .. d.scan : d.buffer[i] \notin {CR, LF}
  BY DEF Holds, Decoders
<1>2. /\ m \in Nat /\ e \in 1 .. m /\ d.buffer[e] \in {CR, LF}
      /\ \A i \in d.scan + 1 .. e - 1 : d.buffer[i] \notin {CR, LF}
      /\ d.buffer[e] = CR => e < m
      /\ taken \in 1 .. m
      /\ Line(d) \in Seq(Bytes) /\ Len(Line(d)) = e - 1
      /\ \A i \in 1 .. e - 1 : Line(d)[i] = d.buffer[i]
      /\ w \in Decoders /\ w.data = d.data /\ w.scan = 0 /\ w.frame = d.frame + taken
      /\ Len(w.buffer) = m - taken
      /\ \A i \in 1 .. m - taken : w.buffer[i] = d.buffer[taken + i]
  BY <1>1, LineFacts
<1>3. c = Len(b) - m /\ c \in Nat /\ q = c + taken /\ q \in Nat
  <2>1. c = Len(b) - m /\ q = Len(b) - (m - taken)
    BY <1>2 DEF Taken
  <2> HIDE DEF c, m, taken, q
  <2> QED
    BY <1>1, <1>2, <2>1
<1> HIDE DEF c, m, e, w, q
<1>4. p \in c + 1 .. Len(b) /\ p \in Nat
  BY <1>1, <1>2, <1>3
<1>5. b[p] = d.buffer[e] /\ (e < m => b[p + 1] = d.buffer[e + 1])
  <2>1. e < m => e + 1 \in 1 .. m /\ c + (e + 1) = p + 1
    BY <1>2, <1>3
  <2>2. e < m => b[c + (e + 1)] = d.buffer[e + 1]
    BY <1>1, <2>1
  <2> QED
    BY <1>1, <1>2, <2>1, <2>2
<1>6. \A j \in c + 1 .. p - 1 : b[j] \notin {CR, LF}
  <2> SUFFICES ASSUME NEW j \in c + 1 .. p - 1 PROVE b[j] \notin {CR, LF}
    OBVIOUS
  <2>0. c \in Nat /\ e \in Nat /\ m \in Nat /\ e <= m
    BY <1>2, <1>3
  <2>1. j - c \in 1 .. e - 1 /\ j - c \in 1 .. m /\ c + (j - c) = j
    BY <2>0
  <2>2. b[j] = d.buffer[j - c]
    BY <1>1, <2>1
  <2>3. j - c \in 1 .. d.scan \/ j - c \in d.scan + 1 .. e - 1
    BY <1>1, <1>2, <2>1
  <2> QED
    BY <1>1, <1>2, <2>2, <2>3
<1>7. Past(b, p) = q
  <2>1. p < Len(b) <=> e < m
    BY <1>1, <1>2, <1>3
  <2>2. taken = IF b[p] = CR /\ p < Len(b) /\ b[p + 1] = LF THEN e + 1 ELSE e
    BY <1>5, <2>1
  <2>3. c + e + 1 = c + (e + 1)
    BY <1>2, <1>3
  <2> QED
    BY <1>3, <2>2, <2>3 DEF Past
<1>8. b[p] = CR => p < Len(b)
  BY <1>1, <1>2, <1>3, <1>5
<1>9. NextEnd(b, c, p) /\ Boundary(b, q)
  <2>1. Boundary(b, c)
    BY DEF c
  <2>2. b[p] \in {CR, LF}
    BY <1>2, <1>5
  <2> HIDE DEF p
  <2> QED
    BY <1>1, <1>4, <1>6, <1>7, <1>8, <2>1, <2>2, NextLine DEF NextEnd
<1>10. Holds(b, w)
  <2>1. ASSUME NEW i \in 1 .. m - taken
        PROVE  w.buffer[i] = b[Taken(b, w) + i]
    <3>1. taken + i \in 1 .. m /\ c + (taken + i) = q + i
      BY <1>2, <1>3
    <3>2. w.buffer[i] = d.buffer[taken + i] /\ d.buffer[taken + i] = b[c + (taken + i)]
      BY <1>1, <1>2, <3>1
    <3> QED
      BY <3>1, <3>2 DEF q
  <2>2. m - taken <= Len(b) /\ 0 <= m - taken
    BY <1>1, <1>2
  <2> QED
    BY <1>1, <1>2, <2>1, <2>2 DEF Holds
<1>11. /\ c < q /\ w.frame = d.frame + (q - c) /\ Len(Line(d)) = p - (c + 1)
  <2>1. q - c = taken /\ p - (c + 1) = e - 1 /\ c < q
    BY <1>2, <1>3
  <2> QED
    BY <1>2, <2>1
<1>12. \A i \in 1 .. Len(Line(d)) : Line(d)[i] = b[c + i]
  <2> SUFFICES ASSUME NEW i \in 1 .. e - 1 PROVE Line(d)[i] = b[c + i]
    BY <1>2
  <2>1. i \in 1 .. m
    BY <1>2
  <2> QED
    BY <1>1, <1>2, <2>1
<1> QED
  BY <1>1, <1>2, <1>3, <1>4, <1>7, <1>9, <1>10, <1>11, <1>12 DEF c, w, q

\* A line that is not empty: feed() goes on.
LEMMA TakesField ==
  ASSUME NEW b, NEW d, NEW found, Reads(b, d, found), GoesOn(d)
  PROVE  Reads(b, AfterField(d), found)
<1> DEFINE c == Taken(b, d)
           w == WithoutLine(d)
           q == Taken(b, w)
           n == Events(b, c)
           a == AfterField(d)
           line == Line(d)
<1>1. /\ Holds(b, d) /\ Boundary(b, c)
      /\ found \in Seq(Seq(Seq(Bytes))) /\ Len(found) = n
      /\ \A k \in 1 .. n : found[k] = EventsOf(b)[k] /\ SizeOf(b, k) <= FrameLimit
      /\ d.frame = c - EndOf(b, n) /\ d.frame <= FrameLimit
      /\ d.data = DataOf(b, LinesOf(b, c + 1))
      /\ b \in Seq(Bytes) /\ d \in Decoders
  BY DEF Reads, Holds
<1>2. d.buffer # <<>> /\ ~NoLine(d) /\ w.frame <= FrameLimit /\ line # <<>>
  BY DEF GoesOn, EndsLine
<1>3. PICK p \in Nat :
        /\ NextEnd(b, c, p) /\ Past(b, p) = q /\ Boundary(b, q)
        /\ c \in Nat /\ p \in c + 1 .. Len(b) /\ q \in Nat /\ c < q /\ Len(b) \in Nat
        /\ Holds(b, w) /\ w.data = d.data /\ w.frame = d.frame + (q - c)
        /\ line \in Seq(Bytes) /\ Len(line) = p - (c + 1)
        /\ \A i \in 1 .. Len(line) : line[i] = b[c + i]
  BY <1>1, <1>2, TakesLine
<1> HIDE DEF c, w, q, n, line
<1>4. p # c + 1
  <2>1. Len(line) # 0
    BY <1>2, <1>3, EmptySeq
  <2> QED
    BY <1>3, <2>1
<1>5. /\ Events(b, q) = n
      /\ LinesOf(b, q + 1) = LinesOf(b, c + 1) \cup {p}
      /\ LinesOf(b, c + 1) \subseteq LineEnds(b) /\ \A i \in LinesOf(b, c + 1) : i < p
  BY <1>1, <1>3, <1>4, FullLine DEF n
<1>6. p \in LineEnds(b) /\ LineStart(b, p) = c + 1 /\ LineStart(b, p) < p
  BY <1>3, <1>4 DEF NextEnd
<1>7. Head(line) = b[c + 1]
  BY <1>3, <1>4
<1>8. Tail(line) = SubSeq(b, (c + 1) + 1, p - 1)
  <2> DEFINE t == SubSeq(b, (c + 1) + 1, p - 1)
  <2>1. /\ Tail(line) \in Seq(Bytes) /\ Len(Tail(line)) = Len(line) - 1
        /\ \A i \in 1 .. Len(Tail(line)) : Tail(line)[i] = line[i + 1]
    BY <1>2, <1>3, HeadTailProperties
  <2>2. /\ (c + 1) + 1 \in Int /\ p - 1 \in Int
        /\ \A i \in (c + 1) + 1 .. p - 1 : b[i] \in Bytes
    BY <1>1, <1>3
  <2>3. /\ t \in Seq(Bytes)
        /\ Len(t) = IF (c + 1) + 1 <= p - 1 THEN p - 1 - ((c + 1) + 1) + 1 ELSE 0
        /\ \A i \in 1 .. p - 1 - ((c + 1) + 1) + 1 : t[i] = b[(c + 1) + 1 + i - 1]
    BY <2>2, SubSeqProperties
  <2> HIDE DEF t
  <2>4. Len(t) = Len(Tail(line)) /\ Len(t) = p - 1 - (c + 1) /\ Len(t) \in Nat
    <3>1. c \in Nat /\ p \in Nat /\ c + 1 < p
      BY <1>3, <1>4
    <3>2. Len(t) = p - 1 - (c + 1) /\ Len(t) \in Nat
      <4>1. Len(t) = IF (c + 1) + 1 <= p - 1 THEN p - 1 - ((c + 1) + 1) + 1 ELSE 0
        BY <2>3
      <4> QED
        BY <3>1, <4>1
    <3>3. Len(Tail(line)) = (p - (c + 1)) - 1
      BY <1>3, <2>1
    <3> QED
      BY <3>1, <3>2, <3>3
  <2>5. ASSUME NEW i \in 1 .. Len(Tail(line)) PROVE Tail(line)[i] = t[i]
    <3>0. i \in 1 .. Len(t) /\ Len(t) = Len(line) - 1
      BY <2>1, <2>4
    <3>1. i + 1 \in 1 .. Len(line) /\ i \in 1 .. p - 1 - ((c + 1) + 1) + 1
      <4>1. i + 1 \in 1 .. Len(line)
        BY <2>4, <3>0, <1>3
      <4>2. p - 1 - ((c + 1) + 1) + 1 = p - 1 - (c + 1)
        BY <1>3
      <4> QED
        BY <2>4, <3>0, <4>1, <4>2
    <3>2. Tail(line)[i] = b[c + (i + 1)]
      BY <1>3, <2>1, <3>1
    <3>3. t[i] = b[(c + 1) + 1 + i - 1]
      BY <2>3, <3>1
    <3>4. (c + 1) + 1 + i - 1 = c + (i + 1)
      BY <1>3, <3>1
    <3> QED
      BY <3>2, <3>3, <3>4
  <2>6. Tail(line) = t
    BY <2>1, <2>3, <2>4, <2>5, SeqEqual
  <2> QED
    BY <2>6 DEF t
<1>9. DataOf(b, LinesOf(b, q + 1)) =
        IF Head(line) = Data THEN Append(d.data, Tail(line)) ELSE d.data
  <2>1. DataOf(b, LinesOf(b, c + 1) \cup {p}) =
          IF LineStart(b, p) < p /\ b[LineStart(b, p)] = Data
          THEN Append(DataOf(b, LinesOf(b, c + 1)), SubSeq(b, LineStart(b, p) + 1, p - 1))
          ELSE DataOf(b, LinesOf(b, c + 1))
    BY <1>1, <1>5, <1>6, DataGrows
  <2> QED
    BY <1>1, <1>5, <1>6, <1>7, <1>8, <2>1
<1>10. a.data = (IF Head(line) = Data THEN Append(d.data, Tail(line)) ELSE d.data)
       /\ a.buffer = w.buffer /\ a.scan = w.scan /\ a.frame = w.frame
  <2>1. a = IF Head(line) = Data THEN [w EXCEPT !.data = Append(w.data, Tail(line))] ELSE w
    BY DEF AfterField, line, w
  <2>2. w \in Decoders
    BY <1>3 DEF Holds
  <2> HIDE DEF a
  <2> QED
    BY <1>3, <2>1, <2>2 DEF Decoders
<1>11. a \in Decoders
  BY <1>1, AfterFieldFacts
<1> HIDE DEF a
<1>12. Taken(b, a) = q
  BY <1>10 DEF Taken, q
<1>13. Holds(b, a)
  BY <1>3, <1>10, <1>11, <1>12 DEF Holds, q
<1>14. a.frame = q - EndOf(b, n) /\ a.frame <= FrameLimit
  <2>1. EndOf(b, n) \in Nat
    <3>1. EndOf(b, n) \in 0 .. c
      BY <1>1, CountFacts DEF n
    <3> QED
      BY <1>3, <3>1
  <2> QED
    BY <1>1, <1>2, <1>3, <1>10, <2>1
<1> QED
  BY <1>1, <1>3, <1>5, <1>9, <1>10, <1>12, <1>13, <1>14 DEF Reads, a

\* An empty line: feed() yields the event.
LEMMA TakesEvent ==
  ASSUME NEW b, NEW d, NEW found, Reads(b, d, found), EndsLine(d), Line(d) = <<>>
  PROVE  LET a == [WithoutLine(d) EXCEPT !.data = <<>>, !.frame = 0]
         IN Reads(b, a, Append(found, d.data)) /\ Len(a.buffer) < Len(d.buffer)
<1> DEFINE c == Taken(b, d)
           w == WithoutLine(d)
           q == Taken(b, w)
           n == Events(b, c)
           a == [WithoutLine(d) EXCEPT !.data = <<>>, !.frame = 0]
           all == Append(found, d.data)
<1>1. /\ Holds(b, d) /\ Boundary(b, c)
      /\ found \in Seq(Seq(Seq(Bytes))) /\ Len(found) = n
      /\ \A k \in 1 .. n : found[k] = EventsOf(b)[k] /\ SizeOf(b, k) <= FrameLimit
      /\ d.frame = c - EndOf(b, n) /\ d.frame <= FrameLimit
      /\ d.data = DataOf(b, LinesOf(b, c + 1))
      /\ b \in Seq(Bytes) /\ d \in Decoders /\ d.data \in Seq(Seq(Bytes))
      /\ Len(d.buffer) \in Nat
  BY DEF Reads, Holds, Decoders
<1>2. d.buffer # <<>> /\ ~NoLine(d) /\ w.frame <= FrameLimit
  BY DEF EndsLine
<1>3. PICK p \in Nat :
        /\ NextEnd(b, c, p) /\ Past(b, p) = q /\ Boundary(b, q)
        /\ c \in Nat /\ p \in c + 1 .. Len(b) /\ q \in Nat /\ c < q /\ Len(b) \in Nat
        /\ Holds(b, w) /\ w.data = d.data /\ w.frame = d.frame + (q - c)
        /\ Line(d) \in Seq(Bytes) /\ Len(Line(d)) = p - (c + 1)
        /\ \A i \in 1 .. Len(Line(d)) : Line(d)[i] = b[c + i]
  BY <1>1, <1>2, TakesLine
<1> HIDE DEF c, w, q, n
<1>4. p = c + 1
  BY <1>3, EmptySeq
<1>5. /\ Events(b, q) = n + 1 /\ EndOf(b, n + 1) = q
      /\ SizeOf(b, n + 1) = q - EndOf(b, n)
      /\ EventsOf(b)[n + 1] = DataOf(b, LinesOf(b, c + 1))
      /\ LinesOf(b, q + 1) = {}
  BY <1>1, <1>3, <1>4, EmptyLine DEF n
<1>6. EndOf(b, n) \in Nat /\ n \in Nat
  <2>1. EndOf(b, n) \in 0 .. c /\ n \in 0 .. Cardinality(EventEnds(b))
    BY <1>1, CountFacts DEF n
  <2> QED
    BY <1>3, <2>1
<1>7. SizeOf(b, n + 1) <= FrameLimit
  BY <1>1, <1>2, <1>3, <1>5, <1>6
<1>8. w \in Decoders
  BY <1>3 DEF Holds
<1>9. a \in Decoders /\ a.data = <<>> /\ a.frame = 0 /\ a.buffer = w.buffer /\ a.scan = w.scan
  <2>1. <<>> \in Seq(Seq(Bytes))
    BY EmptySeq
  <2>2. a = [w EXCEPT !.data = <<>>, !.frame = 0]
    BY DEF w
  <2>3. [w EXCEPT !.data = <<>>, !.frame = 0] \in Decoders
    BY <1>8, <2>1 DEF Decoders
  <2> HIDE DEF a
  <2> QED
    BY <1>8, <2>2, <2>3 DEF Decoders
<1> HIDE DEF a
<1>10. Taken(b, a) = q
  BY <1>9 DEF Taken, q
<1>11. Holds(b, a)
  BY <1>3, <1>9, <1>10 DEF Holds, q
<1>12. /\ all \in Seq(Seq(Seq(Bytes))) /\ Len(all) = n + 1
       /\ \A k \in 1 .. n : all[k] = found[k]
       /\ all[n + 1] = d.data
  BY <1>1, AppendProperties
<1> HIDE DEF all
<1>13. \A k \in 1 .. n + 1 : all[k] = EventsOf(b)[k] /\ SizeOf(b, k) <= FrameLimit
  <2>1. \A k \in 1 .. n + 1 : k \in 1 .. n \/ k = n + 1
    BY <1>6
  <2> QED
    BY <1>1, <1>5, <1>7, <1>12, <2>1
<1>14. a.frame = q - EndOf(b, n + 1) /\ a.frame <= FrameLimit
  <2>1. 0 <= FrameLimit
    BY SseDecoderAssumption DEF SseDecoderAssumption
  <2> QED
    BY <1>3, <1>5, <1>9, <2>1
<1>15. a.data = DataOf(b, LinesOf(b, q + 1))
  BY <1>1, <1>5, <1>9, DataFacts
<1>16. Len(a.buffer) < Len(d.buffer)
  <2>1. Len(a.buffer) = Len(b) - q /\ Len(d.buffer) = Len(b) - c
    <3>1. Len(w.buffer) \in Nat
      BY <1>8 DEF Decoders
    <3> QED
      BY <1>1, <1>3, <1>9, <3>1 DEF q, c, Taken
  <2> QED
    BY <1>3, <2>1
<1>17. Reads(b, a, all)
  BY <1>3, <1>5, <1>10, <1>11, <1>12, <1>13, <1>14, <1>15 DEF Reads
<1> QED
  BY <1>16, <1>17 DEF a, all

\* A line that is too long: the event is.
LEMMA TakesTooMuch ==
  ASSUME NEW b, NEW d, NEW found, Reads(b, d, found),
         d.buffer # <<>>, ~NoLine(d), ~EndsLine(d)
  PROVE  SizeOf(b, Len(found) + 1) > FrameLimit
<1> DEFINE c == Taken(b, d)
           w == WithoutLine(d)
           q == Taken(b, w)
           n == Events(b, c)
<1>1. /\ Holds(b, d) /\ Boundary(b, c) /\ Len(found) = n /\ d.frame = c - EndOf(b, n)
      /\ b \in Seq(Bytes) /\ d \in Decoders /\ d.frame \in Nat
  BY DEF Reads, Holds, Decoders
<1>2. ~(w.frame <= FrameLimit)
  BY DEF EndsLine
<1>3. PICK p \in Nat :
        /\ NextEnd(b, c, p) /\ Past(b, p) = q
        /\ c \in Nat /\ q \in Nat /\ c < q
        /\ Holds(b, w) /\ w.frame = d.frame + (q - c)
  BY <1>1, TakesLine
<1> HIDE DEF c, w, q, n
<1>4. SizeOf(b, n + 1) >= q - EndOf(b, n) /\ EndOf(b, n) \in 0 .. c
      /\ n \in 0 .. Cardinality(EventEnds(b))
  BY <1>1, <1>3, SizeFacts, CountFacts DEF n
<1>5. q - EndOf(b, n) = w.frame /\ FrameLimit < w.frame
  <2>1. w.frame \in Nat /\ FrameLimit \in Nat
    BY <1>1, <1>3, SseDecoderAssumption DEF SseDecoderAssumption
  <2> QED
    BY <1>1, <1>2, <1>3, <1>4, <2>1
<1>6. SizeOf(b, n + 1) \in Int
  <2>1. \A k \in 1 .. Cardinality(EventEnds(b)) : EndOf(b, k) \in Nat
    <3> SUFFICES ASSUME NEW k \in 1 .. Cardinality(EventEnds(b)) PROVE EndOf(b, k) \in Nat
      OBVIOUS
    <3>1. InOrder(EventEnds(b))[k] \in LineEnds(b)
      BY <1>1, EventEndFacts, InOrderFacts
    <3>2. Past(b, InOrder(EventEnds(b))[k]) \in Nat
      BY <1>1, <3>1, LineEndFacts, EventEndFacts
    <3>3. Cardinality(EventEnds(b)) \in Nat
      BY <1>1, EventEndFacts
    <3> QED
      BY <3>2, <3>3 DEF EndOf
  <2>2. Len(b) \in Nat /\ Cardinality(EventEnds(b)) \in Nat
    BY <1>1, EventEndFacts
  <2>3. (IF n + 1 <= Cardinality(EventEnds(b)) THEN EndOf(b, n + 1) ELSE Len(b)) \in Nat
    BY <1>4, <2>1, <2>2
  <2>4. EndOf(b, (n + 1) - 1) \in Nat
    BY <1>3, <1>4, <2>2
  <2> QED
    BY <2>3, <2>4 DEF SizeOf
<1>7. FrameLimit \in Nat /\ w.frame \in Nat
  BY <1>1, <1>3, SseDecoderAssumption DEF SseDecoderAssumption
<1> QED
  BY <1>1, <1>4, <1>5, <1>6, <1>7

\* No whole line: it waits for more, and remembers what it has looked at.
Quiet(b, d) ==
  /\ d.frame + Len(d.buffer) <= FrameLimit
  /\ \A i \in LineEnds(b) : Taken(b, d) < i => i = Len(b) /\ b[i] = CR

LEMMA LastSize ==
  ASSUME NEW b, NEW d, NEW found, Reads(b, d, found),
         \A i \in LineEnds(b) : Taken(b, d) < i => i = Len(b) /\ b[i] = CR
  PROVE  SizeOf(b, Len(found) + 1) = d.frame + Len(d.buffer)
<1> DEFINE c == Taken(b, d)
           n == Events(b, c)
           E == EventEnds(b)
<1>1. /\ Holds(b, d) /\ Boundary(b, c) /\ Len(found) = n /\ d.frame = c - EndOf(b, n)
      /\ b \in Seq(Bytes) /\ d \in Decoders /\ Len(b) \in Nat /\ Len(d.buffer) \in Nat
      /\ c = Len(b) - Len(d.buffer)
  BY DEF Reads, Holds, Decoders, Taken
<1>2. /\ n \in 0 .. Cardinality(E) /\ EndOf(b, n) \in 0 .. c /\ c \in 0 .. Len(b)
      /\ n < Cardinality(E) => \E p \in E : c < p /\ EndOf(b, n + 1) = Past(b, p)
  <2>1. n \in 0 .. Cardinality(E) /\ \A k \in 0 .. n : EndOf(b, k) \in 0 .. c
    BY <1>1, CountFacts
  <2>2. n < Cardinality(E) => \E p \in E : c < p /\ EndOf(b, n + 1) = Past(b, p)
    BY <1>1, CountFacts
  <2>3. c \in 0 .. Len(b)
    BY <1>1, BoundaryFacts
  <2> QED
    BY <2>1, <2>2, <2>3
<1>3. E \subseteq LineEnds(b) /\ Cardinality(E) \in Nat
  BY <1>1, EventEndFacts
<1> HIDE DEF c, n, E
<1>4. n < Cardinality(E) => EndOf(b, n + 1) = Len(b)
  <2> SUFFICES ASSUME n < Cardinality(E) PROVE EndOf(b, n + 1) = Len(b)
    OBVIOUS
  <2>1. PICK p \in E : c < p /\ EndOf(b, n + 1) = Past(b, p)
    BY <1>2
  <2>2. p = Len(b) /\ p \in LineEnds(b)
    BY <1>3, <2>1 DEF c
  <2>3. Past(b, p) \in p .. Len(b)
    BY <1>1, <2>2, LineEndFacts
  <2> QED
    BY <1>1, <2>1, <2>2, <2>3
<1>5. SizeOf(b, n + 1) = Len(b) - EndOf(b, n)
  <2>1. (n + 1 <= Cardinality(E) <=> n < Cardinality(E)) /\ (n + 1) - 1 = n
    BY <1>2, <1>3
  <2> QED
    BY <1>4, <2>1 DEF SizeOf, E
<1> QED
  BY <1>1, <1>2, <1>5

LEMMA WaitsForMore ==
  ASSUME NEW b, NEW d, NEW found, Reads(b, d, found), NoLine(d)
  PROVE  LET a == [d EXCEPT !.scan = ScanOffset(d)]
         IN /\ Reads(b, a, found) /\ a.frame = d.frame /\ a.buffer = d.buffer
            /\ \A i \in LineEnds(b) : Taken(b, d) < i => i = Len(b) /\ b[i] = CR
<1> DEFINE a == [d EXCEPT !.scan = ScanOffset(d)]
           c == Taken(b, d)
           m == Len(d.buffer)
           D == Delimiters(d)
<1>1. /\ b \in Seq(Bytes) /\ d \in Decoders /\ Len(b) \in Nat /\ d.scan \in Nat /\ m \in Nat
      /\ m <= Len(b) /\ \A i \in 1 .. m : d.buffer[i] = b[c + i]
      /\ d.scan <= m /\ \A i \in 1 .. d.scan : d.buffer[i] \notin {CR, LF}
      /\ c = Len(b) - m /\ c \in Nat
  BY DEF Reads, Holds, Decoders, Taken
<1>2. /\ D \subseteq Nat /\ \A i \in D : i \in d.scan + 1 .. m /\ d.buffer[i] \in {CR, LF}
      /\ \A i \in d.scan + 1 .. m : d.buffer[i] \in {CR, LF} => i \in D
  BY <1>1 DEF Delimiters
<1>3. D # {} => Min(D) \in D /\ Min(D) = m /\ d.buffer[m] = CR /\ \A i \in D : m <= i
  <2> SUFFICES ASSUME D # {}
               PROVE  Min(D) \in D /\ Min(D) = m /\ d.buffer[m] = CR /\ \A i \in D : m <= i
    OBVIOUS
  <2>1. Min(D) \in D /\ \A i \in D : Min(D) <= i
    BY <1>2, MinIsLeast
  <2>2. Min(D) = m /\ Last(d.buffer) = CR
    BY DEF NoLine
  <2>3. Last(d.buffer) = d.buffer[m]
    BY DEF Last
  <2> QED
    BY <2>1, <2>2, <2>3
<1> HIDE DEF D, c, m
<1>4. \A i \in 1 .. m : d.buffer[i] \in {CR, LF} => i = m /\ d.buffer[i] = CR
  <2> SUFFICES ASSUME NEW i \in 1 .. m, d.buffer[i] \in {CR, LF}
               PROVE  i = m /\ d.buffer[i] = CR
    OBVIOUS
  <2>1. i \in d.scan + 1 .. m
    BY <1>1
  <2>2. i \in D /\ D # {}
    BY <1>2, <2>1
  <2>3. i = m
    BY <1>1, <1>3, <2>1, <2>2
  <2> QED
    BY <1>3, <2>2, <2>3
<1>5. ScanOffset(d) = (IF D = {} THEN m ELSE m - 1) /\ (D # {} => m \in 1 .. m)
  BY <1>1, <1>2, <1>3 DEF ScanOffset, D, m
<1>6. ScanOffset(d) \in 0 .. m /\ \A i \in 1 .. ScanOffset(d) : d.buffer[i] \notin {CR, LF}
  <2>1. CASE D = {}
    <3>1. ScanOffset(d) = m
      BY <1>5, <2>1
    <3>2. \A i \in 1 .. m : d.buffer[i] \notin {CR, LF}
      <4> SUFFICES ASSUME NEW i \in 1 .. m, d.buffer[i] \in {CR, LF} PROVE FALSE
        OBVIOUS
      <4>1. i \in d.scan + 1 .. m
        BY <1>1
      <4> QED
        BY <1>2, <2>1, <4>1
    <3> QED
      BY <1>1, <3>1, <3>2
  <2>2. CASE D # {}
    <3>1. ScanOffset(d) = m - 1 /\ m - 1 \in 0 .. m
      BY <1>1, <1>5, <2>2
    <3>2. \A i \in 1 .. m - 1 : i \in 1 .. m /\ i # m
      BY <1>1
    <3> QED
      BY <1>4, <3>1, <3>2
  <2> QED
    BY <2>1, <2>2
<1>7. \A i \in LineEnds(b) : c < i => i = Len(b) /\ b[i] = CR
  <2> SUFFICES ASSUME NEW i \in LineEnds(b), c < i PROVE i = Len(b) /\ b[i] = CR
    OBVIOUS
  <2>1. i \in 1 .. Len(b) /\ b[i] \in {CR, LF}
    BY <1>1, LineEndFacts DEF LineEnds
  <2>2. i - c \in 1 .. m /\ c + (i - c) = i /\ c + m = Len(b)
    BY <1>1, <2>1
  <2>3. d.buffer[i - c] = b[i]
    BY <1>1, <2>2
  <2>4. i - c = m /\ d.buffer[i - c] = CR
    BY <1>4, <2>1, <2>2, <2>3
  <2> QED
    BY <2>2, <2>3, <2>4
<1>8. /\ a \in Decoders /\ a.buffer = d.buffer /\ a.data = d.data /\ a.frame = d.frame
      /\ a.scan = ScanOffset(d)
  <2>1. ScanOffset(d) \in Nat
    BY <1>6
  <2> QED
    BY <1>1, <2>1 DEF Decoders
<1> HIDE DEF a
<1>9. Taken(b, a) = c
  BY <1>8 DEF Taken, c
<1>10. Holds(b, a)
  <2>1. a.scan <= Len(a.buffer) /\ \A i \in 1 .. a.scan : a.buffer[i] \notin {CR, LF}
    <3>1. ScanOffset(d) <= Len(d.buffer)
      BY <1>1, <1>6 DEF m
    <3> QED
      BY <1>6, <1>8, <3>1
  <2>2. Holds(b, d)
    BY DEF Reads
  <2> QED
    BY <1>8, <1>9, <2>1, <2>2 DEF Holds, c
<1>11. Reads(b, a, found)
  BY <1>8, <1>9, <1>10 DEF Reads, c
<1> QED
  BY <1>7, <1>8, <1>11 DEF a, c

\* What comes of it all: feed() ends when there is no whole line left, raises only for
\* an event that is too long, and yields the events in order.
LEMMA FeedReads ==
  ASSUME NEW b, NEW found, NEW d, Reads(b, d, found)
  PROVE  LET o == Feed[d]
         IN /\ o.what = "end" => Reads(b, o.decoder, found) /\ Quiet(b, o.decoder)
            /\ o.what = "limit" => SizeOf(b, Len(found) + 1) > FrameLimit
            /\ o.what = "event" =>
                 /\ Reads(b, o.decoder, Append(found, o.data)) /\ o.decoder.frame = 0
                 /\ Len(o.decoder.buffer) <= Len(d.buffer)
<1> DEFINE Good(e, o) ==
             /\ o.what = "end" => Reads(b, o.decoder, found) /\ Quiet(b, o.decoder)
             /\ o.what = "limit" => SizeOf(b, Len(found) + 1) > FrameLimit
             /\ o.what = "event" =>
                  /\ Reads(b, o.decoder, Append(found, o.data)) /\ o.decoder.frame = 0
                  /\ Len(o.decoder.buffer) <= Len(e.buffer)
           Wrong == {e \in Decoders : Reads(b, e, found) /\ ~Good(e, Feed[e])}
           Lengths == {Len(e.buffer) : e \in Wrong}
<1> SUFFICES ASSUME Wrong # {} PROVE FALSE
  <2>1. d \in Decoders
    BY DEF Reads, Holds
  <2> QED
    BY <2>1
<1>1. \A e \in Decoders : Len(e.buffer) \in Nat /\ e.frame \in Nat
  BY DEF Decoders
<1>2. Lengths \in SUBSET Nat /\ Lengths # {}
  BY <1>1
<1>3. PICK m \in Lengths : \A k \in Lengths : m <= k
  BY <1>2, LeastNat
<1>4. PICK e \in Wrong : m = Len(e.buffer)
  BY <1>3
<1>5. e \in Decoders /\ Reads(b, e, found) /\ ~Good(e, Feed[e])
  BY <1>4
<1>6. Feed[e] = IF GoesOn(e) THEN Feed[AfterField(e)] ELSE Outcome(e)
  BY <1>5, FeedEquation
<1>7. CASE GoesOn(e)
  <2> DEFINE a == AfterField(e)
  <2>1. a \in Decoders /\ Len(a.buffer) < m /\ Len(a.buffer) \in Nat
    BY <1>1, <1>4, <1>5, <1>7, AfterFieldFacts
  <2>2. Reads(b, a, found)
    BY <1>5, <1>7, TakesField
  <2>3. Feed[e] = Feed[a]
    BY <1>6, <1>7
  <2>4. m \in Nat
    BY <1>2
  <2> HIDE DEF a
  <2>5. a \notin Wrong
    <3> SUFFICES ASSUME a \in Wrong PROVE FALSE
      OBVIOUS
    <3>1. m <= Len(a.buffer)
      BY <1>3
    <3> QED
      BY <2>1, <2>4, <3>1
  <2>6. Good(a, Feed[a])
    BY <2>1, <2>2, <2>5
  <2>7. Good(e, Feed[a])
    <3>1. \A o : Good(a, o) /\ o.what = "event" => Len(o.decoder.buffer) <= Len(e.buffer)
      <4> SUFFICES ASSUME NEW o, Good(a, o), o.what = "event"
                   PROVE  Len(o.decoder.buffer) <= Len(e.buffer)
        OBVIOUS
      <4>1. Len(o.decoder.buffer) <= Len(a.buffer) /\ o.decoder \in Decoders
        BY DEF Reads, Holds
      <4>2. Len(o.decoder.buffer) \in Nat
        BY <1>1, <4>1
      <4> QED
        BY <1>4, <2>1, <2>4, <4>1, <4>2
    <3> QED
      BY <2>6, <3>1
  <2> QED
    BY <1>5, <2>3, <2>7
<1>8. CASE ~GoesOn(e)
  <2> DEFINE o == Outcome(e)
  <2>1. Feed[e] = o
    BY <1>6, <1>8
  <2>2. CASE NoLine(e)
    <3> DEFINE a == [e EXCEPT !.scan = ScanOffset(e)]
    <3>1. /\ Reads(b, a, found) /\ a.frame = e.frame /\ a.buffer = e.buffer
          /\ \A i \in LineEnds(b) : Taken(b, e) < i => i = Len(b) /\ b[i] = CR
      BY <1>5, <2>2, WaitsForMore
    <3>2. SizeOf(b, Len(found) + 1) = e.frame + Len(e.buffer)
      BY <1>5, <3>1, LastSize
    <3>3. FrameLimit \in Nat
      BY SseDecoderAssumption DEF SseDecoderAssumption
    <3>4. CASE e.buffer = <<>>
      <4>1. o = Comes("end", e, <<>>)
        BY <3>4 DEF Outcome, EndsLine
      <4>2. e.frame + Len(e.buffer) <= FrameLimit
        <5>1. e.frame <= FrameLimit /\ Len(e.buffer) = 0
          BY <1>5, <3>4 DEF Reads
        <5> QED
          BY <1>1, <1>5, <3>3, <5>1
      <4>3. Quiet(b, e)
        BY <3>1, <4>2 DEF Quiet
      <4> HIDE DEF o
      <4>4. Good(e, o)
        BY <1>5, <4>1, <4>3 DEF Comes
      <4> QED
        BY <1>5, <2>1, <4>4
    <3>5. CASE e.buffer # <<>>
      <4>1. o = IF e.frame + Len(e.buffer) > FrameLimit THEN Comes("limit", e, <<>>)
                ELSE Comes("end", a, <<>>)
        BY <2>2, <3>5 DEF Outcome, EndsLine
      <4> HIDE DEF o, a
      <4>2. CASE e.frame + Len(e.buffer) > FrameLimit
        <5>1. o.what = "limit"
          BY <4>1, <4>2 DEF Comes
        <5>2. Good(e, o)
          BY <3>2, <4>2, <5>1
        <5> QED
          BY <1>5, <2>1, <5>2
      <4>3. CASE ~(e.frame + Len(e.buffer) > FrameLimit)
        <5>1. o.what = "end" /\ o.decoder = a
          BY <4>1, <4>3 DEF Comes
        <5>2. a.frame + Len(a.buffer) <= FrameLimit
          BY <1>1, <1>5, <3>1, <3>3, <4>3
        <5>3. Taken(b, a) = Taken(b, e)
          BY <3>1 DEF Taken
        <5>4. Quiet(b, a)
          BY <3>1, <5>2, <5>3 DEF Quiet
        <5>5. Good(e, o)
          BY <3>1, <5>1, <5>4
        <5> QED
          BY <1>5, <2>1, <5>5
      <4> QED
        BY <4>2, <4>3
    <3> QED
      BY <3>4, <3>5
  <2>3. CASE ~NoLine(e)
    <3>1. e.buffer # <<>>
      <4> SUFFICES ASSUME e.buffer = <<>> PROVE FALSE
        OBVIOUS
      <4>1. Delimiters(e) = {}
        <5>1. e.scan \in Nat /\ Len(e.buffer) = 0
          BY <1>5 DEF Decoders
        <5> QED
          BY <5>1 DEF Delimiters
      <4> QED
        BY <2>3, <4>1 DEF NoLine
    <3>2. CASE EndsLine(e)
      <4> DEFINE a == [WithoutLine(e) EXCEPT !.data = <<>>, !.frame = 0]
      <4>1. Line(e) = <<>>
        BY <1>8, <3>2 DEF GoesOn
      <4>2. Reads(b, a, Append(found, e.data)) /\ Len(a.buffer) < Len(e.buffer)
        BY <1>5, <3>2, <4>1, TakesEvent
      <4>3. o = Comes("event", a, e.data)
        BY <2>3, <3>1, <3>2 DEF Outcome
      <4>4. a \in Decoders
        BY <4>2 DEF Reads, Holds
      <4>5. a.frame = 0
        <5>1. WithoutLine(e) \in Decoders
          BY <1>5, <2>3, <3>1, LineFacts
        <5> QED
          BY <5>1 DEF Decoders
      <4> HIDE DEF o, a
      <4>6. o.what = "event" /\ o.decoder = a /\ o.data = e.data
        BY <4>3 DEF Comes
      <4>7. Len(a.buffer) <= Len(e.buffer)
        BY <1>1, <1>5, <4>2, <4>4
      <4>8. Good(e, o)
        BY <4>2, <4>5, <4>6, <4>7
      <4> QED
        BY <1>5, <2>1, <4>8
    <3>3. CASE ~EndsLine(e)
      <4>1. SizeOf(b, Len(found) + 1) > FrameLimit
        BY <1>5, <2>3, <3>1, <3>3, TakesTooMuch
      <4>2. o = Comes("limit", WithoutLine(e), <<>>)
        BY <2>3, <3>1, <3>3 DEF Outcome
      <4> HIDE DEF o
      <4>3. Good(e, o)
        BY <4>1, <4>2 DEF Comes
      <4> QED
        BY <1>5, <2>1, <4>3
    <3> QED
      BY <3>2, <3>3
  <2> QED
    BY <2>2, <2>3
<1> QED
  BY <1>7, <1>8

LEMMA EventsOfFacts ==
  ASSUME NEW b \in Seq(Bytes)
  PROVE  /\ EventsOf(b) \in Seq(Seq(Seq(Bytes)))
         /\ Len(EventsOf(b)) = Cardinality(EventEnds(b))
         /\ EventsOf(b) = [k \in 1 .. Cardinality(EventEnds(b)) |-> EventsOf(b)[k]]
<1> DEFINE E == EventEnds(b)
           n == Cardinality(E)
           D(k) == DataOf(b, LinesOf(b, InOrder(E)[k]))
<1>1. n \in Nat /\ Len(InOrder(E)) = n
  BY EventEndFacts, InOrderFacts
<1>2. EventsOf(b) = [k \in 1 .. n |-> D(k)]
  BY <1>1 DEF EventsOf
<1>3. \A k \in 1 .. n : D(k) \in Seq(Seq(Bytes))
  <2> SUFFICES ASSUME NEW k \in 1 .. n PROVE D(k) \in Seq(Seq(Bytes))
    OBVIOUS
  <2>1. LinesOf(b, InOrder(E)[k]) \subseteq LineEnds(b)
    BY DEF LinesOf
  <2> QED
    BY <2>1, DataFacts
<1> HIDE DEF D, n
<1>4. [k \in 1 .. n |-> D(k)] \in Seq(Seq(Seq(Bytes)))
  BY <1>1, <1>3
<1>5. Len([k \in 1 .. n |-> D(k)]) = n
  BY <1>1
<1>6. [k \in 1 .. n |-> D(k)] = [k \in 1 .. n |-> [j \in 1 .. n |-> D(j)][k]]
  OBVIOUS
<1> QED
  BY <1>2, <1>4, <1>5, <1>6 DEF n

\* The events found are the first ones, all of them when it waits for more bytes.
LEMMA ReadsPrefix ==
  ASSUME NEW b, NEW d, NEW found, Reads(b, d, found)
  PROVE  IsPrefix(found, EventsOf(b))
<1> DEFINE n == Events(b, Taken(b, d))
           m == Cardinality(EventEnds(b))
<1>1. /\ b \in Seq(Bytes) /\ Boundary(b, Taken(b, d)) /\ Len(found) = n
      /\ found \in Seq(Seq(Seq(Bytes)))
      /\ \A k \in 1 .. n : found[k] = EventsOf(b)[k]
  BY DEF Reads, Holds
<1>2. n \in 0 .. m /\ m \in Nat
  BY <1>1, CountFacts, EventEndFacts
<1>3. EventsOf(b) \in Seq(Seq(Seq(Bytes))) /\ Len(EventsOf(b)) = m
  BY <1>1, EventsOfFacts
<1> DEFINE events == EventsOf(b)
<1> HIDE DEF n, m, events
<1>4. events \in Seq(Seq(Seq(Bytes))) /\ Len(events) = m /\ \A k \in 1 .. n : found[k] = events[k]
  BY <1>1, <1>3 DEF events
<1>5. SubSeq(found, 1, n) = SubSeq(events, 1, n)
  <2>1. n \in Nat /\ (1 + n) - 1 = n /\ \A k \in 1 .. n : (k + 1) - 1 = k
    BY <1>2
  <2> QED
    BY <1>1, <1>2, <1>4, <2>1
<1>6. Len(found) <= Len(events)
  BY <1>1, <1>2, <1>4
<1>7. IsPrefix(found, events)
  BY <1>1, <1>5, <1>6 DEF IsPrefix
<1> QED
  BY <1>7 DEF events

LEMMA QuietMeans ==
  ASSUME NEW b, NEW d, NEW found, Reads(b, d, found), Quiet(b, d)
  PROVE  /\ found = EventsOf(IF b # <<>> /\ Last(b) = CR THEN Front(b) ELSE b)
         /\ \A k \in 1 .. Len(found) + 1 : SizeOf(b, k) <= FrameLimit
<1> DEFINE s == IF b # <<>> /\ Last(b) = CR THEN Front(b) ELSE b
           c == Taken(b, d)
           n == Events(b, c)
<1>1. /\ b \in Seq(Bytes) /\ Len(b) \in Nat /\ Boundary(b, c) /\ Len(found) = n
      /\ found \in Seq(Seq(Seq(Bytes)))
      /\ \A k \in 1 .. n : found[k] = EventsOf(b)[k] /\ SizeOf(b, k) <= FrameLimit
      /\ \A i \in LineEnds(b) : c < i => i = Len(b) /\ b[i] = CR
      /\ d.frame + Len(d.buffer) <= FrameLimit
  BY DEF Reads, Holds, Quiet
<1>2. n \in Nat
  BY <1>1, CountFacts, EventEndFacts
<1>3. /\ Grown(s, b) /\ s \in Seq(Bytes) /\ Len(s) \in Nat
      /\ IF Len(b) > 0 /\ b[Len(b)] = CR THEN Len(s) = Len(b) - 1 ELSE Len(s) = Len(b)
  <2>1. b # <<>> <=> Len(b) > 0
    BY <1>1
  <2>2. CASE b # <<>> /\ Last(b) = CR
    <3>1. Len(b) - 1 \in 0 .. Len(b) /\ s = SubSeq(b, 1, Len(b) - 1) /\ b[Len(b)] = CR
      BY <1>1, <2>1, <2>2 DEF Front, Last
    <3> DEFINE t == SubSeq(b, 1, Len(b) - 1)
    <3>2. /\ \A i \in 1 .. Len(b) - 1 : b[i] \in Bytes
          /\ Len(b) - 1 \in Nat /\ (1 <= (Len(b) - 1) + 1) /\ ((Len(b) - 1) - 1) + 1 = Len(b) - 1
      BY <1>1, <3>1
    <3>3. t \in Seq(Bytes) /\ Len(t) = Len(b) - 1 /\ \A i \in 1 .. Len(b) - 1 : t[i] = b[i]
      <4>1. t \in Seq(Bytes)
        BY <1>1, <3>1, <3>2
      <4>2. Len(t) = Len(b) - 1
        BY <1>1, <3>1, <3>2
      <4>3. \A i \in 1 .. Len(b) - 1 : t[i] = b[i]
        BY <1>1, <3>1, <3>2
      <4> QED
        BY <4>1, <4>2, <4>3
    <3> HIDE DEF t
    <3>4. s = t
      BY <3>1 DEF t
    <3>5. s \in Seq(Bytes) /\ Len(s) = Len(b) - 1 /\ \A i \in 1 .. Len(b) - 1 : s[i] = b[i]
      BY <3>3, <3>4
    <3> QED
      BY <1>1, <2>1, <2>2, <3>1, <3>5 DEF Grown
  <2>3. CASE ~(b # <<>> /\ Last(b) = CR)
    <3>1. s = b /\ ~(Len(b) > 0 /\ b[Len(b)] = CR)
      BY <2>1, <2>3 DEF Last
    <3> QED
      BY <1>1, <3>1 DEF Grown
  <2> QED
    BY <2>2, <2>3
<1> HIDE DEF s, c, n
<1>4. /\ EventEnds(s) \subseteq EventEnds(b) /\ EventEnds(s) \subseteq 1 .. Len(s)
      /\ EventEnds(b) \subseteq LineEnds(b) /\ EventEnds(b) \subseteq 1 .. Len(b)
      /\ \A i \in EventEnds(b) \ EventEnds(s) : Len(s) < i
      /\ \A k \in 1 .. Cardinality(EventEnds(s)) : EventsOf(b)[k] = EventsOf(s)[k]
  <2>1. EventEnds(s) \subseteq 1 .. Len(s)
    BY <1>3, EventEndFacts, LineEndFacts
  <2>2. EventEnds(b) \subseteq LineEnds(b) /\ EventEnds(b) \subseteq 1 .. Len(b)
    BY <1>1, EventEndFacts, LineEndFacts
  <2> QED
    BY <1>3, <2>1, <2>2, GrownEvents
<1>5. \A i \in LineEnds(b) : i <= c => i < Len(b) \/ b[i] # CR
  BY <1>1, BoundaryFacts
<1>6. c \in Nat
  BY <1>1, BoundaryFacts
<1>7. UpTo(EventEnds(b), c) = EventEnds(s)
  <2>1. ASSUME NEW i \in EventEnds(s) PROVE i \in EventEnds(b) /\ i <= c
    <3>1. i \in EventEnds(b) /\ i \in LineEnds(b) /\ i \in 1 .. Len(s)
      BY <1>4, <2>1
    <3>2. c < i => i = Len(b) /\ b[i] = CR
      BY <1>1, <3>1
    <3>3. ~(c < i)
      BY <1>1, <1>3, <3>1, <3>2
    <3> QED
      BY <1>3, <1>6, <3>1, <3>3
  <2>2. ASSUME NEW i \in EventEnds(b), i <= c PROVE i \in EventEnds(s)
    <3> SUFFICES ASSUME i \notin EventEnds(s) PROVE FALSE
      OBVIOUS
    <3>1. Len(s) < i /\ i \in 1 .. Len(b) /\ i \in LineEnds(b)
      BY <1>4
    <3>2. i < Len(b) \/ b[i] # CR
      BY <1>5, <2>2, <3>1
    <3> QED
      BY <1>1, <1>3, <3>1, <3>2
  <2> QED
    BY <2>1, <2>2 DEF UpTo
<1>8. n = Cardinality(EventEnds(s))
  BY <1>7 DEF Events, n
<1>9. EventsOf(s) = [k \in 1 .. n |-> EventsOf(s)[k]]
  BY <1>3, <1>8, EventsOfFacts
<1>10. found = [k \in 1 .. n |-> found[k]]
  BY <1>1, <1>2
<1>11. \A k \in 1 .. n : found[k] = EventsOf(s)[k]
  BY <1>1, <1>4, <1>8
<1>12. found = EventsOf(s)
  BY <1>9, <1>10, <1>11
<1>13. SizeOf(b, n + 1) <= FrameLimit
  <2>1. SizeOf(b, Len(found) + 1) = d.frame + Len(d.buffer)
    BY <1>1, LastSize DEF c
  <2> QED
    BY <1>1, <2>1
<1>14. \A k \in 1 .. n + 1 : SizeOf(b, k) <= FrameLimit
  <2>1. \A k \in 1 .. n + 1 : k \in 1 .. n \/ k = n + 1
    BY <1>2
  <2> QED
    BY <1>1, <1>13, <2>1
<1> QED
  BY <1>1, <1>12, <1>14 DEF s

\* More bytes change nothing of what was read.
LEMMA FedReads ==
  ASSUME NEW b, NEW d, NEW found, Reads(b, d, found), NEW chunk \in Seq(Bytes)
  PROVE  Reads(b \o chunk, Fed(d, chunk), found)
<1> DEFINE more == b \o chunk
           a == Fed(d, chunk)
           c == Taken(b, d)
           n == Events(b, c)
<1>1. /\ b \in Seq(Bytes) /\ Len(b) \in Nat /\ d \in Decoders /\ d.buffer \in Seq(Bytes)
      /\ d.scan \in Nat /\ Len(d.buffer) \in Nat /\ Len(chunk) \in Nat
      /\ Len(d.buffer) <= Len(b) /\ c = Len(b) - Len(d.buffer)
      /\ \A i \in 1 .. Len(d.buffer) : d.buffer[i] = b[c + i]
      /\ d.scan <= Len(d.buffer) /\ \A i \in 1 .. d.scan : d.buffer[i] \notin {CR, LF}
      /\ Boundary(b, c)
  BY DEF Reads, Holds, Decoders, Taken
<1>2. /\ more \in Seq(Bytes) /\ Len(more) = Len(b) + Len(chunk)
      /\ \A i \in 1 .. Len(b) : more[i] = b[i]
      /\ \A i \in 1 .. Len(chunk) : more[Len(b) + i] = chunk[i]
  <2>1. more \in Seq(Bytes) /\ Len(more) = Len(b) + Len(chunk)
    BY <1>1, ConcatProperties
  <2>2. \A i \in 1 .. Len(b) + Len(chunk) :
          more[i] = IF i <= Len(b) THEN b[i] ELSE chunk[i - Len(b)]
    BY <1>1, ConcatProperties
  <2>3. \A i \in 1 .. Len(b) : i \in 1 .. Len(b) + Len(chunk) /\ i <= Len(b)
    BY <1>1
  <2>4. \A i \in 1 .. Len(chunk) : /\ Len(b) + i \in 1 .. Len(b) + Len(chunk)
                                  /\ ~(Len(b) + i <= Len(b)) /\ (Len(b) + i) - Len(b) = i
    BY <1>1
  <2> QED
    BY <2>1, <2>2, <2>3, <2>4
<1>3. /\ a \in Decoders /\ a.buffer = d.buffer \o chunk
      /\ a.data = d.data /\ a.frame = d.frame /\ a.scan = d.scan
  <2>1. d.buffer \o chunk \in Seq(Bytes)
    BY <1>1
  <2> QED
    BY <1>1, <2>1 DEF Fed, Decoders
<1>4. /\ Len(a.buffer) = Len(d.buffer) + Len(chunk)
      /\ \A i \in 1 .. Len(d.buffer) + Len(chunk) :
           a.buffer[i] = IF i <= Len(d.buffer) THEN d.buffer[i] ELSE chunk[i - Len(d.buffer)]
  BY <1>1, <1>3, ConcatProperties
<1>5. Grown(b, more)
  BY <1>1, <1>2 DEF Grown
<1> HIDE DEF more, a, c, n
<1>6. Taken(more, a) = c
  BY <1>1, <1>2, <1>4 DEF Taken
<1>7. Holds(more, a)
  <2>1. \A i \in 1 .. Len(a.buffer) : a.buffer[i] = more[c + i]
    <3> SUFFICES ASSUME NEW i \in 1 .. Len(d.buffer) + Len(chunk) PROVE a.buffer[i] = more[c + i]
      BY <1>4
    <3>1. CASE i <= Len(d.buffer)
      <4>1. i \in 1 .. Len(d.buffer) /\ c + i \in 1 .. Len(b)
        BY <1>1, <3>1
      <4> QED
        BY <1>1, <1>2, <1>4, <3>1, <4>1
    <3>2. CASE ~(i <= Len(d.buffer))
      <4> DEFINE j == i - Len(d.buffer)
      <4>1. j \in 1 .. Len(chunk) /\ c + i = Len(b) + j
        BY <1>1, <3>2
      <4>2. a.buffer[i] = chunk[j]
        BY <1>4, <3>2
      <4> HIDE DEF j
      <4> QED
        BY <1>2, <4>1, <4>2
    <3> QED
      BY <3>1, <3>2
  <2>2. a.scan <= Len(a.buffer) /\ Len(a.buffer) <= Len(more)
    BY <1>1, <1>2, <1>3, <1>4
  <2>3. \A i \in 1 .. a.scan : a.buffer[i] \notin {CR, LF}
    <3> SUFFICES ASSUME NEW i \in 1 .. d.scan PROVE a.buffer[i] \notin {CR, LF}
      BY <1>3
    <3>1. i \in 1 .. Len(d.buffer) + Len(chunk) /\ i <= Len(d.buffer)
      BY <1>1
    <3> QED
      BY <1>1, <1>4, <3>1
  <2> QED
    BY <1>2, <1>3, <1>6, <2>1, <2>2, <2>3 DEF Holds
<1>8. /\ Boundary(more, c) /\ Events(more, c) = n /\ n \in Nat
      /\ EndOf(more, n) = EndOf(b, n)
      /\ \A k \in 1 .. n : SizeOf(more, k) = SizeOf(b, k) /\ EventsOf(more)[k] = EventsOf(b)[k]
  <2>1. n \in Nat /\ n \in 0 .. n
    BY <1>1, CountFacts, EventEndFacts DEF n
  <2> QED
    BY <1>1, <1>5, <2>1, GrownCount DEF n
<1>9. DataOf(more, LinesOf(more, c + 1)) = DataOf(b, LinesOf(b, c + 1))
  <2>1. c + 1 \in 1 .. Len(b) + 1
    <3>1. c \in 0 .. Len(b) /\ Len(b) \in Nat
      BY <1>1, BoundaryFacts
    <3> QED
      BY <3>1
  <2>2. LinesOf(more, c + 1) = LinesOf(b, c + 1)
    BY <1>5, <2>1, GrownEvents
  <2>3. LinesOf(b, c + 1) \subseteq LineEnds(b)
    BY DEF LinesOf
  <2> QED
    BY <1>5, <2>2, <2>3, GrownData
<1>10. /\ found \in Seq(Seq(Seq(Bytes))) /\ Len(found) = n
       /\ \A k \in 1 .. n : found[k] = EventsOf(b)[k] /\ SizeOf(b, k) <= FrameLimit
       /\ d.frame = c - EndOf(b, n) /\ d.frame <= FrameLimit
       /\ d.data = DataOf(b, LinesOf(b, c + 1))
  BY DEF Reads, c, n
<1>11. Reads(more, a, found)
  BY <1>3, <1>6, <1>7, <1>8, <1>9, <1>10 DEF Reads
<1> QED
  BY <1>11 DEF more, a

LEMMA StartReads ==
  Reads(<<>>, NewDecoder, <<>>) /\ Quiet(<<>>, NewDecoder)
<1> DEFINE b == <<>>
           d == NewDecoder
<1>1. b \in Seq(Bytes) /\ Len(b) = 0
  OBVIOUS
<1>2. /\ d \in Decoders /\ d.buffer = <<>> /\ d.scan = 0 /\ d.data = <<>> /\ d.frame = 0
  BY DEF NewDecoder, Decoders
<1>3. Taken(b, d) = 0
  BY <1>1, <1>2 DEF Taken
<1>4. LineEnds(b) = {}
  BY <1>1 DEF LineEnds
<1>5. EventEnds(b) = {} /\ UpTo(EventEnds(b), 0) = {} /\ LinesOf(b, 0 + 1) = {}
  BY <1>4 DEF EventEnds, UpTo, LinesOf
<1>6. Events(b, 0) = 0
  BY <1>5, FS_EmptySet DEF Events
<1>7. Holds(b, d)
  <2>1. \A i \in 1 .. Len(d.buffer) : FALSE
    BY <1>1, <1>2
  <2>2. \A i \in 1 .. d.scan : FALSE
    BY <1>2
  <2>3. Len(d.buffer) <= Len(b) /\ d.scan <= Len(d.buffer)
    BY <1>1, <1>2
  <2> QED
    BY <1>1, <1>2, <2>1, <2>2, <2>3 DEF Holds
<1>8. Boundary(b, 0)
  BY DEF Boundary
<1>9. DataOf(b, LinesOf(b, 0 + 1)) = <<>>
  BY <1>1, <1>4, <1>5, DataFacts
<1>10. EndOf(b, 0) = 0
  BY DEF EndOf
<1>11. FrameLimit \in Nat
  BY SseDecoderAssumption DEF SseDecoderAssumption
<1> DEFINE none == <<>>
<1>12. none \in Seq(Seq(Seq(Bytes))) /\ Len(none) = 0 /\ \A k \in 1 .. 0 : FALSE
  OBVIOUS
<1> HIDE DEF b, d, none
<1>13. d.frame = 0 - EndOf(b, 0) /\ d.frame <= FrameLimit
  BY <1>2, <1>10, <1>11
<1>14. Reads(b, d, none)
  BY <1>2, <1>3, <1>6, <1>7, <1>8, <1>9, <1>12, <1>13 DEF Reads
<1>15. Quiet(b, d)
  <2>1. d.frame + Len(d.buffer) <= FrameLimit
    BY <1>1, <1>2, <1>11 DEF b
  <2> QED
    BY <1>4, <2>1 DEF Quiet
<1> QED
  BY <1>14, <1>15 DEF b, d, none
-------------------------------------------------------------------------------
(* The stdio client.                                                        *)

USE StdioMuxAssumption DEF StdioMuxAssumption, Requests, Procs

Labels == {"new", "wait", "spawn", "write", "get", "notify", "cancel", "gather", "reap",
           "done", "dropped"}

\* The labels of a request whose line has been written and that has had no end yet.
InFlight == {"write", "get", "notify"}

\* It is yet to be written, maybe after a restart.
Early(r) == pc[r] \in {"new", "wait", "spawn"} \/ next[r] = "spawn"

LastKind(q) == q[Len(q)].kind

Typed ==
  /\ process \in 0 .. MaxProcs
  /\ child \in [Procs -> {"none", "up", "gone", "exited"}]
  /\ reaping \subseteq Procs
  /\ asked \subseteq Requests /\ pending \subseteq Requests
  /\ ordLock \in Ordinary \cup {Nobody} /\ lock \in Requests \cup {Nobody}
  /\ pc \in [Requests -> Labels]
  /\ wire \in [Requests -> 0 .. MaxProcs]
  /\ queue \in [Requests -> Seq(Items)]
  /\ completed \in [Requests -> BOOLEAN]
  /\ next \in [Requests -> {"none", "spawn", "check", "leave"}]
  /\ closing \in [Requests -> 0 .. MaxProcs]

\* An answer is the last line of its queue and marks the request as completed, which
\* the child has then done with; an error comes only after the request was failed.
QueueOK ==
  \A r \in Requests :
    /\ \A i \in 1 .. Len(queue[r]) :
         /\ queue[r][i].kind = "note" => queue[r][i].of \in Requests
         /\ queue[r][i].kind = "answer" => completed[r] /\ i = Len(queue[r])
         /\ r \in pending => queue[r][i].kind # "error"
    /\ completed[r] => r \notin asked
    /\ completed[r] /\ r \in pending => queue[r] # <<>> /\ LastKind(queue[r]) = "answer"
    /\ Early(r) => ~completed[r] /\ queue[r] = <<>>

\* A pending request is one in flight on the process that is read; one in flight that is not
\* pending any more has the end in its queue, and the child does not know of it.
FlightOK ==
  /\ pending # {} \/ asked # {} => process # 0
  /\ \A r \in pending : pc[r] \in InFlight /\ wire[r] = process
  /\ \A r \in Requests :
       pc[r] \in InFlight /\ r \notin pending =>
         r \notin asked /\ queue[r] # <<>> /\ LastKind(queue[r]) \in {"answer", "error"}

\* Who starts a process or writes to it has the lock, and there is none while it starts.
LockOK ==
  /\ \A r \in Requests :
       /\ pc[r] \in {"spawn", "write"} \/ next[r] = "spawn" => lock = r
       /\ pc[r] = "spawn" \/ next[r] = "spawn" => process = 0
       /\ next[r] # "none" => pc[r] \in {"spawn", "gather", "reap"}
  /\ \A r \in Ordinary : pc[r] \notin {"new", "done", "dropped"} => ordLock = r

\* A process is in the hands of a close for one await; a restart closes a dead one.
CloseOK ==
  \A r \in Requests : closing[r] # 0 =>
    /\ pc[r] = "gather"
    /\ next[r] = "spawn" => child[closing[r]] = "exited"

\* The child knows an ordinary request only as long as that keeps the others out.
AskedOK ==
  \A r \in asked :
    /\ pc[r] \notin {"new", "wait", "spawn", "gather", "reap"}
    /\ r \in Ordinary => ordLock = r \/ pc[r] = "dropped"

IInv == /\ Typed /\ QueueOK /\ FlightOK /\ LockOK /\ CloseOK /\ AskedOK
        /\ NotesToOwner /\ NoOrphan
-------------------------------------------------------------------------------
(* The task of a request ends.                                              *)
LEMMA EndStep ==
  ASSUME IInv, NEW r \in Requests, NEW how \in {"done", "dropped"}, End(r, how),
         UNCHANGED client, pending' = pending \ {r}, pc[r] # "dropped",
         how = "done" => (r \in Ordinary => r \notin asked),
         how = "done" => closing[r] = 0 \/ next[r] = "spawn",
         pc[r] # "new"
  PROVE  IInv'
<1> USE DEF IInv, client, Labels
<1>1. Typed'
  BY DEF Typed, End, Goto
<1>2. QueueOK'
  BY DEF Typed, QueueOK, End, Goto, Early, LastKind
<1>3. FlightOK'
  BY DEF Typed, FlightOK, End, Goto, InFlight, LastKind
<1>4. LockOK'
  BY DEF Typed, LockOK, End, Goto
<1>5. CloseOK'
  BY DEF Typed, CloseOK, End, Goto
<1>6. AskedOK'
  BY DEF Typed, AskedOK, End, Goto
<1>7. NotesToOwner'
  BY DEF Typed, QueueOK, NotesToOwner, End, Goto
<1>8. NoOrphan'
  <2> SUFFICES ASSUME NEW n \in Procs, child'[n] = "up", n # process', n \notin reaping'
               PROVE  \E q \in Requests : closing'[q] = n \/ pc'[q] = "dropped"
    BY DEF NoOrphan
  <2>1. PICK q \in Requests : closing[q] = n \/ pc[q] = "dropped"
    BY DEF NoOrphan
  <2>2. CASE q = r
    <3>1. closing[r] = n
      BY <2>1, <2>2
    <3>2. n # 0 /\ child[n] # "exited"
      <4>1. child' = child
        OBVIOUS
      <4>2. QED
        BY <4>1
    <3>3. next[r] # "spawn" /\ closing[r] # 0
      BY <3>1, <3>2 DEF CloseOK
    <3>4. how = "dropped"
      BY <3>3
    <3>5. QED
      BY <3>4 DEF Typed, End, Goto
  <2>3. CASE q # r
    BY <2>1, <2>3 DEF Typed, End, Goto
  <2>4. QED
    BY <2>2, <2>3
<1>9. QED
  BY <1>1, <1>2, <1>3, <1>4, <1>5, <1>6, <1>7, <1>8

\* Request r, that is in flight, is cut off and tells the child.
LEMMA CancelStep ==
  ASSUME IInv, NEW r \in Requests, pc[r] \in InFlight,
         UNCHANGED client, pending' = pending \ {r}, r \in pending, Goto(r, "cancel"),
         lock' = IF lock = r THEN Nobody ELSE lock,
         queue' = [queue EXCEPT ![r] = <<>>],
         UNCHANGED <<ordLock, wire, completed, next, closing>>
  PROVE  IInv'
<1> USE DEF IInv, client, Labels, InFlight
<1>1. Typed'
  BY DEF Typed, Goto
<1>2. QueueOK'
  BY DEF Typed, QueueOK, Goto, Early, LastKind
<1>3. FlightOK'
  BY DEF Typed, FlightOK, Goto, LastKind
<1>4. LockOK'
  BY DEF Typed, LockOK, Goto
<1>5. CloseOK'
  BY DEF Typed, CloseOK, Goto
<1>6. AskedOK'
  BY DEF Typed, AskedOK, LockOK, Goto
<1>7. NotesToOwner'
  BY DEF Typed, QueueOK, NotesToOwner, Goto
<1>8. NoOrphan'
  BY DEF Typed, NoOrphan, Goto
<1>9. QED
  BY <1>1, <1>2, <1>3, <1>4, <1>5, <1>6, <1>7, <1>8

\* What a close leaves in the queues.
LEMMA FailedQueue ==
  /\ <<Failed>> \in Seq(Items) /\ Len(<<Failed>>) = 1 /\ <<Failed>> # <<>>
  /\ <<Failed>>[1].kind = "error"
<1>1. Failed \in Items /\ Failed.kind = "error"
  BY DEF Failed, Items
<1>2. QED
  BY <1>1

LEMMA QueuesAfterClose ==
  ASSUME Typed, NEW keep \in BOOLEAN, FailPending(keep)
  PROVE  /\ queue' \in [Requests -> Seq(Items)]
         /\ \A r \in Requests :
              \/ queue'[r] = <<Failed>> /\ r \in pending
              \/ queue'[r] = queue[r] /\ (r \in pending => completed[r] /\ keep)
  BY FailedQueue DEF FailPending, Typed

\* A request closes the process.
LEMMA AcloseStep ==
  ASSUME IInv, NEW r \in Requests, NEW then \in {"spawn", "check", "leave"},
         Aclose(r, then), pc[r] \in {"wait", "cancel", "reap"}, lock' \in Requests \cup {Nobody},
         IF then = "spawn"
         THEN pc[r] = "wait" /\ child[process] = "exited" /\ lock = Nobody /\ lock' = r
         ELSE pc[r] # "wait" /\ next[r] # "spawn" /\ lock' = lock
  PROVE  IInv'
<1> USE DEF IInv, client, Labels, InFlight
<1>0. FailPending(FALSE)
  BY DEF Aclose
<1>1. Typed'
  <2>1. queue' \in [Requests -> Seq(Items)]
    BY <1>0, QueuesAfterClose
  <2>2. pc' \in [Requests -> Labels] /\ next' \in [Requests -> {"none", "spawn", "check", "leave"}]
    BY DEF Typed, Aclose, Goto
  <2>3. closing' \in [Requests -> 0 .. MaxProcs]
    BY DEF Typed, Aclose
  <2>4. process' = 0 /\ asked' = {} /\ pending' = {}
    BY DEF Aclose, FailPending
  <2>5. UNCHANGED <<child, reaping, ordLock, wire, completed>>
    BY DEF Aclose
  <2>6. process' \in 0 .. MaxProcs /\ asked' \subseteq Requests /\ pending' \subseteq Requests
    BY <2>4
  <2>7. /\ child' \in [Procs -> {"none", "up", "gone", "exited"}] /\ reaping' \subseteq Procs
        /\ ordLock' \in Ordinary \cup {Nobody}
        /\ wire' \in [Requests -> 0 .. MaxProcs] /\ completed' \in [Requests -> BOOLEAN]
    BY <2>5 DEF Typed
  <2>8. QED
    BY <2>1, <2>2, <2>3, <2>6, <2>7 DEF Typed
<1>2. QueueOK'
  <2> SUFFICES ASSUME NEW q \in Requests
               PROVE  QueueOK!(q)'
    BY DEF QueueOK
  <2>1. pending' = {} /\ asked' = {} /\ completed' = completed
    BY DEF Aclose, FailPending
  <2>2. CASE queue'[q] = <<Failed>> /\ q \in pending
    <3>1. Len(queue'[q]) = 1 /\ \A i \in 1 .. Len(queue'[q]) : queue'[q][i].kind = "error"
      BY <2>2, FailedQueue
    <3>2. ~Early(q)'
      BY <2>2 DEF Typed, Aclose, Goto, Early, FlightOK, LockOK
    <3>3. QED
      BY <2>1, <3>1, <3>2
  <2>3. CASE queue'[q] = queue[q]
    BY <2>1, <2>3 DEF Typed, QueueOK, Aclose, Goto, Early
  <2>4. QED
    BY <1>0, <2>2, <2>3, QueuesAfterClose
<1>3. FlightOK'
  <2>1. pending' = {} /\ asked' = {} /\ pc' = [pc EXCEPT ![r] = "gather"]
    BY DEF Aclose, FailPending, Goto
  <2> SUFFICES ASSUME NEW q \in Requests, pc'[q] \in InFlight
               PROVE  queue'[q] # <<>> /\ LastKind(queue'[q]) \in {"answer", "error"}
    BY <2>1 DEF FlightOK, LastKind
  <2>2. pc[q] \in InFlight
    BY <2>1 DEF Typed
  <2>3. CASE queue'[q] = <<Failed>>
    BY <2>3, FailedQueue DEF LastKind
  <2>4. CASE queue'[q] = queue[q] /\ q \notin pending
    BY <2>2, <2>4 DEF FlightOK, LastKind
  <2>5. QED
    BY <1>0, <2>3, <2>4, QueuesAfterClose
<1>4. LockOK'
  <2>1. /\ process' = 0 /\ ordLock' = ordLock
        /\ pc' = [pc EXCEPT ![r] = "gather"] /\ next' = [next EXCEPT ![r] = then]
    BY DEF Aclose, FailPending, Goto
  <2>2. ASSUME NEW q \in Requests
        PROVE  /\ pc'[q] \in {"spawn", "write"} \/ next'[q] = "spawn" => lock' = q
               /\ next'[q] # "none" => pc'[q] \in {"spawn", "gather", "reap"}
    BY <2>1 DEF Typed, LockOK
  <2>3. \A q \in Ordinary : pc'[q] \notin {"new", "done", "dropped"} => ordLock' = q
    BY <2>1 DEF Typed, LockOK
  <2>4. QED
    BY <2>1, <2>2, <2>3 DEF LockOK
<1>5. CloseOK'
  BY DEF Typed, CloseOK, Aclose, FailPending, Goto
<1>6. AskedOK'
  BY DEF Typed, AskedOK, Aclose, FailPending, Goto
<1>7. NotesToOwner'
  <2> SUFFICES ASSUME NEW q \in Requests, NEW i \in 1 .. Len(queue'[q]),
                      queue'[q][i].kind = "note", queue'[q][i].of # q
               PROVE  pc'[queue'[q][i].of] = "dropped"
    BY DEF NotesToOwner
  <2>1. queue'[q] = queue[q]
    <3>1. CASE queue'[q] = <<Failed>>
      <4>1. i = 1
        BY <3>1, FailedQueue
      <4>2. QED
        BY <3>1, <4>1, FailedQueue
    <3>2. QED
      BY <1>0, <3>1, QueuesAfterClose
  <2>2. pc[queue[q][i].of] = "dropped" /\ queue[q][i].of \in Requests
    BY <2>1 DEF NotesToOwner, QueueOK
  <2>3. QED
    BY <2>1, <2>2 DEF Typed, Aclose, Goto
<1>8. NoOrphan'
  BY DEF Typed, NoOrphan, CloseOK, Aclose, FailPending, Goto
<1>9. QED
  BY <1>1, <1>2, <1>3, <1>4, <1>5, <1>6, <1>7, <1>8

\* The reader closes the process.
LEMMA ReaderClosesStep ==
  ASSUME IInv, NEW keep \in BOOLEAN, process # 0, ReaderCloses(keep)
  PROVE  IInv'
<1> USE DEF IInv, client, tasks, Labels, InFlight
<1>0. FailPending(keep)
  BY DEF ReaderCloses
<1>1. Typed'
  BY <1>0, QueuesAfterClose DEF Typed, ReaderCloses, FailPending
<1>2. QueueOK'
  <2> SUFFICES ASSUME NEW q \in Requests
               PROVE  QueueOK!(q)'
    BY DEF QueueOK
  <2>1. pending' = {} /\ asked' = {} /\ completed' = completed
    BY DEF ReaderCloses, FailPending
  <2>2. CASE queue'[q] = <<Failed>> /\ q \in pending
    <3>1. Len(queue'[q]) = 1 /\ \A i \in 1 .. Len(queue'[q]) : queue'[q][i].kind = "error"
      BY <2>2, FailedQueue
    <3>2. ~Early(q)'
      BY <2>2 DEF Typed, ReaderCloses, Early, FlightOK, LockOK
    <3>3. QED
      BY <2>1, <3>1, <3>2
  <2>3. CASE queue'[q] = queue[q]
    BY <2>1, <2>3 DEF Typed, QueueOK, ReaderCloses, Early
  <2>4. QED
    BY <1>0, <2>2, <2>3, QueuesAfterClose
<1>3. FlightOK'
  <2>1. pending' = {} /\ asked' = {} /\ pc' = pc
    BY DEF ReaderCloses, FailPending
  <2> SUFFICES ASSUME NEW q \in Requests, pc[q] \in InFlight
               PROVE  queue'[q] # <<>> /\ LastKind(queue'[q]) \in {"answer", "error"}
    BY <2>1 DEF FlightOK, LastKind
  <2>2. CASE queue'[q] = <<Failed>>
    BY <2>2, FailedQueue DEF LastKind
  <2>3. CASE queue'[q] = queue[q] /\ q \notin pending
    BY <2>3 DEF FlightOK, LastKind
  <2>4. CASE queue'[q] = queue[q] /\ q \in pending /\ completed[q]
    BY <2>4 DEF QueueOK, LastKind
  <2>5. QED
    BY <1>0, <2>2, <2>3, <2>4, QueuesAfterClose
<1>4. LockOK'
  BY DEF Typed, LockOK, ReaderCloses, FailPending
<1>5. CloseOK'
  BY DEF Typed, CloseOK, ReaderCloses, FailPending
<1>6. AskedOK'
  BY DEF Typed, AskedOK, ReaderCloses, FailPending
<1>7. NotesToOwner'
  <2> SUFFICES ASSUME NEW q \in Requests, NEW i \in 1 .. Len(queue'[q]),
                      queue'[q][i].kind = "note", queue'[q][i].of # q
               PROVE  pc'[queue'[q][i].of] = "dropped"
    BY DEF NotesToOwner
  <2>1. queue'[q] = queue[q]
    <3>1. CASE queue'[q] = <<Failed>>
      <4>1. i = 1
        BY <3>1, FailedQueue
      <4>2. QED
        BY <3>1, <4>1, FailedQueue
    <3>2. QED
      BY <1>0, <3>1, QueuesAfterClose
  <2>2. pc[queue[q][i].of] = "dropped" /\ queue[q][i].of \in Requests
    BY <2>1 DEF NotesToOwner, QueueOK
  <2>3. QED
    BY <2>1, <2>2 DEF Typed, ReaderCloses
<1>8. NoOrphan'
  BY DEF Typed, NoOrphan, ReaderCloses, FailPending
<1>9. QED
  BY <1>1, <1>2, <1>3, <1>4, <1>5, <1>6, <1>7, <1>8

\* A line is queued for a pending request.
LEMMA RouteStep ==
  ASSUME IInv, NEW q \in Requests, NEW item \in Items, q \in pending, ~completed[q],
         item.kind \in {"note", "answer"}, item.of \in Requests,
         item.kind = "note" => item.of = q \/ pc[item.of] = "dropped",
         ~Full(q), Route(q, item)
  PROVE  IInv'
<1> USE DEF IInv, tasks, Labels, InFlight
<1>0. /\ queue' = [queue EXCEPT ![q] = Append(queue[q], item)]
      /\ completed' = [completed EXCEPT ![q] = @ \/ item.kind = "answer"]
      /\ asked' = IF item.kind = "answer" THEN asked \ {q} ELSE asked
      /\ UNCHANGED <<process, child, reaping, pending, ordLock, lock, tasks>>
  BY DEF Route
<1>s. queue[q] \in Seq(Items) /\ queue'[q] = Append(queue[q], item)
  BY <1>0 DEF Typed
<1>a. /\ Len(queue'[q]) = Len(queue[q]) + 1 /\ queue'[q][Len(queue[q]) + 1] = item
      /\ \A i \in 1 .. Len(queue[q]) : queue'[q][i] = queue[q][i]
      /\ Len(queue[q]) \in Nat /\ queue'[q] # <<>> /\ queue'[q] \in Seq(Items)
  BY <1>s
<1>b. \A p \in Requests : p # q => queue'[p] = queue[p]
  BY <1>0 DEF Typed
<1>1. Typed'
  <2>1. queue' \in [Requests -> Seq(Items)]
    BY <1>0, <1>a DEF Typed
  <2>2. completed' \in [Requests -> BOOLEAN] /\ asked' \subseteq Requests
    BY <1>0 DEF Typed
  <2>3. QED
    BY <1>0, <2>1, <2>2 DEF Typed
<1>2. QueueOK'
  <2> SUFFICES ASSUME NEW p \in Requests
               PROVE  QueueOK!(p)'
    BY DEF QueueOK
  <2>1. CASE p # q
    <3>1. /\ queue'[p] = queue[p] /\ completed'[p] = completed[p]
          /\ asked' \subseteq asked /\ pending' = pending /\ Early(p)' = Early(p)
      BY <1>0, <1>b, <2>1 DEF Typed, Early
    <3>2. QueueOK!(p)
      BY DEF QueueOK
    <3>3. QED
      BY <3>1, <3>2 DEF LastKind
  <2>2. CASE p = q
    <3>1. ~Early(q)
      BY DEF FlightOK, LockOK, Early
    <3>2. \A i \in 1 .. Len(queue[q]) : queue[q][i].kind = "note" /\ queue[q][i].of \in Requests
      <4>1. \A i \in 1 .. Len(queue[q]) : queue[q][i] \in Items
        BY <1>s
      <4>2. QED
        BY <4>1 DEF QueueOK, Items
    <3>3. \A i \in 1 .. Len(queue'[q]) : i = Len(queue[q]) + 1 \/ i \in 1 .. Len(queue[q])
      BY <1>a
    <3>4. QED
      <4>1. pending' = pending /\ completed' \in [Requests -> BOOLEAN]
            /\ (completed'[q] <=> item.kind = "answer")
        BY <1>0 DEF Typed
      <4>2. ~Early(q)'
        BY <1>0, <3>1 DEF Early
      <4>3. completed'[q] => q \notin asked' /\ LastKind(queue'[q]) = "answer"
        BY <1>0, <1>a, <4>1 DEF LastKind
      <4>4. ASSUME NEW i \in 1 .. Len(queue'[q])
            PROVE  /\ queue'[q][i].kind = "note" => queue'[q][i].of \in Requests
                   /\ queue'[q][i].kind = "answer" => completed'[q] /\ i = Len(queue'[q])
                   /\ queue'[q][i].kind # "error"
        <5>1. CASE i \in 1 .. Len(queue[q])
          BY <1>a, <3>2, <5>1
        <5>2. CASE i = Len(queue[q]) + 1
          BY <1>a, <4>1, <5>2
        <5>3. QED
          BY <3>3, <5>1, <5>2
      <4>5. QED
        BY <1>a, <2>2, <4>2, <4>3, <4>4
  <2>3. QED
    BY <2>1, <2>2
<1>3. FlightOK'
  BY <1>0, <1>b DEF Typed, FlightOK, LastKind
<1>4. LockOK'
  BY <1>0 DEF Typed, LockOK
<1>5. CloseOK'
  BY <1>0 DEF Typed, CloseOK
<1>6. AskedOK'
  BY <1>0 DEF Typed, AskedOK
<1>7. NotesToOwner'
  <2> SUFFICES ASSUME NEW p \in Requests, NEW i \in 1 .. Len(queue'[p]),
                      queue'[p][i].kind = "note", queue'[p][i].of # p
               PROVE  pc'[queue'[p][i].of] = "dropped"
    BY DEF NotesToOwner
  <2>1. CASE p = q /\ i = Len(queue[q]) + 1
    BY <1>0, <1>a, <2>1
  <2>2. CASE p = q /\ i \in 1 .. Len(queue[q])
    BY <1>0, <1>a, <2>2 DEF NotesToOwner
  <2>3. CASE p # q
    BY <1>0, <1>b, <2>3 DEF NotesToOwner
  <2>4. QED
    BY <1>a, <2>1, <2>2, <2>3
<1>8. NoOrphan'
  BY <1>0 DEF NoOrphan
<1>9. QED
  BY <1>1, <1>2, <1>3, <1>4, <1>5, <1>6, <1>7, <1>8

\* A request is written to process n, that runs already or has just been started.
LEMMA RegisterStep ==
  ASSUME IInv, NEW r \in Requests, NEW n \in Procs, Register(r, n),
         \/ pc[r] = "wait" /\ process = n /\ lock = Nobody /\ UNCHANGED <<child, next>>
         \/ /\ pc[r] = "spawn" /\ process = 0 /\ lock = r
            /\ child[n] = "none" /\ child' = [child EXCEPT ![n] = "up"]
            /\ next' = [next EXCEPT ![r] = "none"],
         lock' = r,
         UNCHANGED <<reaping, queue, completed, ordLock, closing>>
  PROVE  IInv'
<1> USE DEF IInv, Labels, InFlight
<1>0. /\ process' = n /\ n # 0
      /\ process = n \/ process = 0
      /\ pending' = pending \cup {r}
      /\ wire' = [wire EXCEPT ![r] = n]
      /\ asked' \in {asked, asked \cup {r}}
      /\ pc' = [pc EXCEPT ![r] = "write"]
  BY DEF Register, Goto, Typed
<1>a. next' = [next EXCEPT ![r] = "none"]
  <2>1. CASE pc[r] = "wait"
    BY <2>1 DEF LockOK, Typed
  <2>2. CASE pc[r] = "spawn"
    BY <2>2
  <2>3. QED
    BY <2>1, <2>2
<1>b. \A p \in Requests : p # r => pc[p] \notin {"spawn", "write"} /\ next[p] # "spawn"
  BY DEF LockOK
<1>c. \A m \in Procs : child'[m] # child[m] => m = n /\ child[n] = "none"
  BY DEF Typed
<1>1. Typed'
  <2>1. child' \in [Procs -> {"none", "up", "gone", "exited"}]
    BY DEF Typed
  <2>2. asked' \subseteq Requests /\ pending' \subseteq Requests
    BY <1>0 DEF Typed
  <2>3. /\ pc' \in [Requests -> Labels]
        /\ next' \in [Requests -> {"none", "spawn", "check", "leave"}]
        /\ wire' \in [Requests -> 0 .. MaxProcs] /\ process' \in 0 .. MaxProcs
    BY <1>0, <1>a DEF Typed
  <2>4. QED
    BY <2>1, <2>2, <2>3 DEF Typed
<1>2. QueueOK'
  BY <1>0, <1>a, <1>b DEF Typed, QueueOK, Early, LastKind
<1>3. FlightOK'
  BY <1>0 DEF Typed, FlightOK, LastKind
<1>4. LockOK'
  BY <1>0, <1>a, <1>b DEF Typed, LockOK
<1>5. CloseOK'
  BY <1>0, <1>a, <1>c DEF Typed, CloseOK
<1>6. AskedOK'
  <2>1. pc[r] \in {"wait", "spawn"} /\ pc'[r] = "write"
    BY <1>0 DEF Typed
  <2>2. r \in Ordinary => ordLock' = r
    BY <2>1 DEF LockOK
  <2>3. \A p \in Requests : p # r => pc'[p] = pc[p]
    BY <1>0 DEF Typed
  <2>4. asked' \subseteq asked \cup {r} /\ asked' \subseteq Requests
    BY <1>0 DEF Typed
  <2>5. QED
    BY <2>1, <2>2, <2>3, <2>4 DEF AskedOK
<1>7. NotesToOwner'
  BY <1>0 DEF Typed, QueueOK, NotesToOwner
<1>8. NoOrphan'
  <2> SUFFICES ASSUME NEW m \in Procs, child'[m] = "up", m # process'
               PROVE  \/ m \in reaping'
                      \/ \E p \in Requests : closing'[p] = m \/ pc'[p] = "dropped"
    BY DEF NoOrphan
  <2>1. child[m] = "up" /\ m # process
    BY <1>0, <1>c
  <2>2. \A p \in Requests : pc[p] = "dropped" => pc'[p] = "dropped"
    BY <1>0 DEF Typed
  <2>3. QED
    BY <2>1, <2>2 DEF NoOrphan
<1>9. QED
  BY <1>1, <1>2, <1>3, <1>4, <1>5, <1>6, <1>7, <1>8

\* A request goes from one of its awaits to another, and only it changes.
LEMMA MoveStep ==
  ASSUME IInv, NEW r \in Requests, NEW to \in Labels, Goto(r, to),
         UNCHANGED <<process, child, asked, pending, queue, completed, wire, next>>,
         \/ to = "wait" /\ pc[r] = "new" /\ UNCHANGED <<lock, reaping, closing>>
            /\ IF r \in Ordinary THEN ordLock = Nobody /\ ordLock' = r ELSE UNCHANGED ordLock
         \/ to = "spawn" /\ pc[r] = "wait" /\ process = 0 /\ lock = Nobody /\ lock' = r
            /\ UNCHANGED <<ordLock, reaping, closing>>
         \/ to = "spawn" /\ pc[r] = "reap" /\ next[r] = "spawn"
            /\ UNCHANGED <<lock, ordLock, reaping, closing>>
         \/ to = "get" /\ pc[r] = "write" /\ lock' = Nobody
            /\ UNCHANGED <<ordLock, reaping, closing>>
         \/ to = "get" /\ pc[r] = "notify" /\ UNCHANGED <<lock, ordLock, reaping, closing>>
         \/ to = "reap" /\ pc[r] = "gather" /\ UNCHANGED <<lock, ordLock>>
            /\ reaping' = reaping \cup ({closing[r]} \ {0})
            /\ closing' = [closing EXCEPT ![r] = 0]
  PROVE  IInv'
<1> USE DEF IInv, Labels, InFlight
<1>0. pc' = [pc EXCEPT ![r] = to]
  BY DEF Goto
<1>1. Typed'
  <2>1. ordLock' \in Ordinary \cup {Nobody} /\ lock' \in Requests \cup {Nobody}
    BY DEF Typed
  <2>2. reaping' \subseteq Procs /\ closing' \in [Requests -> 0 .. MaxProcs]
    <3>1. {closing[r]} \ {0} \subseteq Procs
      BY DEF Typed
    <3>2. \/ UNCHANGED <<reaping, closing>>
          \/ /\ reaping' = reaping \cup ({closing[r]} \ {0})
             /\ closing' = [closing EXCEPT ![r] = 0]
      OBVIOUS
    <3>3. reaping' \subseteq Procs
      BY <3>1, <3>2 DEF Typed
    <3>4. closing' \in [Requests -> 0 .. MaxProcs]
      <4>1. closing \in [Requests -> 0 .. MaxProcs] /\ 0 \in 0 .. MaxProcs
        BY DEF Typed
      <4>2. CASE closing' = closing
        BY <4>1, <4>2
      <4>3. CASE closing' = [closing EXCEPT ![r] = 0]
        BY <4>1, <4>3
      <4>4. QED
        BY <3>2, <4>2, <4>3
    <3>5. QED
      BY <3>3, <3>4
  <2>3. QED
    BY <1>0, <2>1, <2>2 DEF Typed
<1>2. QueueOK'
  BY <1>0 DEF Typed, QueueOK, Early, LastKind, LockOK
<1>3. FlightOK'
  BY <1>0 DEF Typed, FlightOK, LastKind
<1>4. LockOK'
  BY <1>0 DEF Typed, LockOK
<1>5. CloseOK'
  BY <1>0 DEF Typed, CloseOK
<1>6. AskedOK'
  BY <1>0 DEF Typed, AskedOK, LockOK
<1>7. NotesToOwner'
  <2>1. \A q \in Requests : pc[q] = "dropped" => pc'[q] = "dropped"
    BY <1>0 DEF Typed
  <2>2. \A q \in Requests : \A i \in 1 .. Len(queue[q]) :
          queue[q][i].kind = "note" => queue[q][i].of \in Requests
    BY DEF QueueOK
  <2>3. QED
    BY <2>1, <2>2 DEF NotesToOwner
<1>8. NoOrphan'
  <2> SUFFICES ASSUME NEW n \in Procs, child[n] = "up", n # process, n \notin reaping'
               PROVE  \E q \in Requests : closing'[q] = n \/ pc'[q] = "dropped"
    BY DEF NoOrphan
  <2>1. PICK q \in Requests : closing[q] = n \/ pc[q] = "dropped"
    BY DEF NoOrphan
  <2>2. pc[q] = "dropped" => pc'[q] = "dropped"
    BY <1>0 DEF Typed
  <2>3. closing[q] = n => closing'[q] = n
    BY DEF Typed
  <2>4. QED
    BY <2>1, <2>2, <2>3
<1>9. QED
  BY <1>1, <1>2, <1>3, <1>4, <1>5, <1>6, <1>7, <1>8

\* A request takes a notification from its queue.
LEMMA TakeNoteStep ==
  ASSUME IInv, NEW r \in Requests, TakeNote(r)
  PROVE  IInv'
<1> USE DEF IInv, client, Labels, InFlight
<1>0. /\ pc[r] = "get" /\ pc' = [pc EXCEPT ![r] = "notify"]
      /\ queue' = [queue EXCEPT ![r] = Tail(queue[r])]
      /\ queue[r] # <<>> /\ Head(queue[r]).kind = "note"
      /\ UNCHANGED <<client, pending, completed, ordLock, lock, wire, next, closing>>
  BY DEF TakeNote, Take, Goto
<1>s. queue[r] \in Seq(Items) /\ queue'[r] = Tail(queue[r])
  BY <1>0 DEF Typed
<1>a. /\ Len(queue[r]) \in Nat \ {0} /\ Len(queue'[r]) = Len(queue[r]) - 1
      /\ \A i \in 1 .. Len(queue'[r]) : queue'[r][i] = queue[r][i + 1]
      /\ queue'[r] \in Seq(Items) /\ queue[r][1].kind = "note"
  <2>1. queue[r] # <<>> /\ Head(queue[r]) = queue[r][1]
    BY <1>0, <1>s
  <2>2. Len(queue[r]) \in Nat \ {0}
    BY <1>s, <2>1
  <2>3. Len(queue'[r]) = Len(queue[r]) - 1 /\ queue'[r] \in Seq(Items)
    BY <1>s, <2>1, <2>2
  <2>4. \A i \in 1 .. Len(queue'[r]) : queue'[r][i] = queue[r][i + 1]
    BY <1>s, <2>1, <2>2, <2>3
  <2>5. QED
    BY <1>0, <2>1, <2>2, <2>3, <2>4
<1>b. \A p \in Requests : p # r => queue'[p] = queue[p]
  BY <1>0 DEF Typed
<1>c. LastKind(queue[r]) # "note" => queue'[r] # <<>> /\ LastKind(queue'[r]) = LastKind(queue[r])
  BY <1>a DEF LastKind
<1>1. Typed'
  <2>1. queue' \in [Requests -> Seq(Items)]
    BY <1>0, <1>a DEF Typed
  <2>2. QED
    BY <1>0, <2>1 DEF Typed
<1>2. QueueOK'
  <2> SUFFICES ASSUME NEW p \in Requests
               PROVE  QueueOK!(p)'
    BY DEF QueueOK
  <2>1. CASE p # r
    <3>1. /\ queue'[p] = queue[p] /\ completed'[p] = completed[p]
          /\ asked' \subseteq asked /\ pending' = pending /\ Early(p)' = Early(p)
      BY <1>0, <1>b, <2>1 DEF Typed, Early
    <3>2. QueueOK!(p)
      BY DEF QueueOK
    <3>3. QED
      BY <3>1, <3>2 DEF LastKind
  <2>2. CASE p = r
    <3>1. ~Early(r)'
      BY <1>0 DEF Typed, LockOK, Early
    <3>2. \A i \in 1 .. Len(queue'[r]) : i + 1 \in 1 .. Len(queue[r])
      BY <1>a
    <3>3. QED
      <4>1. UNCHANGED <<asked, pending, completed>>
        BY <1>0
      <4>2. ASSUME NEW i \in 1 .. Len(queue'[r])
            PROVE  /\ queue'[r][i].kind = "note" => queue'[r][i].of \in Requests
                   /\ queue'[r][i].kind = "answer" => completed[r] /\ i = Len(queue'[r])
                   /\ r \in pending => queue'[r][i].kind # "error"
        <5>1. queue'[r][i] = queue[r][i + 1] /\ i + 1 \in 1 .. Len(queue[r])
          BY <1>a, <3>2
        <5>2. i + 1 = Len(queue[r]) => i = Len(queue'[r])
          BY <1>a
        <5>3. QED
          BY <5>1, <5>2 DEF QueueOK
      <4>3. completed[r] => r \notin asked
        BY DEF QueueOK
      <4>4. completed[r] /\ r \in pending => queue'[r] # <<>> /\ LastKind(queue'[r]) = "answer"
        BY <1>c DEF QueueOK
      <4>5. QED
        BY <2>2, <3>1, <4>1, <4>2, <4>3, <4>4 DEF LastKind
  <2>3. QED
    BY <2>1, <2>2
<1>3. FlightOK'
  <2>1. \A p \in Requests : p # r => pc'[p] = pc[p] /\ LastKind(queue'[p]) = LastKind(queue[p])
    BY <1>0, <1>b DEF Typed, LastKind
  <2>2. QED
    BY <1>0, <1>b, <1>c, <2>1 DEF Typed, FlightOK
<1>4. LockOK'
  BY <1>0 DEF Typed, LockOK
<1>5. CloseOK'
  BY <1>0 DEF Typed, CloseOK
<1>6. AskedOK'
  BY <1>0 DEF Typed, AskedOK
<1>7. NotesToOwner'
  <2> SUFFICES ASSUME NEW p \in Requests, NEW i \in 1 .. Len(queue'[p]),
                      queue'[p][i].kind = "note", queue'[p][i].of # p
               PROVE  pc'[queue'[p][i].of] = "dropped"
    BY DEF NotesToOwner
  <2>1. PICK k \in 1 .. Len(queue[p]) : queue'[p][i] = queue[p][k]
    <3>1. CASE p = r
      <4>1. queue'[r][i] = queue[r][i + 1] /\ i + 1 \in 1 .. Len(queue[r])
        BY <1>a, <3>1
      <4>2. QED
        BY <3>1, <4>1
    <3>2. CASE p # r
      BY <1>b, <3>2
    <3>3. QED
      BY <3>1, <3>2
  <2>2. pc[queue[p][k].of] = "dropped" /\ queue[p][k].of \in Requests
    BY <2>1 DEF NotesToOwner, QueueOK
  <2>3. QED
    BY <1>0, <2>1, <2>2 DEF Typed
<1>8. NoOrphan'
  BY <1>0 DEF Typed, NoOrphan
<1>9. QED
  BY <1>1, <1>2, <1>3, <1>4, <1>5, <1>6, <1>7, <1>8

\* A process ends, is seen to have ended, or is reaped.
LEMMA ChildStepInv ==
  ASSUME IInv, NEW n \in Procs, ChildEnds(n) \/ ExitSeen(n) \/ Reap(n)
  PROVE  IInv'
<1> USE DEF IInv, entries, tasks
<1>0. /\ child' \in [Procs -> {"none", "up", "gone", "exited"}] /\ reaping' \subseteq Procs
      /\ \A m \in Procs : child'[m] = "up" => child[m] = "up" /\ (m \in reaping => m \in reaping')
      /\ \A m \in Procs : child[m] = "exited" => child'[m] = "exited"
      /\ UNCHANGED <<process, asked, entries, ordLock, lock, tasks>>
  BY DEF Typed, ChildEnds, ExitSeen, Reap
<1>1. Typed'
  BY <1>0 DEF Typed
<1>2. QueueOK'
  BY <1>0 DEF QueueOK, Early
<1>3. FlightOK'
  BY <1>0 DEF FlightOK, InFlight
<1>4. LockOK'
  BY <1>0 DEF LockOK
<1>5. CloseOK'
  <2> SUFFICES ASSUME NEW r \in Requests, closing[r] # 0
               PROVE  /\ pc[r] = "gather"
                      /\ next[r] = "spawn" => child'[closing[r]] = "exited"
    BY <1>0 DEF CloseOK
  <2>1. closing[r] \in Procs
    BY DEF Typed
  <2>2. QED
    BY <1>0, <2>1 DEF CloseOK
<1>6. AskedOK'
  BY <1>0 DEF AskedOK
<1>7. NotesToOwner'
  BY <1>0 DEF NotesToOwner
<1>8. NoOrphan'
  <2> SUFFICES ASSUME NEW m \in Procs, child'[m] = "up", m # process, m \notin reaping'
               PROVE  \E r \in Requests : closing[r] = m \/ pc[r] = "dropped"
    BY <1>0 DEF NoOrphan
  <2>1. child[m] = "up" /\ m \notin reaping
    BY <1>0
  <2>2. QED
    BY <2>1 DEF NoOrphan
<1>9. QED
  BY <1>1, <1>2, <1>3, <1>4, <1>5, <1>6, <1>7, <1>8
-------------------------------------------------------------------------------
(* The steps of the requests, one by one.                                   *)

LEMMA CutOffStep ==
  ASSUME IInv, NEW r \in Requests, NEW gone \in BOOLEAN, pc[r] \in InFlight, CutOff(r, gone)
  PROVE  IInv'
<1>1. pending' = pending \ {r} /\ UNCHANGED client
  BY DEF CutOff, Unregister
<1>2. CASE r \in pending /\ wire[r] = process
  <2>1. /\ Goto(r, "cancel")
        /\ lock' = IF lock = r THEN Nobody ELSE lock
        /\ queue' = [queue EXCEPT ![r] = <<>>]
        /\ UNCHANGED <<ordLock, wire, completed, next, closing>>
    BY <1>2 DEF CutOff
  <2>2. QED
    BY <1>1, <1>2, <2>1, CancelStep
<1>3. CASE ~(r \in pending /\ wire[r] = process)
  <2>1. End(r, "done")
    BY <1>3 DEF CutOff, Done
  <2>2. r \notin asked /\ closing[r] = 0
    BY <1>3 DEF IInv, FlightOK, CloseOK, InFlight
  <2>3. QED
    BY <1>1, <2>1, <2>2, EndStep DEF InFlight
<1>4. QED
  BY <1>2, <1>3

\* A request that is not in flight ends.
LEMMA QuietEndStep ==
  ASSUME IInv, NEW r \in Requests, NEW how \in {"done", "dropped"}, End(r, how),
         UNCHANGED <<client, pending>>,
         \/ pc[r] \in {"wait", "spawn", "reap"} \/ next[r] = "spawn"
         \/ pc[r] = "cancel" /\ r \notin Ordinary
         \/ pc[r] \in {"cancel", "gather"} /\ how = "dropped"
  PROVE  IInv'
<1>1. pc[r] \in {"wait", "spawn", "reap", "gather", "cancel"}
  BY DEF IInv, LockOK
<1>2. pending' = pending \ {r}
  BY <1>1 DEF IInv, FlightOK, InFlight
<1>3. how = "done" => (r \in Ordinary => r \notin asked)
  <2>1. pc[r] # "cancel" => r \notin asked
    BY <1>1 DEF IInv, AskedOK
  <2>2. next[r] = "spawn" => pc[r] # "cancel"
    BY DEF IInv, LockOK
  <2>3. QED
    BY <2>1, <2>2
<1>4. how = "done" => (closing[r] = 0 \/ next[r] = "spawn")
  <2>1. closing[r] # 0 => pc[r] = "gather"
    BY DEF IInv, CloseOK
  <2>2. QED
    BY <2>1
<1>5. QED
  BY <1>1, <1>2, <1>3, <1>4, EndStep

LEMMA RequestKeepsInv ==
  ASSUME IInv, NEW r \in Requests, RequestNext(r)
  PROVE  IInv'
<1> USE DEF Labels
<1>1. CASE Arrive(r)
  BY <1>1, MoveStep DEF Arrive, client, entries
<1>2. CASE Refused(r) \/ SpawnFails(r)
  BY <1>2, QuietEndStep DEF Refused, HasLock, SpawnFails, Done
<1>3. CASE Join(r)
  <2>1. process \in Procs
    BY <1>3 DEF Join, IInv, Typed
  <2>2. QED
    BY <1>3, <2>1, RegisterStep DEF Join, HasLock
<1>4. CASE Restart(r)
  BY <1>4, AcloseStep DEF Restart, HasLock
<1>5. CASE StartSpawn(r)
  BY <1>5, MoveStep DEF StartSpawn, HasLock, client, entries
<1>6. CASE Spawned(r)
  <2>1. process = 0 /\ lock = r
    BY <1>6 DEF Spawned, IInv, LockOK
  <2>2. PICK n \in Procs : /\ child[n] = "none" /\ child' = [child EXCEPT ![n] = "up"]
                          /\ Register(r, n)
    BY <1>6 DEF Spawned
  <2>3. QED
    BY <1>6, <2>1, <2>2, RegisterStep DEF Spawned
<1>7. CASE Written(r)
  BY <1>7, MoveStep DEF Written, client, entries
<1>8. CASE WriteFails(r) \/ NotifyFails(r) \/ BadAnswer(r) \/ TimesOut(r)
  BY <1>8, CutOffStep DEF WriteFails, NotifyFails, BadAnswer, Take, TimesOut, InFlight
<1>9. CASE TakeError(r)
  <2>1. queue[r] \in Seq(Items) /\ queue[r] # <<>> /\ Head(queue[r]).kind = "error"
    BY <1>9 DEF TakeError, Take, IInv, Typed
  <2>2. 1 \in 1 .. Len(queue[r]) /\ queue[r][1].kind = "error"
    BY <2>1
  <2>3. r \notin pending
    BY <2>2 DEF IInv, QueueOK
  <2>4. pc[r] = "get" /\ r \notin asked /\ closing[r] = 0
    BY <1>9, <2>3 DEF TakeError, Take, IInv, FlightOK, CloseOK, InFlight
  <2>5. End(r, "done") /\ UNCHANGED client /\ pending' = pending \ {r}
    BY <1>9, <2>3 DEF TakeError, Done
  <2>6. QED
    BY <2>4, <2>5, EndStep
<1>10. CASE TakeNote(r)
  BY <1>10, TakeNoteStep
<1>11. CASE TakeAnswer(r)
  <2>1. queue[r] \in Seq(Items) /\ queue[r] # <<>> /\ Head(queue[r]).kind = "answer"
    BY <1>11 DEF TakeAnswer, Take, IInv, Typed
  <2>2. 1 \in 1 .. Len(queue[r]) /\ queue[r][1].kind = "answer"
    BY <2>1
  <2>3. r \notin asked
    BY <2>2 DEF IInv, QueueOK
  <2>4. pc[r] = "get" /\ closing[r] = 0
    BY <1>11 DEF TakeAnswer, Take, IInv, CloseOK
  <2>5. End(r, "done") /\ UNCHANGED client /\ pending' = pending \ {r}
    BY <1>11 DEF TakeAnswer, Done, Unregister
  <2>6. QED
    BY <2>3, <2>4, <2>5, EndStep
<1>12. CASE Notified(r)
  BY <1>12, MoveStep DEF Notified, client, entries
<1>13. CASE CancelSent(r)
  <2>1. CASE MustClose(r) /\ Aclose(r, "leave") /\ UNCHANGED lock
    BY <1>13, <2>1, AcloseStep DEF CancelSent, IInv, Typed, LockOK
  <2>2. CASE ~MustClose(r) /\ Done(r) /\ UNCHANGED <<client, pending, queued>>
    BY <1>13, <2>2, QuietEndStep DEF CancelSent, Done, MustClose
  <2>3. QED
    BY <1>13, <2>1, <2>2 DEF CancelSent
<1>14. CASE CancelFails(r)
  BY <1>14, AcloseStep DEF CancelFails, IInv, Typed, LockOK
<1>15. CASE Gathered(r)
  BY <1>15, MoveStep DEF Gathered, entries
<1>16. CASE Reaped(r)
  <2>1. CASE next[r] = "spawn" /\ Goto(r, "spawn")
             /\ UNCHANGED <<client, entries, ordLock, lock, wire, acked, next, closing, waits,
                            cancelled>>
    BY <1>16, <2>1, MoveStep DEF Reaped, client, entries
  <2>2. CASE next[r] = "check" /\ Aclose(r, "leave") /\ UNCHANGED lock
    BY <1>16, <2>2, AcloseStep DEF Reaped, IInv, Typed
  <2>3. CASE Done(r) /\ UNCHANGED <<client, pending, queued>>
    BY <1>16, <2>3, QuietEndStep DEF Reaped, Done
  <2>4. QED
    BY <1>16, <2>1, <2>2, <2>3 DEF Reaped
<1>17. CASE Cancel(r)
  <2>1. CASE pc[r] \in {"write", "get", "notify"} /\ CutOff(r, TRUE)
    BY <2>1, CutOffStep DEF InFlight
  <2>2. CASE /\ pc[r] \in {"wait", "spawn"} \/ next[r] = "spawn"
             /\ Done(r) /\ UNCHANGED <<client, pending, queued>>
    BY <2>2, QuietEndStep DEF Done
  <2>3. CASE /\ pc[r] = "cancel" \/ next[r] \in {"check", "leave"}
             /\ End(r, "dropped") /\ UNCHANGED <<client, pending, queued>>
    BY <2>3, QuietEndStep DEF IInv, LockOK
  <2>4. QED
    BY <1>17, <2>1, <2>2, <2>3 DEF Cancel
<1>18. QED
  BY <1>1, <1>2, <1>3, <1>4, <1>5, <1>6, <1>7, <1>8, <1>9, <1>10, <1>11, <1>12, <1>13,
     <1>14, <1>15, <1>16, <1>17 DEF RequestNext, Enter, Proceed

LEMMA ReaderStep ==
  ASSUME IInv, ReaderNext
  PROVE  IInv'
<1>1. CASE Garbage \/ EndOfOutput
  BY <1>1, ReaderClosesStep DEF Garbage, EndOfOutput
<1>2. ASSUME NEW r \in Requests, ReadAnswer(r)
      PROVE  IInv'
  <2>1. process # 0 /\ ~completed[r]
    BY <1>2 DEF ReadAnswer, IInv, FlightOK, QueueOK, Typed
  <2>2. CASE ReaderCloses(FALSE)
    BY <2>1, <2>2, ReaderClosesStep
  <2>3. CASE r \in pending /\ ~Full(r) /\ Route(r, [kind |-> "answer", of |-> r])
    BY <2>1, <2>3, RouteStep DEF Items
  <2>4. QED
    BY <1>2, <2>2, <2>3 DEF ReadAnswer, Route
<1>3. ASSUME NEW r \in Requests, ReadTagged(r)
      PROVE  IInv'
  <2>1. process # 0 /\ ~completed[r]
    BY <1>3 DEF ReadTagged, IInv, FlightOK, QueueOK, Typed
  <2>2. CASE ReaderCloses(FALSE)
    BY <2>1, <2>2, ReaderClosesStep
  <2>3. CASE r \in pending /\ ~Full(r) /\ Route(r, [kind |-> "note", of |-> r])
    BY <2>1, <2>3, RouteStep DEF Items
  <2>4. QED
    BY <1>3, <2>2, <2>3 DEF ReadTagged, Route
<1>4. ASSUME NEW r \in Requests, ReadUntagged(r)
      PROVE  IInv'
  <2>1. process # 0
    BY <1>4 DEF ReadUntagged, IInv, FlightOK
  <2>2. CASE ReaderCloses(FALSE)
    BY <2>1, <2>2, ReaderClosesStep
  <2>3. ASSUME NEW q \in Open, ~Full(q), Route(q, [kind |-> "note", of |-> r])
        PROVE  IInv'
    <3>1. q \in pending /\ q \in Ordinary /\ ~completed[q]
      BY <2>3 DEF Open
    <3>2. ordLock = q
      BY <3>1 DEF IInv, FlightOK, InFlight, LockOK
    <3>3. r = q \/ pc[r] = "dropped"
      BY <1>4, <3>2 DEF ReadUntagged, IInv, AskedOK
    <3>4. QED
      BY <2>3, <3>1, <3>3, RouteStep DEF Items
  <2>4. QED
    BY <1>4, <2>2, <2>3 DEF ReadUntagged, Route
<1>5. QED
  BY <1>1, <1>2, <1>3, <1>4 DEF ReaderNext

LEMMA ClientStep == IInv /\ [Next]_vars => IInv'
<1> SUFFICES ASSUME IInv, [Next]_vars
             PROVE  IInv'
  OBVIOUS
<1>1. CASE Next
  BY <1>1, RequestKeepsInv, ReaderStep, ChildStepInv DEF Next
<1>2. CASE UNCHANGED vars
  BY <1>2 DEF vars, client, entries, tasks, IInv, Typed, QueueOK, FlightOK, LockOK, CloseOK,
              AskedOK, NotesToOwner, NoOrphan, Early, InFlight, LastKind
<1>3. QED
  BY <1>1, <1>2

\* Of the requests some may be past from the start.
LEMMA ClientStart ==
  ASSUME NEW stage \in [Requests -> {"new", "done"}], Start(stage, [n \in Procs |-> "none"])
  PROVE  IInv
BY DEF Start, IInv, Typed, QueueOK, FlightOK, LockOK, CloseOK, AskedOK, NotesToOwner,
       NoOrphan, Labels, Early, InFlight, LastKind

(* The invariant of the client, which ties the queues, the locks, the process  *)
(* and what the child has been asked to where each request is.               *)
THEOREM Invariance == Spec => []IInv
<1>1. Init => IInv
  BY ClientStart DEF Init
<1>2. IInv /\ [Next]_vars => IInv'
  BY ClientStep
<1>3. QED
  BY <1>1, <1>2, PTL DEF Spec

(* No request waits for ever: one in flight is pending on the process that is   *)
(* read, or has its end in its queue (FailPending, _route).                   *)
THEOREM AttendedHolds == Spec => []Attended
<1>1. IInv => Attended
  BY DEF IInv, FlightOK, Attended, InFlight, LastKind
<1>2. QED
  BY <1>1, Invariance, PTL

(* Untagged notifications reach only their own request (ReadUntagged), unless   *)
(* the clean-up of that was itself cut short.                                *)
THEOREM NotesToOwnerHolds == Spec => []NotesToOwner
<1>1. IInv => NotesToOwner
  BY DEF IInv
<1>2. QED
  BY <1>1, Invariance, PTL

(* Whatever closes meet each other, a running process that is not in use is on  *)
(* its way out (aclose), unless a clean-up was cut short.                     *)
THEOREM NoOrphanHolds == Spec => []NoOrphan
<1>1. IInv => NoOrphan
  BY DEF IInv
<1>2. QED
  BY <1>1, Invariance, PTL
-------------------------------------------------------------------------------
(* The bytes in the queues.  A step does one of six things to the requests that *)
(* are pending and to their queues.                                          *)

Counts == <<pending, queued, queue>>

Leaves(r) ==
  /\ pending' = pending \ {r}
  /\ queued' = IF r \in pending THEN queued - QueuedBytes(r) ELSE queued
  /\ queue' = [queue EXCEPT ![r] = <<>>]

Enters(r) ==
  /\ pending' = pending \cup {r} /\ queue[r] = <<>>
  /\ UNCHANGED <<queued, queue>>

Drops(r) ==
  /\ queue[r] # <<>> /\ queue' = [queue EXCEPT ![r] = Tail(@)]
  /\ queued' = IF r \in pending THEN queued - 1 ELSE queued
  /\ UNCHANGED pending

Gains(r) ==
  /\ r \in pending /\ ~Full(r)
  /\ \E item \in Items : queue' = [queue EXCEPT ![r] = Append(@, item)]
  /\ queued' = queued + 1
  /\ UNCHANGED pending

Effect ==
  \/ UNCHANGED Counts
  \/ \E r \in Requests : Leaves(r) \/ Enters(r) \/ Drops(r) \/ Gains(r)
  \/ \E keep \in BOOLEAN : FailPending(keep)

\* A task that is not pending ends.
LEMMA QuietLeaves ==
  ASSUME IInv, NEW r \in Requests, NEW how, End(r, how), UNCHANGED <<pending, queued>>,
         \/ pc[r] \in {"wait", "spawn", "reap", "cancel", "gather"}
         \/ next[r] # "none" \/ r \notin pending
  PROVE  Leaves(r)
<1>1. r \notin pending
  BY DEF IInv, FlightOK, LockOK, InFlight
<1>2. pending' = pending \ {r}
  BY <1>1
<1>3. QED
  BY <1>1, <1>2 DEF Leaves, End

LEMMA RequestEffect ==
  ASSUME IInv, NEW r \in Requests, RequestNext(r)
  PROVE  Effect
<1> USE DEF Counts
<1>1. CASE Arrive(r) \/ StartSpawn(r) \/ Written(r) \/ Notified(r) \/ Gathered(r)
  BY <1>1 DEF Arrive, StartSpawn, Written, Notified, Gathered, entries, Effect
<1>2. CASE Refused(r) \/ SpawnFails(r)
  <2>1. Leaves(r)
    BY <1>2, QuietLeaves DEF Refused, HasLock, SpawnFails, Done
  <2>2. QED
    BY <2>1 DEF Effect
<1>3. CASE Join(r) \/ Spawned(r)
  <2>1. queue[r] = <<>>
    BY <1>3 DEF Join, HasLock, Spawned, IInv, QueueOK, Early
  <2>2. Enters(r)
    BY <1>3, <2>1 DEF Join, Spawned, Register, Enters
  <2>3. QED
    BY <2>2 DEF Effect
<1>4. CASE Restart(r) \/ CancelFails(r)
  BY <1>4 DEF Restart, CancelFails, Aclose, Effect
<1>5. ASSUME NEW gone \in BOOLEAN, CutOff(r, gone)
      PROVE  Effect
  <2>1. Leaves(r)
    BY <1>5 DEF CutOff, Unregister, Leaves, Done, End
  <2>2. QED
    BY <2>1 DEF Effect
<1>6. CASE WriteFails(r) \/ NotifyFails(r) \/ BadAnswer(r) \/ TimesOut(r)
  BY <1>5, <1>6 DEF WriteFails, NotifyFails, BadAnswer, TimesOut
<1>7. CASE TakeError(r)
  <2>1. queue[r] \in Seq(Items) /\ queue[r] # <<>> /\ Head(queue[r]).kind = "error"
    BY <1>7 DEF TakeError, Take, IInv, Typed
  <2>2. 1 \in 1 .. Len(queue[r]) /\ queue[r][1].kind = "error"
    BY <2>1
  <2>3. r \notin pending
    BY <2>2 DEF IInv, QueueOK
  <2>4. Leaves(r)
    BY <1>7, <2>3, QuietLeaves DEF TakeError, Done
  <2>5. QED
    BY <2>4 DEF Effect
<1>8. CASE TakeNote(r)
  BY <1>8 DEF TakeNote, Take, Drops, Effect
<1>9. CASE TakeAnswer(r)
  <2>1. Leaves(r)
    BY <1>9 DEF TakeAnswer, Unregister, Done, End, Leaves
  <2>2. QED
    BY <2>1 DEF Effect
<1>10. ASSUME NEW then, Aclose(r, then)
       PROVE  Effect
  BY <1>10 DEF Aclose, Effect
<1>11. CASE CancelSent(r)
  <2>1. CASE Done(r) /\ UNCHANGED <<pending, queued>>
    <3>1. Leaves(r)
      BY <1>11, <2>1, QuietLeaves DEF CancelSent, Done
    <3>2. QED
      BY <3>1 DEF Effect
  <2>2. QED
    BY <1>10, <1>11, <2>1 DEF CancelSent
<1>12. CASE Reaped(r)
  <2>1. CASE Done(r) /\ UNCHANGED <<pending, queued>>
    <3>1. Leaves(r)
      BY <1>12, <2>1, QuietLeaves DEF Reaped, Done
    <3>2. QED
      BY <3>1 DEF Effect
  <2>2. CASE UNCHANGED entries
    BY <2>2 DEF entries, Effect
  <2>3. QED
    BY <1>10, <1>12, <2>1, <2>2 DEF Reaped
<1>13. CASE Cancel(r)
  <2>1. ASSUME NEW how, End(r, how), UNCHANGED <<pending, queued>>,
               pc[r] \in {"wait", "spawn", "cancel"} \/ next[r] \in {"spawn", "check", "leave"}
        PROVE  Effect
    <3>1. Leaves(r)
      BY <2>1, QuietLeaves
    <3>2. QED
      BY <3>1 DEF Effect
  <2>2. QED
    BY <1>5, <1>13, <2>1 DEF Cancel, Done
<1>14. QED
  BY <1>1, <1>2, <1>3, <1>4, <1>6, <1>7, <1>8, <1>9, <1>11, <1>12, <1>13
     DEF RequestNext, Enter, Proceed

LEMMA ReaderEffect ==
  ASSUME IInv, ReaderNext
  PROVE  Effect
<1>1. ASSUME NEW keep \in BOOLEAN, ReaderCloses(keep)
      PROVE  Effect
  BY <1>1 DEF ReaderCloses, Effect
<1>2. ASSUME NEW q \in pending, NEW item \in Items, Route(q, item)
      PROVE  Effect
  <2>1. q \in Requests
    BY DEF IInv, Typed
  <2>2. CASE ~Full(q)
    <3>1. Gains(q)
      BY <1>2, <2>2 DEF Route, Gains
    <3>2. QED
      BY <2>1, <3>1 DEF Effect
  <2>3. CASE Full(q)
    BY <1>1, <1>2, <2>3 DEF Route
  <2>4. QED
    BY <2>2, <2>3
<1>3. CASE Garbage \/ EndOfOutput
  BY <1>1, <1>3 DEF Garbage, EndOfOutput
<1>4. ASSUME NEW r \in Requests, ReadAnswer(r) \/ ReadTagged(r) \/ ReadUntagged(r)
      PROVE  Effect
  <2>1. [kind |-> "answer", of |-> r] \in Items /\ [kind |-> "note", of |-> r] \in Items
    BY DEF Items
  <2>2. QED
    BY <1>1, <1>2, <1>4, <2>1 DEF ReadAnswer, ReadTagged, ReadUntagged, Open
<1>5. QED
  BY <1>3, <1>4 DEF ReaderNext

LEMMA NextEffect ==
  ASSUME IInv, [Next]_vars
  PROVE  Effect
<1>1. ASSUME NEW n \in Procs, ChildEnds(n) \/ ExitSeen(n) \/ Reap(n)
      PROVE  Effect
  BY <1>1 DEF ChildEnds, ExitSeen, Reap, entries, Counts, Effect
<1>2. CASE UNCHANGED vars
  BY <1>2 DEF vars, entries, Counts, Effect
<1>3. QED
  BY <1>1, <1>2, RequestEffect, ReaderEffect DEF Next

\* The counting: no queue is longer than its limit, so what waits is a finite set.
Short == \A r \in Requests : Len(queue[r]) <= MaxQueue

Sorted ==
  /\ acked \in [Requests -> BOOLEAN] /\ cancelled \in [Requests -> BOOLEAN]
  /\ waits \in [Requests -> SUBSET Procs]

CountInv == Short /\ Accounting /\ queued \in 0 .. MaxQueued /\ Sorted

Lines(r) == {r} \X (1 .. Len(queue[r]))

LEMMA WaitingFinite ==
  ASSUME Typed, Short
  PROVE  /\ IsFiniteSet(Waiting) /\ Cardinality(Waiting) \in Nat
         /\ \A r \in pending : Lines(r) \subseteq Waiting
         /\ \A w \in Waiting : w[1] \in pending /\ w \in Lines(w[1])
<1>1. \A r \in Requests : Len(queue[r]) \in Nat
  BY DEF Typed
<1>2. \A r \in pending : Lines(r) \subseteq Waiting
  BY DEF Waiting, QueuedBytes, Lines
<1>3. \A w \in Waiting : w[1] \in pending /\ w \in Lines(w[1])
  BY DEF Waiting, QueuedBytes, Lines
<1>4. Waiting \subseteq Requests \X (1 .. MaxQueue)
  <2> SUFFICES ASSUME NEW w \in Waiting
               PROVE  w \in Requests \X (1 .. MaxQueue)
    OBVIOUS
  <2>1. PICK r \in pending : w \in {r} \X (1 .. Len(queue[r]))
    BY DEF Waiting, QueuedBytes
  <2>2. r \in Requests /\ Len(queue[r]) <= MaxQueue
    BY DEF Typed, Short
  <2>3. QED
    BY <1>1, <2>1, <2>2
<1>5. IsFiniteSet(1 .. MaxQueue)
  BY FS_Interval
<1>6. IsFiniteSet(Requests \X (1 .. MaxQueue))
  BY <1>5, FS_Product
<1>7. IsFiniteSet(Waiting)
  BY <1>4, <1>6, FS_Subset
<1>8. QED
  BY <1>2, <1>3, <1>7, FS_CardinalityType

LEMMA LinesCount ==
  ASSUME Typed, NEW r \in Requests
  PROVE  IsFiniteSet(Lines(r)) /\ Cardinality(Lines(r)) = Len(queue[r])
<1>1. Len(queue[r]) \in Nat
  BY DEF Typed
<1>2. IsFiniteSet(1 .. Len(queue[r])) /\ Cardinality(1 .. Len(queue[r])) = Len(queue[r])
  BY <1>1, FS_Interval
<1>3. IsFiniteSet({r}) /\ Cardinality({r}) = 1
  BY FS_Singleton
<1>4. /\ IsFiniteSet({r} \X (1 .. Len(queue[r])))
      /\ Cardinality({r} \X (1 .. Len(queue[r])))
           = Cardinality({r}) * Cardinality(1 .. Len(queue[r]))
  BY <1>2, <1>3, FS_Product
<1>5. Cardinality({r} \X (1 .. Len(queue[r]))) = 1 * Len(queue[r])
  BY <1>2, <1>3, <1>4
<1>6. QED
  BY <1>1, <1>4, <1>5 DEF Lines

\* What waits, line by line.
LEMMA WaitingLines ==
  /\ \A r, i : <<r, i>> \in Waiting <=> r \in pending /\ i \in 1 .. Len(queue[r])
  /\ \A w \in Waiting : w = <<w[1], w[2]>>
BY DEF Waiting, QueuedBytes

\* Shown by the lines that they have, two sets of waiting lines are the same.
LEMMA SameWaiting ==
  ASSUME NEW S, \A w \in S : w = <<w[1], w[2]>>,
         \A r, i : <<r, i>> \in S <=> r \in pending' /\ i \in 1 .. Len(queue'[r])
  PROVE  Waiting' = S
<1>1. /\ \A r, i : <<r, i>> \in Waiting' <=> r \in pending' /\ i \in 1 .. Len(queue'[r])
      /\ \A w \in Waiting' : w = <<w[1], w[2]>>
  BY DEF Waiting, QueuedBytes
<1>2. ASSUME NEW w \in Waiting'
      PROVE  w \in S
  <2>1. w = <<w[1], w[2]>>
    BY <1>1
  <2>2. <<w[1], w[2]>> \in Waiting' => <<w[1], w[2]>> \in S
    BY <1>1
  <2>3. QED
    BY <2>1, <2>2
<1>3. ASSUME NEW w \in S
      PROVE  w \in Waiting'
  <2>1. w = <<w[1], w[2]>>
    OBVIOUS
  <2>2. <<w[1], w[2]>> \in S => <<w[1], w[2]>> \in Waiting'
    BY <1>1
  <2>3. QED
    BY <2>1, <2>2
<1>4. QED
  BY <1>2, <1>3

LEMMA LeavesCount ==
  ASSUME Typed, Short, Accounting, queued \in 0 .. MaxQueued, NEW r \in Requests, Leaves(r)
  PROVE  Short' /\ Accounting' /\ queued' \in 0 .. MaxQueued
<1>0. \A p \in Requests : queue'[p] = IF p = r THEN <<>> ELSE queue[p]
  BY DEF Leaves, Typed
<1>1. Short'
  BY <1>0 DEF Short
<1>2. Waiting' = Waiting \ Lines(r)
  <2>1. \A w \in Waiting \ Lines(r) : w = <<w[1], w[2]>>
    BY WaitingLines
  <2>2. ASSUME NEW p, NEW i
        PROVE  <<p, i>> \in Waiting \ Lines(r)
               <=> p \in pending' /\ i \in 1 .. Len(queue'[p])
    <3>1. <<p, i>> \in Waiting <=> p \in pending /\ i \in 1 .. Len(queue[p])
      BY WaitingLines
    <3>2. <<p, i>> \in Lines(r) <=> p = r /\ i \in 1 .. Len(queue[r])
      BY DEF Lines
    <3>3. pending' = pending \ {r} /\ pending \subseteq Requests
      BY DEF Leaves, Typed
    <3>4. QED
      BY <1>0, <3>1, <3>2, <3>3
  <2>3. QED
    BY <2>1, <2>2, SameWaiting
<1>3. CASE r \in pending
  <2>1. Waiting \cap Lines(r) = Lines(r)
    BY <1>3, WaitingFinite
  <2>2. Cardinality(Waiting') = Cardinality(Waiting) - Len(queue[r])
    <3>1. IsFiniteSet(Waiting) /\ Cardinality(Lines(r)) = Len(queue[r])
      BY WaitingFinite, LinesCount
    <3>2. Cardinality(Waiting \ Lines(r)) = Cardinality(Waiting) - Cardinality(Waiting \cap Lines(r))
      BY <3>1, FS_Difference
    <3>3. QED
      BY <1>2, <2>1, <3>1, <3>2
  <2>3. queued' = queued - Len(queue[r])
    BY <1>3 DEF Leaves, QueuedBytes
  <2>4. Cardinality(Waiting') \in Nat
    BY <1>2, WaitingFinite, FS_Difference, FS_CardinalityType
  <2>5. Len(queue[r]) \in Nat
    BY DEF Typed
  <2>6. QED
    BY <1>1, <2>2, <2>3, <2>4, <2>5 DEF Accounting
<1>4. CASE r \notin pending
  <2>1. Waiting \ Lines(r) = Waiting
    BY <1>4, WaitingLines DEF Lines
  <2>2. queued' = queued
    BY <1>4 DEF Leaves
  <2>3. QED
    BY <1>1, <1>2, <2>1, <2>2 DEF Accounting
<1>5. QED
  BY <1>3, <1>4

LEMMA EntersCount ==
  ASSUME Typed, Short, Accounting, queued \in 0 .. MaxQueued, NEW r \in Requests, Enters(r)
  PROVE  Short' /\ Accounting' /\ queued' \in 0 .. MaxQueued
<1>1. UNCHANGED <<queued, queue>> /\ pending' = pending \cup {r} /\ queue[r] = <<>>
  BY DEF Enters
<1>2. Waiting' = Waiting
  <2>1. ASSUME NEW p, NEW i
        PROVE  <<p, i>> \in Waiting <=> p \in pending' /\ i \in 1 .. Len(queue'[p])
    BY <1>1, WaitingLines
  <2>2. QED
    BY <2>1, WaitingLines, SameWaiting
<1>3. QED
  BY <1>1, <1>2 DEF Short, Accounting

LEMMA DropsCount ==
  ASSUME Typed, Short, Accounting, queued \in 0 .. MaxQueued, NEW r \in Requests, Drops(r)
  PROVE  Short' /\ Accounting' /\ queued' \in 0 .. MaxQueued
<1>0. \A p \in Requests : queue'[p] = IF p = r THEN Tail(queue[r]) ELSE queue[p]
  BY DEF Drops, Typed
<1>1. Len(queue[r]) \in Nat \ {0} /\ Len(queue'[r]) = Len(queue[r]) - 1
  <2>1. queue[r] \in Seq(Items) /\ queue[r] # <<>> /\ queue'[r] = Tail(queue[r])
    BY <1>0 DEF Drops, Typed
  <2>2. Len(queue[r]) \in Nat \ {0}
    BY <2>1
  <2>3. QED
    BY <2>1, <2>2
<1>2. Short'
  BY <1>0, <1>1 DEF Short
<1>3. pending' = pending /\ pending \subseteq Requests
  BY DEF Drops, Typed
<1>4. Waiting' = Waiting \ {<<r, Len(queue[r])>>}
  <2>1. \A w \in Waiting \ {<<r, Len(queue[r])>>} : w = <<w[1], w[2]>>
    BY WaitingLines
  <2>2. ASSUME NEW p, NEW i
        PROVE  <<p, i>> \in Waiting \ {<<r, Len(queue[r])>>}
               <=> p \in pending' /\ i \in 1 .. Len(queue'[p])
    <3>1. <<p, i>> \in Waiting <=> p \in pending /\ i \in 1 .. Len(queue[p])
      BY WaitingLines
    <3>2. CASE p = r
      BY <1>1, <1>3, <3>1, <3>2
    <3>3. CASE p # r
      BY <1>0, <1>3, <3>1, <3>3
    <3>4. QED
      BY <3>2, <3>3
  <2>3. QED
    BY <2>1, <2>2, SameWaiting
<1>5. <<r, Len(queue[r])>> \in Waiting <=> r \in pending
  BY <1>1, WaitingLines
<1>6. Cardinality(Waiting') = IF r \in pending THEN Cardinality(Waiting) - 1
                              ELSE Cardinality(Waiting)
  BY <1>4, <1>5, WaitingFinite, FS_RemoveElement
<1>7. Cardinality(Waiting') \in Nat
  BY <1>4, WaitingFinite, FS_RemoveElement, FS_CardinalityType
<1>8. queued' = IF r \in pending THEN queued - 1 ELSE queued
  BY DEF Drops
<1>9. QED
  BY <1>2, <1>6, <1>7, <1>8 DEF Accounting

LEMMA GainsCount ==
  ASSUME Typed, Short, Accounting, queued \in 0 .. MaxQueued, NEW r \in Requests, Gains(r)
  PROVE  Short' /\ Accounting' /\ queued' \in 0 .. MaxQueued
<1>0. PICK item \in Items : queue' = [queue EXCEPT ![r] = Append(@, item)]
  BY DEF Gains
<1>1. \A p \in Requests : queue'[p] = IF p = r THEN Append(queue[r], item) ELSE queue[p]
  BY <1>0 DEF Typed
<1>2. Len(queue[r]) \in Nat /\ Len(queue'[r]) = Len(queue[r]) + 1
  <2>1. queue[r] \in Seq(Items) /\ queue'[r] = Append(queue[r], item)
    BY <1>1 DEF Typed
  <2>2. QED
    BY <2>1
<1>3. /\ r \in pending /\ pending' = pending /\ pending \subseteq Requests
      /\ Len(queue[r]) < MaxQueue /\ queued + 1 <= MaxQueued /\ queued' = queued + 1
  BY <1>2 DEF Gains, Full, Typed
<1>4. Short'
  BY <1>1, <1>2, <1>3 DEF Short
<1>5. Waiting' = Waiting \cup {<<r, Len(queue[r]) + 1>>}
  <2>1. \A w \in Waiting \cup {<<r, Len(queue[r]) + 1>>} : w = <<w[1], w[2]>>
    BY WaitingLines
  <2>2. ASSUME NEW p, NEW i
        PROVE  <<p, i>> \in Waiting \cup {<<r, Len(queue[r]) + 1>>}
               <=> p \in pending' /\ i \in 1 .. Len(queue'[p])
    <3>1. <<p, i>> \in Waiting <=> p \in pending /\ i \in 1 .. Len(queue[p])
      BY WaitingLines
    <3>2. CASE p = r
      BY <1>2, <1>3, <3>1, <3>2
    <3>3. CASE p # r
      BY <1>1, <1>3, <3>1, <3>3
    <3>4. QED
      BY <3>2, <3>3
  <2>3. QED
    BY <2>1, <2>2, SameWaiting
<1>6. <<r, Len(queue[r]) + 1>> \notin Waiting
  BY <1>2, WaitingLines
<1>7. Cardinality(Waiting') = Cardinality(Waiting) + 1
  BY <1>5, <1>6, WaitingFinite, FS_AddElement
<1>8. QED
  BY <1>3, <1>4, <1>7 DEF Accounting

LEMMA FailCount ==
  ASSUME Typed, Short, Accounting, queued \in 0 .. MaxQueued, NEW keep \in BOOLEAN,
         FailPending(keep)
  PROVE  Short' /\ Accounting' /\ queued' \in 0 .. MaxQueued
<1>1. Short'
  BY QueuesAfterClose, FailedQueue DEF Short
<1>2. pending' = {} /\ queued' = 0
  BY DEF FailPending
<1>3. Waiting' = {}
  BY <1>2 DEF Waiting
<1>4. QED
  BY <1>1, <1>2, <1>3, FS_EmptySet DEF Accounting

LEMMA SortedStep ==
  ASSUME IInv, Sorted, [Next]_vars
  PROVE  Sorted'
<1> USE DEF Sorted, IInv, Typed
<1>1. ASSUME NEW r \in Requests, NEW how, End(r, how)
      PROVE  Sorted'
  BY <1>1 DEF End
<1>2. ASSUME NEW r \in Requests, NEW then, Aclose(r, then)
      PROVE  Sorted'
  BY <1>2 DEF Aclose
<1>3. ASSUME NEW r \in Requests, NEW gone \in BOOLEAN, CutOff(r, gone)
      PROVE  Sorted'
  <2>1. CASE End(r, "done")
    BY <1>1, <2>1
  <2>2. CASE cancelled' = [cancelled EXCEPT ![r] = gone] /\ UNCHANGED <<acked, waits>>
    BY <2>2
  <2>3. QED
    BY <1>3, <2>1, <2>2 DEF CutOff, Done
<1>4. ASSUME NEW keep, ReaderCloses(keep)
      PROVE  Sorted'
  BY <1>4 DEF ReaderCloses, tasks
<1>5. ASSUME NEW r \in Requests, RequestNext(r)
      PROVE  Sorted'
  <2>1. CASE Arrive(r) \/ StartSpawn(r) \/ Written(r) \/ Join(r) \/ Spawned(r) \/ TakeNote(r)
    BY <2>1 DEF Arrive, StartSpawn, Written, Join, Spawned, TakeNote
  <2>2. CASE Refused(r) \/ SpawnFails(r) \/ TakeError(r) \/ TakeAnswer(r)
    BY <1>1, <2>2 DEF Refused, SpawnFails, TakeError, TakeAnswer, Done
  <2>3. CASE Restart(r) \/ CancelFails(r)
    BY <1>2, <2>3 DEF Restart, CancelFails
  <2>4. CASE WriteFails(r) \/ NotifyFails(r) \/ BadAnswer(r) \/ TimesOut(r)
    BY <1>3, <2>4 DEF WriteFails, NotifyFails, BadAnswer, TimesOut
  <2>5. CASE Notified(r)
    BY <2>5 DEF Notified
  <2>6. CASE CancelSent(r)
    BY <1>1, <1>2, <2>6 DEF CancelSent, Done
  <2>7. CASE Gathered(r)
    <3>1. reaping' = reaping \cup ({closing[r]} \ {0}) /\ waits' = [waits EXCEPT ![r] = reaping']
          /\ UNCHANGED <<acked, cancelled>>
      BY <2>7 DEF Gathered
    <3>2. reaping' \subseteq Procs
      <4>1. reaping \subseteq Procs /\ closing[r] \in 0 .. MaxProcs
        OBVIOUS
      <4>2. {closing[r]} \ {0} \subseteq Procs
        BY <4>1
      <4>3. QED
        BY <3>1, <4>1, <4>2
    <3>3. QED
      BY <3>1, <3>2
  <2>8. CASE Reaped(r)
    BY <1>1, <1>2, <2>8 DEF Reaped, Done
  <2>9. CASE Cancel(r)
    BY <1>1, <1>3, <2>9 DEF Cancel, Done
  <2>10. QED
    BY <1>5, <2>1, <2>2, <2>3, <2>4, <2>5, <2>6, <2>7, <2>8, <2>9
       DEF RequestNext, Enter, Proceed
<1>6. CASE ReaderNext
  <2>1. ASSUME NEW q, NEW item, Route(q, item)
        PROVE  Sorted'
    BY <1>4, <2>1 DEF Route, tasks
  <2>2. QED
    BY <1>4, <1>6, <2>1 DEF ReaderNext, Garbage, EndOfOutput, ReadAnswer, ReadTagged, ReadUntagged
<1>7. ASSUME NEW n \in Procs, ChildEnds(n) \/ ExitSeen(n) \/ Reap(n)
      PROVE  Sorted'
  BY <1>7 DEF ChildEnds, ExitSeen, Reap, tasks
<1>8. CASE UNCHANGED vars
  BY <1>8 DEF vars, tasks
<1>9. QED
  BY <1>5, <1>6, <1>7, <1>8 DEF Next

LEMMA CountStep ==
  ASSUME IInv, CountInv, [Next]_vars
  PROVE  CountInv'
<1>1. Typed /\ Short /\ Accounting /\ queued \in 0 .. MaxQueued
  BY DEF IInv, CountInv
<1>2. ASSUME UNCHANGED Counts
      PROVE  Short' /\ Accounting' /\ queued' \in 0 .. MaxQueued
  <2>1. pending' = pending /\ queued' = queued /\ queue' = queue
    BY <1>2 DEF Counts
  <2>2. Waiting' = Waiting
    BY <2>1 DEF Waiting, QueuedBytes
  <2>3. QED
    BY <1>1, <2>1, <2>2 DEF Short, Accounting
<1>3. Short' /\ Accounting' /\ queued' \in 0 .. MaxQueued
  <2>1. ASSUME NEW r \in Requests, Leaves(r) \/ Enters(r) \/ Drops(r) \/ Gains(r)
        PROVE  Short' /\ Accounting' /\ queued' \in 0 .. MaxQueued
    BY <1>1, <2>1, LeavesCount, EntersCount, DropsCount, GainsCount
  <2>2. ASSUME NEW keep \in BOOLEAN, FailPending(keep)
        PROVE  Short' /\ Accounting' /\ queued' \in 0 .. MaxQueued
    BY <1>1, <2>2, FailCount
  <2>3. QED
    BY <1>2, <2>1, <2>2, NextEffect DEF Effect
<1>4. Sorted'
  BY SortedStep DEF CountInv
<1>5. QED
  BY <1>3, <1>4 DEF CountInv

LEMMA CountStart ==
  ASSUME NEW stage, NEW procs, Start(stage, procs)
  PROVE  CountInv
<1>1. Waiting = {}
  BY DEF Start, Waiting
<1>2. Cardinality(Waiting) = 0
  BY <1>1, FS_EmptySet
<1>3. QED
  BY <1>2 DEF Start, CountInv, Short, Accounting, Sorted

LEMMA CountInvariance == Spec => []CountInv
<1>1. Init => CountInv
  BY CountStart DEF Init
<1>2. IInv /\ CountInv /\ [Next]_vars => CountInv'
  BY CountStep
<1>3. QED
  BY <1>1, <1>2, Invariance, PTL DEF Spec

(* The count of the bytes in the queues is right, whoever takes, leaves, fails *)
(* or overflows in between (_queued_bytes), so the aggregate limit neither     *)
(* leaks away nor is overdrawn.                                              *)
THEOREM AccountingHolds == Spec => []Accounting
<1>1. CountInv => Accounting
  BY DEF CountInv
<1>2. QED
  BY <1>1, CountInvariance, PTL

(* The variables keep their types, and the queues and their bytes their        *)
(* limits (_route), for every number of requests and processes.               *)
THEOREM TypeCorrect == Spec => []TypeOK
<1>1. IInv /\ CountInv => TypeOK
  BY DEF IInv, Typed, CountInv, Short, Sorted, TypeOK, Labels
<1>2. QED
  BY <1>1, Invariance, CountInvariance, PTL
-------------------------------------------------------------------------------
(* The sessions.  What one of them has told its client is right by its own record *)
(* `s`, and by what its request is about (`p`): it has a notification to send on,  *)
(* cleans up, or neither.                                                    *)

\* Of the length of `told` there is an invariant of its own.
Shape ==
  [stage : Stages, requested : SUBSET Changes, started : BOOLEAN, finished : BOOLEAN,
   accepted : (SUBSET Changes) \cup {NotYet}, events : 0 .. MaxEvents,
   holding : Messages \cup {Nothing, Bad}, told : Seq(Messages)]

Works(s) == s.stage \in {"app", "expiring", "leaving"}

Ack(s) == Message("ack", s.accepted)

StageOK(s, p) ==
  /\ s.finished => s.stage \in {"tail", "error"}
  /\ s.stage \in {"expiring", "leaving"} => p = "clean"

\* Each notification that was told of was counted, but for the one that is held.
RoomOK(s) ==
  Len(s.told) <= IF s.stage = "over" THEN MaxEvents + 1
                 ELSE IF s.finished THEN s.events + 1 ELSE s.events

\* An answer is the last that was told, and then the session has only to end.
OnceOK(s) ==
  \A i \in 1 .. Len(s.told) :
    s.told[i] \in Answers => i = Len(s.told) /\ (s.finished \/ s.stage = "over")

ReplyOK(x, s) ==
  s.stage = "reply" =>
    s.holding \in Answers /\ (x \in Listens /\ s.holding = Result => s.told # <<>>)

NoteOK(x, s, p) ==
  Works(s) /\ p = "notify" =>
    \/ x \in Requests /\ s.holding = Bad
    \/ /\ s.holding \in Notes /\ Len(s.told) < s.events
       /\ x \in Listens =>
            /\ s.accepted # NotYet
            /\ \/ s.holding = Ack(s) /\ s.told = <<>>
               \/ s.holding.kind = "change" /\ s.told # <<>> /\ s.holding.of \subseteq s.accepted

\* What was accepted has been told first, will be, or the session ends.
AckOK(x, s, p) ==
  x \in Listens /\ Works(s) =>
    /\ s.told # <<>> => s.accepted # NotYet /\ s.told[1] = Ack(s)
    /\ s.accepted # NotYet =>
         /\ s.accepted \subseteq s.requested
         /\ s.told # <<>> \/ p = "clean" \/ (p = "notify" /\ s.holding = Ack(s))

FirstOK(x, s) ==
  x \in Listens =>
    \A i \in 1 .. Len(s.told) :
      /\ s.told[i].kind = "ack" <=> (i = 1 /\ s.told[i] # Error)
      /\ s.told[i].kind = "change" => s.told[i].of \subseteq s.told[1].of
      /\ s.told[i].kind \in {"ack", "change"} => s.told[i].of \subseteq s.requested

Proper(x, s, p) ==
  /\ s \in Shape
  /\ StageOK(s, p) /\ RoomOK(s) /\ OnceOK(s) /\ ReplyOK(x, s)
  /\ NoteOK(x, s, p) /\ AckOK(x, s, p) /\ FirstOK(x, s)

Notifying(x) == IF x \in Remote THEN http[x].at = "notify" ELSE pc[x] = "notify"

Cleaning(x) == x \in Requests /\ pc[x] \in {"cancel", "gather", "reap"} /\ next[x] # "spawn"

Phase(x) == IF Notifying(x) THEN "notify" ELSE IF Cleaning(x) THEN "clean" ELSE "other"

HttpStages == {"connect", "start", "read", "events", "notify", "closed"}

\* Of the bytes and events the fields are all that matters here.
HttpType(D, F, U) ==
  [at : HttpStages, decoder : D, fed : F, found : U, ended : BOOLEAN]

HttpOK == \E D, F, U : http \in [Remote -> HttpType(D, F, U)]

SInv ==
  /\ session \in [Sessions -> Shape]
  /\ stuck \subseteq Slow
  /\ HttpOK
  /\ \A x \in Sessions : Proper(x, session[x], Phase(x))

\* What the messages are, apart from each other.
LEMMA MessageFacts ==
  /\ \A m \in Notes : /\ m \in Messages /\ m \notin Answers
                      /\ m.kind \in {"ack", "change", "progress"} /\ m.of \in SUBSET Changes
                      /\ m.kind = "ack" => m = Message("ack", m.of)
  /\ \A m \in Answers : m \in Messages /\ m.kind \in {"result", "error"}
  /\ Error \in Answers /\ Result \in Answers /\ Error # Result /\ Error.kind = "error"
  /\ \A m \in Answers : m = Error \/ m = Result
<1>1. \A m \in Notes : /\ m.kind \in {"ack", "change", "progress"} /\ m.of \in SUBSET Changes
                       /\ m.kind = "ack" => m = Message("ack", m.of)
  BY DEF Notes, Message
<1>2. Error.kind = "error" /\ Result.kind = "result"
  BY DEF Error, Result, Message
<1>3. \A m \in Answers : m = Error \/ m = Result
  BY DEF Answers
<1>4. QED
  BY <1>1, <1>2, <1>3 DEF Messages, Answers

\* A message is told.
LEMMA Told ==
  ASSUME NEW q \in Seq(Messages), NEW m \in Messages
  PROVE  /\ Append(q, m) \in Seq(Messages) /\ Append(q, m) # <<>>
         /\ Len(Append(q, m)) = Len(q) + 1 /\ Len(q) \in Nat
         /\ Append(q, m)[Len(q) + 1] = m
         /\ \A i \in 1 .. Len(q) : Append(q, m)[i] = q[i]
         /\ \A i \in 1 .. Len(q) + 1 : i \in 1 .. Len(q) \/ i = Len(q) + 1
         /\ q = <<>> <=> Len(q) = 0
OBVIOUS

\* The session goes to another stage.
Gone(s, stage) ==
  IF stage = "over" THEN Forgotten(s)
  ELSE IF stage \in {"leaving", "left"} THEN Opened(stage, {})
  ELSE [s EXCEPT !.stage = stage, !.holding = Nothing]

LEMMA GoesTo ==
  ASSUME session \in [Sessions -> Shape], NEW x \in Sessions, NEW stage \in Stages, Goes(x, stage)
  PROVE  session' = [session EXCEPT ![x] = Gone(session[x], stage)]
BY DEF Goes, Gone

LEMMA ShapeRecord ==
  ASSUME NEW stage \in Stages, NEW requested \in SUBSET Changes, NEW started \in BOOLEAN,
         NEW finished \in BOOLEAN, NEW accepted \in (SUBSET Changes) \cup {NotYet},
         NEW count \in 0 .. MaxEvents, NEW holding \in Messages \cup {Nothing, Bad},
         NEW told \in Seq(Messages)
  PROVE  [stage |-> stage, requested |-> requested, started |-> started, finished |-> finished,
          accepted |-> accepted, events |-> count, holding |-> holding, told |-> told] \in Shape
BY DEF Shape

LEMMA OpenedFields ==
  ASSUME NEW stage \in Stages, NEW filter \in SUBSET Changes
  PROVE  /\ Opened(stage, filter) \in Shape
         /\ Opened(stage, filter).stage = stage /\ Opened(stage, filter).requested = filter
         /\ ~Opened(stage, filter).finished /\ Opened(stage, filter).accepted = NotYet
         /\ Opened(stage, filter).events = 0 /\ Opened(stage, filter).told = <<>>
         /\ Opened(stage, filter).holding = Nothing
<1>0. 0 \in 0 .. MaxEvents
  BY StreamSessionAssumption DEF StreamSessionAssumption
<1>1. NotYet \in (SUBSET Changes) \cup {NotYet}
  OBVIOUS
<1>2. Nothing \in Messages \cup {Nothing, Bad}
  OBVIOUS
<1>b. FALSE \in BOOLEAN
  OBVIOUS
<1>s. <<>> \in Seq(Messages)
  OBVIOUS
<1>3. Opened(stage, filter) \in Shape
  BY <1>0, <1>1, <1>2, <1>b, <1>s, ShapeRecord, Zenon DEF Opened
<1>4. QED
  BY <1>3 DEF Opened

LEMMA GoneFields ==
  ASSUME NEW s \in Shape, NEW stage \in Stages
  PROVE  LET t == Gone(s, stage)
         IN /\ t \in Shape /\ t.stage = stage /\ t.holding = Nothing
            /\ stage = "over" => t.told = s.told /\ t.requested = s.requested /\ t.finished = FALSE
            /\ stage \in {"leaving", "left"} =>
                 t.told = <<>> /\ t.accepted = NotYet /\ t.events = 0 /\ t.finished = FALSE
            /\ stage \notin {"leaving", "left", "over"} =>
                 /\ t.told = s.told /\ t.requested = s.requested /\ t.finished = s.finished
                 /\ t.accepted = s.accepted /\ t.events = s.events
<1>1. CASE stage = "over"
  <2> DEFINE o == Opened("over", s.requested)
  <2>1. /\ o \in Shape /\ o.stage = "over" /\ o.requested = s.requested /\ ~o.finished
        /\ o.accepted = NotYet /\ o.events = 0 /\ o.holding = Nothing
    <3>1. s.requested \in SUBSET Changes /\ "over" \in Stages
      BY DEF Shape, Stages
    <3>2. QED
      BY <3>1, OpenedFields
  <2>2. Gone(s, stage) = [o EXCEPT !.told = s.told]
    BY <1>1 DEF Gone, Forgotten
  <2> HIDE DEF o
  <2>3. s.told \in Seq(Messages)
    BY DEF Shape
  <2>4. QED
    BY <1>1, <2>1, <2>2, <2>3 DEF Shape
<1>2. CASE stage \in {"leaving", "left"}
  <2>1. Gone(s, stage) = Opened(stage, {})
    BY <1>2 DEF Gone
  <2>2. QED
    BY <1>2, <2>1, OpenedFields
<1>3. CASE stage \notin {"leaving", "left", "over"}
  <2>1. Gone(s, stage) = [s EXCEPT !.stage = stage, !.holding = Nothing]
    BY <1>3 DEF Gone
  <2>2. QED
    BY <1>3, <2>1 DEF Shape
<1>4. QED
  BY <1>1, <1>2, <1>3

\* A session that is not held up goes on, ends, or cleans up.
LEMMA GoneProper ==
  ASSUME NEW x \in Sessions, NEW s, NEW p, Proper(x, s, p), NEW p1,
         NEW stage \in Stages \ {"reply"},
         stage \in {"app", "expiring"} =>
           Works(s) /\ p1 # "notify" /\ (p \in {"notify", "clean"} => p1 = "clean"),
         stage \in {"expiring", "leaving"} => p1 = "clean",
         stage = "tail" => s.finished,
         s.stage \notin {"over", "left"}
  PROVE  Proper(x, Gone(s, stage), p1)
<1> DEFINE t == Gone(s, stage)
<1>1. s \in Shape /\ s.told \in Seq(Messages) /\ s.events \in 0 .. MaxEvents /\ MaxEvents \in Nat
  BY StreamSessionAssumption DEF Proper, Shape, StreamSessionAssumption
<1>2. /\ t \in Shape /\ t.stage = stage /\ t.holding = Nothing
      /\ stage = "over" => t.told = s.told /\ t.requested = s.requested /\ t.finished = FALSE
      /\ stage \in {"leaving", "left"} =>
           t.told = <<>> /\ t.accepted = NotYet /\ t.events = 0 /\ t.finished = FALSE
      /\ stage \notin {"leaving", "left", "over"} =>
           /\ t.told = s.told /\ t.requested = s.requested /\ t.finished = s.finished
           /\ t.accepted = s.accepted /\ t.events = s.events
  BY <1>1, GoneFields
<1> HIDE DEF t
<1>3. StageOK(t, p1)
  BY <1>2 DEF Proper, StageOK, Works, Stages
<1>4. RoomOK(t)
  BY <1>1, <1>2 DEF Proper, RoomOK, StageOK, Works
<1>5. OnceOK(t)
  BY <1>1, <1>2 DEF Proper, OnceOK, StageOK, Works
<1>6. ReplyOK(x, t) /\ NoteOK(x, t, p1)
  BY <1>2 DEF ReplyOK, NoteOK, Works
<1>7. AckOK(x, t, p1)
  BY <1>2 DEF Proper, AckOK, Works, Ack
<1>8. FirstOK(x, t)
  BY <1>2 DEF Proper, FirstOK
<1>9. Proper(x, t, p1)
  BY <1>2, <1>3, <1>4, <1>5, <1>6, <1>7, <1>8 DEF Proper
<1>10. QED
  BY <1>9 DEF t

\* Nothing happens but that the response starts.
LEMMA SameProper ==
  ASSUME NEW x \in Sessions, NEW s, NEW p, Proper(x, s, p), NEW t \in Shape,
         t.stage = s.stage, t.requested = s.requested, t.finished = s.finished,
         t.accepted = s.accepted, t.events = s.events, t.holding = s.holding, t.told = s.told
  PROVE  Proper(x, t, p)
BY DEF Proper, StageOK, RoomOK, OnceOK, ReplyOK, NoteOK, AckOK, FirstOK, Works, Ack

\* What ~Issue says of a notification that the session takes.
Passes(x, s, m) ==
  /\ s.events < MaxEvents
  /\ x \in Listens =>
       \/ m.kind = "ack" /\ s.accepted = NotYet /\ m.of \subseteq s.requested
       \/ m.kind = "change" /\ s.accepted # NotYet /\ m.of \subseteq s.accepted

LEMMA IssuePasses ==
  ASSUME session \in [Sessions -> Shape], NEW x \in Sessions, NEW m \in Notes, ~Issue(x, m)
  PROVE  Passes(x, session[x], m)
<1>1. session[x].events \in 0 .. MaxEvents /\ MaxEvents \in Nat
  BY StreamSessionAssumption DEF Shape, StreamSessionAssumption
<1>2. m.kind \in {"ack", "change", "progress"}
  BY MessageFacts
<1>3. QED
  BY <1>1, <1>2 DEF Issue, Passes

\* A notification is taken.
LEMMA TakenProper ==
  ASSUME NEW x \in Sessions, NEW s, NEW p, Proper(x, s, p), Works(s), p \notin {"notify", "clean"},
         NEW m \in Notes, Passes(x, s, m), NEW p1, p1 = "notify"
  PROVE  LET t == [s EXCEPT !.events = @ + 1, !.holding = m,
                            !.accepted = IF m.kind = "ack" THEN m.of ELSE @]
         IN  t \in Shape /\ Proper(x, t, p1)
<1> DEFINE t == [s EXCEPT !.events = @ + 1, !.holding = m,
                          !.accepted = IF m.kind = "ack" THEN m.of ELSE @]
<1>0. /\ s \in Shape /\ s.told \in Seq(Messages) /\ Len(s.told) \in Nat
      /\ s.events \in 0 .. MaxEvents /\ MaxEvents \in Nat /\ s.stage = "app" /\ s.finished = FALSE
  BY StreamSessionAssumption DEF Proper, Shape, StageOK, Works, StreamSessionAssumption
<1>1. /\ m \in Messages /\ m \notin Answers /\ m.of \in SUBSET Changes
      /\ m.kind = "ack" => m = Message("ack", m.of)
  BY MessageFacts
<1>2. /\ t \in Shape /\ t.stage = s.stage /\ t.requested = s.requested /\ t.finished = s.finished
      /\ t.told = s.told /\ t.events = s.events + 1 /\ t.holding = m
      /\ t.accepted = IF m.kind = "ack" THEN m.of ELSE s.accepted
  <2> DEFINE a == IF m.kind = "ack" THEN m.of ELSE s.accepted
             e == s.events + 1
  <2>1. a \in (SUBSET Changes) \cup {NotYet} /\ e \in 0 .. MaxEvents
    BY <1>0, <1>1 DEF Passes, Shape
  <2>2. t = [s EXCEPT !.events = e, !.holding = m, !.accepted = a]
    BY <1>0 DEF Shape
  <2> HIDE DEF a, e, t
  <2>3. /\ t \in Shape /\ t.stage = s.stage /\ t.requested = s.requested /\ t.finished = s.finished
        /\ t.told = s.told /\ t.events = e /\ t.holding = m /\ t.accepted = a
    BY <1>0, <1>1, <2>1, <2>2 DEF Shape
  <2>4. QED
    BY <2>3 DEF a, e
<1> HIDE DEF t
<1>3. StageOK(t, p1) /\ ReplyOK(x, t) /\ FirstOK(x, t)
  BY <1>0, <1>2 DEF Proper, StageOK, ReplyOK, FirstOK
<1>4. RoomOK(t) /\ Len(t.told) < t.events
  BY <1>0, <1>2 DEF Proper, RoomOK
<1>5. OnceOK(t)
  BY <1>0, <1>2 DEF Proper, OnceOK
<1>6. x \in Listens => m.kind \in {"ack", "change"} /\ t.accepted # NotYet
                       /\ (m.kind = "ack" => t.holding = Ack(t) /\ s.told = <<>>)
                       /\ (m.kind = "change" => m.of \subseteq t.accepted /\ s.told # <<>>)
                       /\ t.accepted \subseteq t.requested
  <2>1. NotYet \notin SUBSET Changes
    BY StreamSessionAssumption DEF StreamSessionAssumption
  <2>2. QED
    BY <1>1, <1>2, <2>1 DEF Proper, AckOK, Passes, Ack, Message
<1>7. NoteOK(x, t, p1)
  BY <1>2, <1>4, <1>6 DEF NoteOK
<1>8. AckOK(x, t, p1)
  <2>1. x \in Listens /\ s.told # <<>> => m.kind = "change" /\ t.accepted = s.accepted
    BY <1>2, <1>6
  <2>2. QED
    BY <1>1, <1>2, <1>6, <2>1 DEF Proper, AckOK, Ack
<1>9. Proper(x, t, p1)
  BY <1>2, <1>3, <1>4, <1>5, <1>7, <1>8 DEF Proper
<1>10. QED
  BY <1>2, <1>9 DEF t

\* A notification is rejected.
LEMMA RejectedProper ==
  ASSUME NEW x \in Requests, NEW s, NEW p, Proper(x, s, p), Works(s), p \notin {"notify", "clean"},
         NEW p1
  PROVE  LET t == [s EXCEPT !.holding = Bad]
         IN  t \in Shape /\ Proper(x, t, p1)
<1> DEFINE t == [s EXCEPT !.holding = Bad]
<1>1. s \in Shape /\ s.stage = "app" /\ s.finished = FALSE
  BY DEF Proper, StageOK, Works, Shape
<1>2. /\ t \in Shape /\ t.stage = s.stage /\ t.requested = s.requested /\ t.finished = s.finished
      /\ t.told = s.told /\ t.events = s.events /\ t.holding = Bad /\ t.accepted = s.accepted
  BY <1>1 DEF Shape
<1> HIDE DEF t
<1>3. OnceOK(t) /\ RoomOK(t) /\ FirstOK(x, t)
  BY <1>1, <1>2 DEF Proper, OnceOK, RoomOK, FirstOK
<1>4. AckOK(x, t, p1)
  BY <1>1, <1>2 DEF Proper, AckOK, Works, Ack
<1>5. Proper(x, t, p1)
  BY <1>1, <1>2, <1>3, <1>4 DEF Proper, StageOK, ReplyOK, NoteOK
<1>6. QED
  BY <1>2, <1>5 DEF t

\* What s is once m is told.
Tells(s, m) == [s EXCEPT !.started = TRUE, !.holding = Nothing, !.told = Append(@, m)]

LEMMA TellsFields ==
  ASSUME NEW s \in Shape, NEW m \in Messages
  PROVE  LET t == Tells(s, m)
         IN /\ t \in Shape /\ t.stage = s.stage /\ t.requested = s.requested
            /\ t.finished = s.finished /\ t.accepted = s.accepted /\ t.events = s.events
            /\ t.holding = Nothing /\ t.told = Append(s.told, m)
<1>1. Append(s.told, m) \in Seq(Messages)
  BY DEF Shape
<1>2. QED
  BY <1>1 DEF Tells, Shape

\* The notification that is held is told.
LEMMA NotedProper ==
  ASSUME NEW x \in Sessions, NEW s, NEW p, Proper(x, s, p), Works(s), p = "notify",
         x \in Requests => s.holding # Bad, NEW p1, p1 # "notify"
  PROVE  s.holding \in Messages /\ Proper(x, Tells(s, s.holding), p1)
<1> DEFINE m == s.holding
           t == Tells(s, m)
           q == s.told
<1>0. /\ s \in Shape /\ q \in Seq(Messages) /\ s.stage = "app" /\ s.finished = FALSE
      /\ s.events \in 0 .. MaxEvents /\ MaxEvents \in Nat
  BY StreamSessionAssumption DEF Proper, StageOK, Works, Shape, StreamSessionAssumption
<1>1. /\ m \in Notes /\ Len(q) < s.events
      /\ x \in Listens =>
           /\ s.accepted # NotYet /\ s.accepted \subseteq s.requested
           /\ \/ m = Ack(s) /\ q = <<>>
              \/ m.kind = "change" /\ q # <<>> /\ q[1] = Ack(s) /\ m.of \subseteq s.accepted
  BY DEF Proper, NoteOK, AckOK
<1>2. m \in Messages /\ m \notin Answers /\ m # Error /\ Ack(s).kind = "ack" /\ Ack(s).of = s.accepted
  BY <1>1, MessageFacts DEF Ack, Message
<1>3. /\ t \in Shape /\ t.stage = s.stage /\ t.requested = s.requested
      /\ t.finished = s.finished /\ t.accepted = s.accepted /\ t.events = s.events
      /\ t.holding = Nothing /\ t.told = Append(q, m)
  BY <1>0, <1>2, TellsFields
<1>4. /\ t.told # <<>> /\ Len(t.told) = Len(q) + 1 /\ Len(q) \in Nat /\ t.told[Len(q) + 1] = m
      /\ \A i \in 1 .. Len(q) : t.told[i] = q[i]
      /\ \A i \in 1 .. Len(q) + 1 : i \in 1 .. Len(q) \/ i = Len(q) + 1
      /\ q = <<>> <=> Len(q) = 0
  BY <1>0, <1>2, <1>3, Told
<1> HIDE DEF t
<1>5. StageOK(t, p1) /\ ReplyOK(x, t) /\ NoteOK(x, t, p1)
  BY <1>0, <1>3 DEF StageOK, ReplyOK, NoteOK
<1>6. RoomOK(t)
  BY <1>0, <1>1, <1>3, <1>4 DEF RoomOK
<1>7. OnceOK(t)
  <2>1. \A i \in 1 .. Len(q) : q[i] \notin Answers
    BY <1>0 DEF Proper, OnceOK
  <2>2. QED
    BY <1>2, <1>4, <2>1 DEF OnceOK
<1>8. x \in Listens => t.told[1] = Ack(s) /\ Ack(t) = Ack(s)
  <2>1. q = <<>> => t.told[1] = m
    BY <1>4
  <2>2. q # <<>> => t.told[1] = q[1]
    BY <1>4
  <2>3. QED
    BY <1>1, <1>3, <2>1, <2>2 DEF Ack
<1>9. AckOK(x, t, p1)
  BY <1>1, <1>3, <1>4, <1>8 DEF AckOK
<1>10. FirstOK(x, t)
  <2> SUFFICES ASSUME x \in Listens, NEW i \in 1 .. Len(t.told)
               PROVE  /\ t.told[i].kind = "ack" <=> (i = 1 /\ t.told[i] # Error)
                      /\ t.told[i].kind = "change" => t.told[i].of \subseteq t.told[1].of
                      /\ t.told[i].kind \in {"ack", "change"} => t.told[i].of \subseteq t.requested
    BY DEF FirstOK
  <2>1. CASE i = Len(q) + 1
    <3>1. t.told[i] = m
      BY <1>4, <2>1
    <3>2. i = 1 <=> q = <<>>
      BY <1>4, <2>1
    <3>3. QED
      BY <1>1, <1>2, <1>3, <1>8, <3>1, <3>2
  <2>2. CASE i \in 1 .. Len(q)
    <3>1. t.told[i] = q[i] /\ q # <<>> /\ t.told[1] = q[1]
      BY <1>4, <2>2
    <3>2. QED
      BY <1>3, <2>2, <3>1 DEF Proper, FirstOK
  <2>3. QED
    BY <1>4, <2>1, <2>2
<1>11. QED
  BY <1>2, <1>3, <1>5, <1>6, <1>7, <1>9, <1>10 DEF Proper, t

\* An answer is at hand, or one that no subscription can have yet.
LEMMA AnsweredProper ==
  ASSUME NEW x \in Sessions, NEW s, NEW p, Proper(x, s, p), Works(s), p \notin {"notify", "clean"},
         NEW m \in Answers, NEW p1
  PROVE  /\ ~(x \in Listens /\ m = Result /\ s.accepted = NotYet) =>
              [s EXCEPT !.stage = "reply", !.holding = m] \in Shape
              /\ Proper(x, [s EXCEPT !.stage = "reply", !.holding = m], p1)
         /\ [s EXCEPT !.stage = "error"] \in Shape
         /\ Proper(x, [s EXCEPT !.stage = "error"], p1)
<1>0. s \in Shape /\ s.finished = FALSE /\ s.stage = "app" /\ m \in Messages
  BY MessageFacts DEF Proper, StageOK, Works, Shape
<1>1. ASSUME ~(x \in Listens /\ m = Result /\ s.accepted = NotYet)
      PROVE  [s EXCEPT !.stage = "reply", !.holding = m] \in Shape
             /\ Proper(x, [s EXCEPT !.stage = "reply", !.holding = m], p1)
  <2> DEFINE t == [s EXCEPT !.stage = "reply", !.holding = m]
  <2>1. /\ t \in Shape /\ t.stage = "reply" /\ t.requested = s.requested /\ t.finished = s.finished
        /\ t.told = s.told /\ t.events = s.events /\ t.holding = m /\ t.accepted = s.accepted
    BY <1>0 DEF Shape, Stages
  <2> HIDE DEF t
  <2>2. x \in Listens /\ m = Result => s.told # <<>>
    BY <1>1 DEF Proper, AckOK
  <2>3. OnceOK(t) /\ RoomOK(t)
    BY <1>0, <2>1 DEF Proper, OnceOK, RoomOK
  <2>4. Proper(x, t, p1)
    BY <1>0, <2>1, <2>2, <2>3 DEF Proper, StageOK, ReplyOK, NoteOK, AckOK, FirstOK, Works
  <2>5. QED
    BY <2>1, <2>4 DEF t
<1>2. [s EXCEPT !.stage = "error"] \in Shape /\ Proper(x, [s EXCEPT !.stage = "error"], p1)
  <2> DEFINE t == [s EXCEPT !.stage = "error"]
  <2>1. /\ t \in Shape /\ t.stage = "error" /\ t.requested = s.requested /\ t.finished = s.finished
        /\ t.told = s.told /\ t.events = s.events /\ t.accepted = s.accepted
    BY <1>0 DEF Shape, Stages
  <2> HIDE DEF t
  <2>2. OnceOK(t) /\ RoomOK(t)
    BY <1>0, <2>1 DEF Proper, OnceOK, RoomOK
  <2>3. Proper(x, t, p1)
    BY <1>0, <2>1, <2>2 DEF Proper, StageOK, ReplyOK, NoteOK, AckOK, FirstOK, Works
  <2>4. QED
    BY <2>1, <2>3 DEF t
<1>3. QED
  BY <1>1, <1>2

\* The last message is told, and nothing came before that does not go with it.
LEMMA LastTold ==
  ASSUME NEW x \in Sessions, NEW s \in Shape, NEW m \in Answers, NEW t, OnceOK(s), FirstOK(x, s),
         ~s.finished, s.stage # "over", t.told = Append(s.told, m), t.requested = s.requested,
         t.finished \/ t.stage = "over", x \in Listens /\ m = Result => s.told # <<>>
  PROVE  OnceOK(t) /\ FirstOK(x, t)
<1> DEFINE q == s.told
<1>1. q \in Seq(Messages) /\ m \in Messages /\ m.kind \in {"result", "error"} /\ (m = Error \/ m = Result)
  BY MessageFacts DEF Shape
<1>2. /\ Len(t.told) = Len(q) + 1 /\ Len(q) \in Nat /\ t.told[Len(q) + 1] = m
      /\ \A i \in 1 .. Len(q) : t.told[i] = q[i]
      /\ \A i \in 1 .. Len(q) + 1 : i \in 1 .. Len(q) \/ i = Len(q) + 1
      /\ q = <<>> <=> Len(q) = 0
  BY <1>1, Told
<1>3. \A i \in 1 .. Len(q) : q[i] \notin Answers
  BY DEF OnceOK
<1>4. OnceOK(t)
  BY <1>2, <1>3 DEF OnceOK
<1>5. FirstOK(x, t)
  <2> SUFFICES ASSUME x \in Listens, NEW i \in 1 .. Len(t.told)
               PROVE  /\ t.told[i].kind = "ack" <=> (i = 1 /\ t.told[i] # Error)
                      /\ t.told[i].kind = "change" => t.told[i].of \subseteq t.told[1].of
                      /\ t.told[i].kind \in {"ack", "change"} => t.told[i].of \subseteq t.requested
    BY DEF FirstOK
  <2>1. CASE i = Len(q) + 1
    <3>1. t.told[i] = m /\ (i = 1 <=> q = <<>>)
      BY <1>2, <2>1
    <3>2. QED
      BY <1>1, <3>1
  <2>2. CASE i \in 1 .. Len(q)
    <3>1. t.told[i] = q[i] /\ t.told[1] = q[1]
      BY <1>2, <2>2
    <3>2. QED
      BY <2>2, <3>1 DEF FirstOK
  <2>3. QED
    BY <1>2, <2>1, <2>2
<1>6. QED
  BY <1>4, <1>5

\* The answer is told.
LEMMA RepliedProper ==
  ASSUME NEW x \in Sessions, NEW s, NEW p, Proper(x, s, p), s.stage = "reply",
         NEW m \in {s.holding, Error}, NEW p1
  PROVE  /\ [Tells(s, m) EXCEPT !.stage = "tail", !.finished = TRUE] \in Shape
         /\ Proper(x, [Tells(s, m) EXCEPT !.stage = "tail", !.finished = TRUE], p1)
<1> DEFINE t == [Tells(s, m) EXCEPT !.stage = "tail", !.finished = TRUE]
           u == Tells(s, m)
<1>0. /\ s \in Shape /\ s.told \in Seq(Messages) /\ ~s.finished
      /\ s.events \in 0 .. MaxEvents /\ MaxEvents \in Nat
  BY StreamSessionAssumption DEF Proper, StageOK, Shape, StreamSessionAssumption
<1>1. m \in Answers /\ m \in Messages /\ (x \in Listens /\ m = Result => s.told # <<>>)
  BY MessageFacts DEF Proper, ReplyOK
<1>2. /\ u \in Shape /\ u.requested = s.requested /\ u.accepted = s.accepted
      /\ u.events = s.events /\ u.told = Append(s.told, m)
  BY <1>0, <1>1, TellsFields
<1> HIDE DEF u
<1>3. t = [u EXCEPT !.stage = "tail", !.finished = TRUE]
  BY DEF u
<1> HIDE DEF t
<1>4. /\ t \in Shape /\ t.stage = "tail" /\ t.requested = s.requested /\ t.finished
      /\ t.events = s.events /\ t.told = Append(s.told, m)
  BY <1>2, <1>3 DEF Shape, Stages
<1>5. OnceOK(t) /\ FirstOK(x, t)
  BY <1>0, <1>1, <1>4, LastTold DEF Proper
<1>6. RoomOK(t)
  <2>1. Len(t.told) = Len(s.told) + 1 /\ Len(s.told) \in Nat
    BY <1>0, <1>1, <1>4, Told
  <2>2. QED
    BY <1>0, <1>4, <2>1 DEF Proper, RoomOK
<1>7. Proper(x, t, p1)
  BY <1>4, <1>5, <1>6 DEF Proper, StageOK, ReplyOK, NoteOK, AckOK, Works
<1>8. QED
  BY <1>4, <1>7 DEF t, u

\* The error is told.
LEMMA FailedProper ==
  ASSUME NEW x \in Sessions, NEW s, NEW p, Proper(x, s, p), s.stage = "error",
         ~s.finished, NEW p1
  PROVE  Forgotten(Tells(s, Error)) \in Shape /\ Proper(x, Forgotten(Tells(s, Error)), p1)
<1> DEFINE u == Tells(s, Error)
           t == Gone(u, "over")
<1>0. /\ s \in Shape /\ s.told \in Seq(Messages)
      /\ s.events \in 0 .. MaxEvents /\ MaxEvents \in Nat
  BY StreamSessionAssumption DEF Proper, Shape, StreamSessionAssumption
<1>1. Error \in Answers /\ Error \in Messages /\ Error # Result /\ "over" \in Stages
  BY MessageFacts DEF Stages
<1>2. u \in Shape /\ u.requested = s.requested /\ u.told = Append(s.told, Error)
  BY <1>0, <1>1, TellsFields
<1> HIDE DEF u
<1>3. t \in Shape /\ t.stage = "over" /\ t.told = u.told /\ t.requested = u.requested /\ t.finished = FALSE
  BY <1>1, <1>2, GoneFields
<1>4. t = Forgotten(u)
  BY DEF Gone
<1> HIDE DEF t
<1>5. OnceOK(t) /\ FirstOK(x, t)
  BY <1>0, <1>1, <1>2, <1>3, LastTold DEF Proper
<1>6. RoomOK(t)
  <2>1. Len(t.told) = Len(s.told) + 1 /\ Len(s.told) \in Nat
    BY <1>0, <1>1, <1>2, <1>3, Told
  <2>2. QED
    BY <1>0, <1>3, <2>1 DEF Proper, RoomOK
<1>7. Proper(x, t, p1)
  BY <1>3, <1>5, <1>6 DEF Proper, StageOK, ReplyOK, NoteOK, AckOK, Works
<1>8. QED
  BY <1>3, <1>4, <1>7 DEF u

(* The requests of the sessions: the steps of others leave a request alone.     *)
LEMMA RequestFrame ==
  ASSUME IInv, NEW r \in Requests, RequestNext(r)
  PROVE  \A q \in Requests \ {r} : pc'[q] = pc[q] /\ next'[q] = next[q]
<1> USE DEF Goto
<1>1. /\ \A l : pc' = [pc EXCEPT ![r] = l] => \A q \in Requests \ {r} : pc'[q] = pc[q]
      /\ \A l : next' = [next EXCEPT ![r] = l] => \A q \in Requests \ {r} : next'[q] = next[q]
  BY DEF IInv, Typed
<1>2. ASSUME NEW l, pc' = [pc EXCEPT ![r] = l],
             next' = next \/ \E m : next' = [next EXCEPT ![r] = m]
      PROVE  \A q \in Requests \ {r} : pc'[q] = pc[q] /\ next'[q] = next[q]
  BY <1>1, <1>2
<1>3. CASE Arrive(r) \/ StartSpawn(r) \/ Written(r) \/ TakeNote(r) \/ Notified(r) \/ Gathered(r)
  BY <1>2, <1>3 DEF Arrive, StartSpawn, Written, TakeNote, Notified, Gathered
<1>4. CASE Join(r) \/ Spawned(r)
  <2>1. pc' = [pc EXCEPT ![r] = "write"]
    BY <1>4 DEF Join, Spawned, Register
  <2>2. next' = next \/ next' = [next EXCEPT ![r] = "none"]
    BY <1>4 DEF Join, Spawned
  <2>3. QED
    BY <1>2, <2>1, <2>2
<1>5. ASSUME NEW how, End(r, how)
      PROVE  \A q \in Requests \ {r} : pc'[q] = pc[q] /\ next'[q] = next[q]
  BY <1>2, <1>5 DEF End
<1>6. ASSUME NEW then, Aclose(r, then)
      PROVE  \A q \in Requests \ {r} : pc'[q] = pc[q] /\ next'[q] = next[q]
  BY <1>2, <1>6 DEF Aclose
<1>7. ASSUME NEW gone, CutOff(r, gone)
      PROVE  \A q \in Requests \ {r} : pc'[q] = pc[q] /\ next'[q] = next[q]
  BY <1>2, <1>5, <1>7 DEF CutOff, Done
<1>8. CASE Refused(r) \/ SpawnFails(r) \/ TakeError(r) \/ TakeAnswer(r)
  BY <1>5, <1>8 DEF Refused, SpawnFails, TakeError, TakeAnswer, Done
<1>9. CASE Restart(r) \/ CancelFails(r)
  BY <1>6, <1>9 DEF Restart, CancelFails
<1>10. CASE WriteFails(r) \/ NotifyFails(r) \/ BadAnswer(r) \/ TimesOut(r)
  BY <1>7, <1>10 DEF WriteFails, NotifyFails, BadAnswer, TimesOut
<1>11. CASE CancelSent(r)
  BY <1>5, <1>6, <1>11 DEF CancelSent, Done
<1>12. CASE Reaped(r)
  BY <1>2, <1>5, <1>6, <1>12 DEF Reaped, Done
<1>13. CASE Cancel(r)
  BY <1>5, <1>7, <1>13 DEF Cancel, Done
<1>14. QED
  BY <1>3, <1>4, <1>8, <1>9, <1>10, <1>11, <1>12, <1>13 DEF RequestNext, Enter, Proceed

\* A request that its session only follows ends, or is not about to notify, and does
\* not leave a clean-up.
Follows(r) ==
  \/ pc'[r] \in {"done", "dropped"}
  \/ pc'[r] # "notify" /\ (pc[r] = "notify" \/ Cleaning(r) => Cleaning(r)')

LEMMA CutOffFollows ==
  ASSUME IInv, NEW r \in Requests, NEW gone, CutOff(r, gone), pc[r] \in InFlight
  PROVE  pc'[r] = "done" \/ (pc'[r] = "cancel" /\ Cleaning(r)')
<1>1. next[r] = "none"
  BY DEF IInv, Typed, LockOK, InFlight
<1>2. CASE Done(r)
  BY <1>2 DEF Done, End, Goto, IInv, Typed
<1>3. CASE Goto(r, "cancel") /\ next' = next
  BY <1>1, <1>3 DEF Goto, IInv, Typed, Cleaning
<1>4. QED
  BY <1>2, <1>3 DEF CutOff

LEMMA FollowedStep ==
  ASSUME IInv, NEW r \in Requests,
         \/ Arrive(r) \/ Enter(r) \/ TimesOut(r)
         \/ Spawned(r) \/ SpawnFails(r) \/ Written(r) \/ WriteFails(r)
         \/ TakeError(r) \/ BadAnswer(r) \/ NotifyFails(r)
         \/ CancelSent(r) \/ CancelFails(r) \/ Gathered(r) \/ Reaped(r)
  PROVE  Follows(r)
<1> USE DEF Goto, Cleaning, Follows
<1>0. pc \in [Requests -> Labels] /\ next \in [Requests -> {"none", "spawn", "check", "leave"}]
  BY DEF IInv, Typed
<1>1. CASE Arrive(r) \/ StartSpawn(r) \/ Written(r)
  BY <1>0, <1>1 DEF Arrive, StartSpawn, HasLock, Written
<1>2. CASE Join(r) \/ Spawned(r)
  <2>1. pc' = [pc EXCEPT ![r] = "write"] /\ pc[r] \in {"wait", "spawn"}
    BY <1>2 DEF Join, HasLock, Spawned, Register
  <2>2. QED
    BY <1>0, <2>1
<1>3. ASSUME NEW how \in {"done", "dropped"}, End(r, how)
      PROVE  Follows(r)
  BY <1>0, <1>3 DEF End
<1>4. CASE Refused(r) \/ SpawnFails(r) \/ TakeError(r)
  BY <1>3, <1>4 DEF Refused, SpawnFails, TakeError, Done
<1>5. ASSUME NEW then \in {"check", "leave"}, Aclose(r, then)
      PROVE  Follows(r)
  BY <1>0, <1>5 DEF Aclose
<1>6. CASE Restart(r)
  BY <1>0, <1>6 DEF Restart, HasLock, Aclose
<1>7. CASE CancelFails(r)
  BY <1>5, <1>7 DEF CancelFails
<1>8. CASE CancelSent(r)
  BY <1>3, <1>5, <1>8 DEF CancelSent, Done
<1>9. CASE Gathered(r)
  BY <1>0, <1>9 DEF Gathered
<1>10. CASE Reaped(r)
  <2>1. CASE next[r] = "spawn" /\ Goto(r, "spawn") /\ pc[r] = "reap"
    BY <1>0, <2>1
  <2>2. QED
    BY <1>3, <1>5, <1>10, <2>1 DEF Reaped, Done
<1>11. CASE WriteFails(r) \/ NotifyFails(r) \/ BadAnswer(r) \/ TimesOut(r)
  <2>1. pc[r] \in InFlight /\ CutOff(r, FALSE)
    BY <1>11 DEF WriteFails, NotifyFails, BadAnswer, TimesOut, Take, InFlight
  <2>2. QED
    BY <2>1, CutOffFollows
<1>12. QED
  BY <1>1, <1>2, <1>4, <1>6, <1>7, <1>8, <1>9, <1>10, <1>11 DEF Enter

\* A cancelled request ends or tells the child.
LEMMA CancelledStep ==
  ASSUME IInv, NEW r \in Requests, Cancel(r)
  PROVE  pc'[r] \in {"done", "dropped"} \/ (pc'[r] = "cancel" /\ Cleaning(r)')
<1>1. ASSUME NEW how \in {"done", "dropped"}, End(r, how)
      PROVE  pc'[r] \in {"done", "dropped"}
  BY <1>1 DEF End, Goto, IInv, Typed
<1>2. CASE pc[r] \in {"write", "get", "notify"} /\ CutOff(r, TRUE)
  BY <1>2, CutOffFollows DEF InFlight
<1>3. QED
  BY <1>1, <1>2 DEF Cancel, Done
-------------------------------------------------------------------------------
(* The steps of the sessions, one by one.                                    *)

LEMMA SessionChange ==
  ASSUME SInv, NEW x \in Sessions, NEW t \in Shape, session' = [session EXCEPT ![x] = t],
         Proper(x, t, Phase(x)'), HttpOK', stuck' = stuck,
         \A y \in Sessions \ {x} : Phase(y)' = Phase(y)
  PROVE  SInv'
<1>1. session' \in [Sessions -> Shape]
  BY DEF SInv
<1>2. ASSUME NEW y \in Sessions
      PROVE  Proper(y, session'[y], Phase(y)')
  <2>1. CASE y = x
    BY <2>1 DEF SInv
  <2>2. CASE y # x
    <3>1. session'[y] = session[y] /\ session[y] \in Shape
      BY <2>2 DEF SInv
    <3>2. Proper(y, session[y], Phase(y)) /\ Phase(y)' = Phase(y)
      BY <2>2 DEF SInv
    <3>3. QED
      BY <3>1, <3>2
  <2>3. QED
    BY <2>1, <2>2
<1>3. QED
  BY <1>1, <1>2 DEF SInv

LEMMA HttpSame ==
  ASSUME HttpOK, http' = http
  PROVE  HttpOK'
BY DEF HttpOK

\* Of the steps of a request.
LEMMA RequestChange ==
  ASSUME IInv, SInv, NEW r \in Requests, RequestNext(r), UNCHANGED <<http, stuck>>, NEW t \in Shape,
         session' = [session EXCEPT ![r] = t], Proper(r, t, Phase(r)')
  PROVE  SInv'
<1> USE StreamSessionAssumption DEF StreamSessionAssumption
<1>1. HttpOK'
  BY HttpSame DEF SInv
<1>2. r \in Sessions
  BY DEF Sessions
<1>3. \A y \in Sessions \ {r} : Phase(y)' = Phase(y)
  BY RequestFrame DEF Sessions, Phase, Notifying, Cleaning
<1>4. QED
  BY <1>1, <1>2, <1>3, SessionChange

\* What a request is about is where it is.
LEMMA RequestPhase ==
  ASSUME NEW r \in Requests
  PROVE  /\ r \in Sessions /\ r \notin Remote
         /\ Phase(r) = IF pc[r] = "notify" THEN "notify"
                       ELSE IF Cleaning(r) THEN "clean" ELSE "other"
         /\ Phase(r)' = IF pc'[r] = "notify" THEN "notify"
                        ELSE IF Cleaning(r)' THEN "clean" ELSE "other"
BY StreamSessionAssumption DEF StreamSessionAssumption, Sessions, Phase, Notifying

LEMMA FollowInv ==
  ASSUME IInv, SInv, NEW r \in Requests, RequestNext(r), Follows(r), Working(r), Follow(r),
         UNCHANGED <<http, stuck>>
  PROVE  SInv'
<1> DEFINE s == session[r]
           stage == IF pc'[r] \in {"done", "dropped"} THEN After(s.stage) ELSE s.stage
<1>1. r \in Sessions /\ s \in Shape /\ Proper(r, s, Phase(r)) /\ Works(s)
  BY RequestPhase DEF SInv, Working, Stage, Works
<1>2. stage \in Stages \ {"reply", "tail", "over"}
  BY <1>1 DEF Works, Stages, After
<1>3. Goes(r, stage)
  BY DEF Follow, Stage
<1>4. session' = [session EXCEPT ![r] = Gone(s, stage)]
  BY <1>1, <1>2, <1>3, GoesTo DEF SInv
<1>5. Gone(s, stage) \in Shape
  BY <1>1, <1>2, GoneFields
<1>6. Proper(r, Gone(s, stage), Phase(r)')
  <2>1. CASE pc'[r] \in {"done", "dropped"}
    <3>1. stage \in {"error", "left"}
      BY <1>1, <2>1 DEF Works, After
    <3>2. s.stage \notin {"over", "left"}
      BY <1>1 DEF Works
    <3> HIDE DEF s, stage
    <3>3. QED
      BY <1>1, <1>2, <3>1, <3>2, GoneProper
  <2>2. CASE pc'[r] \notin {"done", "dropped"}
    <3>1. stage = s.stage /\ stage \in {"app", "expiring", "leaving"}
      BY <1>1, <2>2 DEF Works
    <3>2. Phase(r)' # "notify" /\ (Phase(r) \in {"notify", "clean"} => Phase(r)' = "clean")
      BY <2>2, RequestPhase DEF Follows
    <3>3. stage \in {"expiring", "leaving"} => Phase(r) = "clean"
      BY <1>1, <3>1 DEF Proper, StageOK
    <3> HIDE DEF s, stage
    <3>4. QED
      BY <1>1, <1>2, <3>1, <3>2, <3>3, GoneProper
  <2>3. QED
    BY <2>1, <2>2
<1>7. QED
  BY <1>4, <1>5, <1>6, RequestChange

LEMMA RequestInvStep ==
  ASSUME IInv, SInv, NEW r \in Requests, Turns(r) \/ RequestStep(r) \/ NoAnswerInTime(r)
  PROVE  SInv'
<1> DEFINE s == session[r]
<1>1. r \in Sessions /\ s \in Shape /\ Proper(r, s, Phase(r))
  BY RequestPhase DEF SInv
<1>2. Works(s)
  BY DEF Turns, RequestStep, Continues, ReceivesNote, SendsNote, ReceivesAnswer, NoAnswerInTime,
         Working, Stage, Works
<1>3. session \in [Sessions -> Shape] /\ pc \in [Requests -> Labels]
  BY DEF SInv, IInv, Typed
<1>4. CASE Turns(r) \/ Continues(r) \/ NoAnswerInTime(r)
  <2>1. Follows(r)
    BY <1>4, FollowedStep DEF Turns, Continues, NoAnswerInTime
  <2>2. RequestNext(r)
    BY <1>4 DEF Turns, Continues, NoAnswerInTime, RequestNext, Proceed
  <2>3. Working(r) /\ Follow(r) /\ UNCHANGED <<http, stuck>>
    BY <1>4 DEF Turns, Continues, NoAnswerInTime
  <2>4. QED
    BY <2>1, <2>2, <2>3, FollowInv
<1>5. CASE ReceivesNote(r)
  <2>1. /\ RequestNext(r) /\ Phase(r) = "other" /\ Phase(r)' = "notify"
        /\ UNCHANGED <<http, stuck>>
    BY <1>3, <1>5, RequestPhase DEF ReceivesNote, TakeNote, Take, Goto, RequestNext, Proceed, Cleaning
  <2>2. ASSUME NEW m \in Notes, ~Issue(r, m), Takes(r, m)
        PROVE  SInv'
    <3> DEFINE t == [s EXCEPT !.events = @ + 1, !.holding = m,
                              !.accepted = IF m.kind = "ack" THEN m.of ELSE @]
    <3>1. Passes(r, s, m)
      BY <1>1, <1>3, <2>2, IssuePasses
    <3>2. t \in Shape /\ Proper(r, t, Phase(r)')
      BY <1>1, <1>2, <2>1, <3>1, TakenProper
    <3>3. session' = [session EXCEPT ![r] = t]
      BY <2>2 DEF Takes
    <3> HIDE DEF t
    <3>4. QED
      BY <2>1, <3>2, <3>3, RequestChange
  <2>3. CASE session' = [session EXCEPT ![r].holding = Bad]
    <3> DEFINE t == [s EXCEPT !.holding = Bad]
    <3>1. t \in Shape /\ Proper(r, t, Phase(r)')
      BY <1>1, <1>2, <2>1, RejectedProper
    <3>2. session' = [session EXCEPT ![r] = t]
      BY <2>3
    <3> HIDE DEF t
    <3>3. QED
      BY <2>1, <3>1, <3>2, RequestChange
  <2>4. QED
    BY <1>5, <2>2, <2>3 DEF ReceivesNote
<1>6. CASE SendsNote(r)
  <2>1. /\ RequestNext(r) /\ Phase(r) = "notify" /\ Phase(r)' = "other"
        /\ s.holding # Bad /\ UNCHANGED <<http, stuck>>
    BY <1>3, <1>6, RequestPhase DEF SendsNote, Notified, Goto, RequestNext, Proceed, Cleaning
  <2>2. s.holding \in Messages /\ Proper(r, Tells(s, s.holding), Phase(r)')
    BY <1>1, <1>2, <2>1, NotedProper
  <2>3. Tells(s, s.holding) \in Shape
    BY <1>1, <2>2, TellsFields
  <2>4. session' = [session EXCEPT ![r] = Tells(s, s.holding)]
    BY <1>6 DEF SendsNote, Sent, Tells
  <2> HIDE DEF s
  <2>5. QED
    BY <2>1, <2>2, <2>3, <2>4, RequestChange
<1>7. CASE ReceivesAnswer(r)
  <2>1. RequestNext(r) /\ Phase(r) = "other" /\ UNCHANGED <<http, stuck>>
    BY <1>3, <1>7, RequestPhase DEF ReceivesAnswer, TakeAnswer, Take, Goto, RequestNext, Proceed, Cleaning
  <2>2. PICK m \in Answers : Answered(r, m)
    BY <1>7 DEF ReceivesAnswer
  <2> DEFINE u == [s EXCEPT !.stage = "reply", !.holding = m]
             v == [s EXCEPT !.stage = "error"]
  <2>3. /\ Accepts(r, m) => u \in Shape /\ Proper(r, u, Phase(r)')
        /\ v \in Shape /\ Proper(r, v, Phase(r)')
    BY <1>1, <1>2, <2>1, AnsweredProper DEF Accepts
  <2>4. session' = [session EXCEPT ![r] = IF Accepts(r, m) THEN u ELSE v]
    BY <2>2 DEF Answered
  <2> HIDE DEF u, v
  <2>5. QED
    BY <2>1, <2>3, <2>4, RequestChange
<1>8. QED
  BY <1>4, <1>5, <1>6, <1>7 DEF RequestStep

\* Wherever forward_http() goes, its state has its fields.
LEMMA HttpChange ==
  ASSUME NEW D, NEW F, NEW U, http \in [Remote -> HttpType(D, F, U)], NEW x \in Remote,
         NEW D1, NEW F1, NEW U1, NEW h \in HttpType(D \cup D1, F \cup F1, U \cup U1),
         http' = [http EXCEPT ![x] = h]
  PROVE  HttpOK' /\ http'[x] = h /\ \A y \in Remote \ {x} : http'[y] = http[y]
<1>1. http'[x] = h /\ \A y \in Remote \ {x} : http'[y] = http[y]
  OBVIOUS
<1>2. \A y \in Remote : http[y] \in HttpType(D \cup D1, F \cup F1, U \cup U1)
  BY DEF HttpType
<1>3. http' \in [Remote -> HttpType(D \cup D1, F \cup F1, U \cup U1)]
  BY <1>2
<1>4. QED
  BY <1>1, <1>3 DEF HttpOK

LEMMA HttpTo ==
  ASSUME HttpOK, NEW x \in Remote, NEW at \in HttpStages,
         http' = [http EXCEPT ![x] = [http[x] EXCEPT !.at = at]]
  PROVE  HttpOK' /\ http'[x].at = at /\ \A y \in Remote \ {x} : http'[y] = http[y]
<1> DEFINE h == [http[x] EXCEPT !.at = at]
<1>1. PICK D, F, U : http \in [Remote -> HttpType(D, F, U)]
  BY DEF HttpOK
<1>2. h \in HttpType(D \cup {}, F \cup {}, U \cup {}) /\ h.at = at
  BY <1>1 DEF HttpType, HttpStages
<1>3. http' = [http EXCEPT ![x] = h]
  OBVIOUS
<1> HIDE DEF h
<1>4. QED
  BY <1>1, <1>2, <1>3, HttpChange

LEMMA HttpReads ==
  ASSUME HttpOK, NEW x \in Remote, NEW d,
         http' = [http EXCEPT ![x] = [http[x] EXCEPT !.at = "read", !.decoder = d]]
  PROVE  HttpOK' /\ http'[x].at = "read" /\ \A y \in Remote \ {x} : http'[y] = http[y]
<1> DEFINE h == [http[x] EXCEPT !.at = "read", !.decoder = d]
<1>1. PICK D, F, U : http \in [Remote -> HttpType(D, F, U)]
  BY DEF HttpOK
<1>2. h \in HttpType(D \cup {d}, F \cup {}, U \cup {}) /\ h.at = "read"
  BY <1>1 DEF HttpType, HttpStages
<1>3. http' = [http EXCEPT ![x] = h]
  OBVIOUS
<1> HIDE DEF h
<1>4. QED
  BY <1>1, <1>2, <1>3, HttpChange

LEMMA HttpFeeds ==
  ASSUME HttpOK, NEW x \in Remote, NEW d, NEW f,
         http' = [http EXCEPT ![x] = [http[x] EXCEPT !.at = "events", !.fed = f, !.decoder = d]]
  PROVE  HttpOK' /\ http'[x].at = "events" /\ \A y \in Remote \ {x} : http'[y] = http[y]
<1> DEFINE h == [http[x] EXCEPT !.at = "events", !.fed = f, !.decoder = d]
<1>1. PICK D, F, U : http \in [Remote -> HttpType(D, F, U)]
  BY DEF HttpOK
<1>2. h \in HttpType(D \cup {d}, F \cup {f}, U \cup {}) /\ h.at = "events"
  BY <1>1 DEF HttpType, HttpStages
<1>3. http' = [http EXCEPT ![x] = h]
  OBVIOUS
<1> HIDE DEF h
<1>4. QED
  BY <1>1, <1>2, <1>3, HttpChange

LEMMA HttpFinishes ==
  ASSUME HttpOK, NEW x \in Remote, NEW d, NEW f,
         http' = [http EXCEPT ![x] = [http[x] EXCEPT !.at = "events", !.ended = TRUE, !.fed = f, !.decoder = d]]
  PROVE  HttpOK' /\ http'[x].at = "events" /\ \A y \in Remote \ {x} : http'[y] = http[y]
<1> DEFINE h == [http[x] EXCEPT !.at = "events", !.ended = TRUE, !.fed = f, !.decoder = d]
<1>1. PICK D, F, U : http \in [Remote -> HttpType(D, F, U)]
  BY DEF HttpOK
<1>2. h \in HttpType(D \cup {d}, F \cup {f}, U \cup {}) /\ h.at = "events"
  BY <1>1 DEF HttpType, HttpStages
<1>3. http' = [http EXCEPT ![x] = h]
  OBVIOUS
<1> HIDE DEF h
<1>4. QED
  BY <1>1, <1>2, <1>3, HttpChange

LEMMA HttpFinds ==
  ASSUME HttpOK, NEW x \in Remote, NEW d, NEW u,
         http' = [http EXCEPT ![x] = [http[x] EXCEPT !.decoder = d, !.found = u]]
  PROVE  HttpOK' /\ http'[x].at = http[x].at /\ \A y \in Remote \ {x} : http'[y] = http[y]
<1> DEFINE h == [http[x] EXCEPT !.decoder = d, !.found = u]
<1>1. PICK D, F, U : http \in [Remote -> HttpType(D, F, U)]
  BY DEF HttpOK
<1>2. h \in HttpType(D \cup {d}, F \cup {}, U \cup {u}) /\ h.at = http[x].at
  BY <1>1 DEF HttpType, HttpStages
<1>3. http' = [http EXCEPT ![x] = h]
  OBVIOUS
<1> HIDE DEF h
<1>4. QED
  BY <1>1, <1>2, <1>3, HttpChange

LEMMA HttpNotifies ==
  ASSUME HttpOK, NEW x \in Remote, NEW d, NEW u,
         http' = [http EXCEPT ![x] = [[http[x] EXCEPT !.decoder = d, !.found = u] EXCEPT !.at = "notify"]]
  PROVE  HttpOK' /\ http'[x].at = "notify" /\ \A y \in Remote \ {x} : http'[y] = http[y]
<1> DEFINE h == [[http[x] EXCEPT !.decoder = d, !.found = u] EXCEPT !.at = "notify"]
<1>1. PICK D, F, U : http \in [Remote -> HttpType(D, F, U)]
  BY DEF HttpOK
<1>2. h \in HttpType(D \cup {d}, F \cup {}, U \cup {u}) /\ h.at = "notify"
  BY <1>1 DEF HttpType, HttpStages
<1>3. http' = [http EXCEPT ![x] = h]
  OBVIOUS
<1> HIDE DEF h
<1>4. QED
  BY <1>1, <1>2, <1>3, HttpChange

LEMMA HttpRecord ==
  ASSUME NEW D, NEW F, NEW U, NEW at \in HttpStages, NEW d \in D, NEW f \in F, NEW u \in U,
         NEW h, h = [at |-> at, decoder |-> d, fed |-> f, found |-> u, ended |-> FALSE]
  PROVE  h \in HttpType(D, F, U) /\ h.at = at
BY DEF HttpType

LEMMA HttpCloses ==
  ASSUME HttpOK, NEW x \in Remote,
         http' = [http EXCEPT ![x] = Idle("closed")]
  PROVE  HttpOK' /\ http'[x].at = "closed" /\ \A y \in Remote \ {x} : http'[y] = http[y]
<1> DEFINE h == Idle("closed")
<1>1. PICK D, F, U : http \in [Remote -> HttpType(D, F, U)]
  BY DEF HttpOK
<1>2. h \in HttpType(D \cup {NewDecoder}, F \cup {<<>>}, U \cup {<<>>}) /\ h.at = "closed"
  <2>1. /\ NewDecoder \in D \cup {NewDecoder} /\ <<>> \in F \cup {<<>>} /\ <<>> \in U \cup {<<>>}
        /\ "closed" \in HttpStages
    BY DEF HttpStages
  <2>2. h = [at |-> "closed", decoder |-> NewDecoder, fed |-> <<>>, found |-> <<>>, ended |-> FALSE]
    BY DEF Idle
  <2>3. QED
    BY <2>1, <2>2, HttpRecord
<1>3. http' = [http EXCEPT ![x] = h]
  OBVIOUS
<1> HIDE DEF h
<1>4. QED
  BY <1>1, <1>2, <1>3, HttpChange

\* What a remote session is about, and that it leaves the others alone.
LEMMA RemotePhase ==
  ASSUME NEW x \in Remote
  PROVE  /\ x \in Sessions /\ x \notin Requests
         /\ Phase(x) = IF http[x].at = "notify" THEN "notify" ELSE "other"
         /\ Phase(x)' = IF http'[x].at = "notify" THEN "notify" ELSE "other"
BY StreamSessionAssumption DEF StreamSessionAssumption, Sessions, Phase, Notifying, Cleaning

LEMMA RemoteFrame ==
  ASSUME NEW x \in Remote, UNCHANGED <<pc, next>>,
         \A y \in Remote \ {x} : http'[y] = http[y]
  PROVE  \A y \in Sessions \ {x} : Phase(y)' = Phase(y)
BY StreamSessionAssumption DEF StreamSessionAssumption, Sessions, Phase, Notifying, Cleaning

\* A session goes on where no request does.
LEMMA ChangeInv ==
  ASSUME SInv, NEW x \in Sessions, UNCHANGED <<pc, next, stuck>>, HttpOK',
         \A y \in Remote \ {x} : http'[y] = http[y],
         NEW t \in Shape, session' = [session EXCEPT ![x] = t], Proper(x, t, Phase(x)')
  PROVE  SInv'
<1>1. \A y \in Sessions \ {x} : Phase(y)' = Phase(y)
  BY DEF Sessions, Phase, Notifying, Cleaning
<1>2. QED
  BY <1>1, SessionChange

LEMMA ClosedHttp ==
  ASSUME HttpOK, NEW x \in Sessions, ClosedIfRemote(x) \/ (x \in Remote /\ Closed(x)) \/ UNCHANGED http
  PROVE  HttpOK' /\ \A y \in Remote \ {x} : http'[y] = http[y]
<1>1. CASE x \in Remote /\ Closed(x)
  BY <1>1, HttpCloses DEF Closed
<1>2. CASE http' = http
  BY <1>2, HttpSame
<1>3. QED
  BY <1>1, <1>2 DEF ClosedIfRemote

LEMMA AnsweredStep ==
  ASSUME SInv, NEW x \in Sessions, Working(x), Phase(x) \notin {"notify", "clean"},
         NEW m \in Answers, Answered(x, m), NEW p
  PROVE  \E t \in Shape : session' = [session EXCEPT ![x] = t] /\ Proper(x, t, p)
<1> DEFINE s == session[x]
           u == [s EXCEPT !.stage = "reply", !.holding = m]
           v == [s EXCEPT !.stage = "error"]
<1>1. Proper(x, s, Phase(x)) /\ Works(s)
  BY DEF SInv, Working, Stage, Works
<1>2. /\ Accepts(x, m) => u \in Shape /\ Proper(x, u, p)
      /\ v \in Shape /\ Proper(x, v, p)
  BY <1>1, AnsweredProper DEF Accepts
<1>3. session' = [session EXCEPT ![x] = IF Accepts(x, m) THEN u ELSE v]
  BY DEF Answered
<1> HIDE DEF u, v
<1>4. QED
  BY <1>2, <1>3

LEMMA GoesStep ==
  ASSUME SInv, NEW x \in Sessions, Stage(x) \notin {"over", "left"},
         NEW stage \in {"error", "left", "over"}, Goes(x, stage), NEW p
  PROVE  \E t \in Shape : session' = [session EXCEPT ![x] = t] /\ Proper(x, t, p)
<1> DEFINE s == session[x]
<1>1. s \in Shape /\ Proper(x, s, Phase(x)) /\ s.stage \notin {"over", "left"}
  BY DEF SInv, Stage
<1>2. stage \in Stages /\ stage # "reply"
  BY DEF Stages
<1>3. session' = [session EXCEPT ![x] = Gone(s, stage)]
  BY <1>2, GoesTo DEF SInv
<1>4. Gone(s, stage) \in Shape
  BY <1>1, <1>2, GoneFields
<1> HIDE DEF s
<1>5. Proper(x, Gone(s, stage), p)
  BY <1>1, <1>2, GoneProper
<1>6. QED
  BY <1>3, <1>4, <1>5

LEMMA HttpInvStep ==
  ASSUME SInv, NEW x \in Remote, HttpStep(x)
  PROVE  SInv'
<1> DEFINE s == session[x]
<1>0. x \in Sessions /\ x \notin Requests /\ UNCHANGED <<pc, next, stuck>>
  BY RemotePhase DEF HttpStep, muxVars, tasks
<1>1. /\ s \in Shape /\ Proper(x, s, Phase(x)) /\ session \in [Sessions -> Shape] /\ HttpOK
      /\ \A at : At(x, at) => Works(s) /\ Working(x)
                              /\ Phase(x) = IF at = "notify" THEN "notify" ELSE "other"
  BY <1>0, RemotePhase DEF SInv, At, Stage, Works, Working
<1>2. ASSUME Goes(x, "error"), Closed(x), Works(s)
      PROVE  SInv'
  <2>1. HttpOK' /\ \A y \in Remote \ {x} : http'[y] = http[y]
    BY <1>0, <1>1, <1>2, ClosedHttp
  <2>2. Stage(x) \notin {"over", "left"}
    BY <1>2 DEF Works, Stage
  <2>3. \E t \in Shape : session' = [session EXCEPT ![x] = t] /\ Proper(x, t, Phase(x)')
    BY <1>0, <1>2, <2>2, GoesStep
  <2>4. QED
    BY <1>0, <2>1, <2>3, ChangeInv
<1>3. ASSUME NEW m \in Answers, Answered(x, m), Closed(x), Working(x), Phase(x) = "other"
      PROVE  SInv'
  <2>1. HttpOK' /\ \A y \in Remote \ {x} : http'[y] = http[y]
    BY <1>0, <1>1, <1>3, ClosedHttp
  <2>2. \E t \in Shape : session' = [session EXCEPT ![x] = t] /\ Proper(x, t, Phase(x)')
    BY <1>0, <1>3, AnsweredStep
  <2>3. QED
    BY <1>0, <2>1, <2>2, ChangeInv
<1>4. ASSUME session' = session, HttpOK', \A y \in Remote \ {x} : http'[y] = http[y],
             Phase(x)' = "other", Phase(x) = "other"
      PROVE  SInv'
  <2>1. session' = [session EXCEPT ![x] = s]
    BY <1>1, <1>4
  <2>2. Phase(x)' = Phase(x)
    BY <1>4
  <2>3. s \in Shape /\ Proper(x, s, Phase(x)')
    BY <1>1, <2>2
  <2> HIDE DEF s
  <2>4. QED
    BY <1>0, <1>4, <2>1, <2>3, ChangeInv
<1>5. CASE HttpJson(x)
  BY <1>1, <1>3, <1>5 DEF HttpJson
<1>6. CASE HttpStream(x)
  <2>1. HttpOK' /\ http'[x].at = "start" /\ \A y \in Remote \ {x} : http'[y] = http[y]
    <3>1. "start" \in HttpStages /\ http' = [http EXCEPT ![x] = [http[x] EXCEPT !.at = "start"]]
      BY <1>6 DEF HttpStream, HttpStages
    <3>2. QED
      BY <1>1, <3>1, HttpTo
  <2>2. Phase(x)' = "other" /\ Phase(x) = "other"
    BY <1>1, <1>6, <2>1, RemotePhase DEF HttpStream
  <2>3. QED
    BY <1>4, <1>6, <2>1, <2>2 DEF HttpStream
<1>7. CASE SendsHead(x)
  <2> DEFINE t == [s EXCEPT !.started = TRUE]
  <2>1. HttpOK' /\ http'[x].at = "read" /\ \A y \in Remote \ {x} : http'[y] = http[y]
    <3>1. "read" \in HttpStages /\ http' = [http EXCEPT ![x] = [http[x] EXCEPT !.at = "read"]]
      BY <1>7 DEF SendsHead, HttpStages
    <3>2. QED
      BY <1>1, <3>1, HttpTo
  <2>2. Phase(x)' = Phase(x)
    BY <1>1, <1>7, <2>1, RemotePhase DEF SendsHead
  <2>3. /\ t \in Shape /\ t.stage = s.stage /\ t.requested = s.requested
        /\ t.finished = s.finished /\ t.accepted = s.accepted /\ t.events = s.events
        /\ t.holding = s.holding /\ t.told = s.told
    BY <1>1 DEF Shape
  <2>4. session' = [session EXCEPT ![x] = t]
    BY <1>7 DEF SendsHead
  <2> HIDE DEF t
  <2>5. Proper(x, t, Phase(x))
    BY <1>0, <1>1, <2>3, SameProper
  <2>6. QED
    BY <1>0, <2>1, <2>2, <2>3, <2>4, <2>5, ChangeInv
<1>8. CASE HttpFails(x) \/ TooMuch(x) \/ TooLong(x)
  BY <1>1, <1>2, <1>8 DEF HttpFails, TooMuch, TooLong
<1>9. CASE Chunk(x) \/ EndOfBody(x)
  <2>1. HttpOK' /\ http'[x].at = "events" /\ \A y \in Remote \ {x} : http'[y] = http[y]
    <3>1. CASE Chunk(x)
      <4>1. PICK d, f : http' = [http EXCEPT ![x] =
                          [http[x] EXCEPT !.at = "events", !.fed = f, !.decoder = d]]
        BY <3>1 DEF Chunk
      <4>2. QED
        BY <1>1, <4>1, HttpFeeds
    <3>2. CASE EndOfBody(x)
      <4>1. PICK d, f : http' = [http EXCEPT ![x] =
                          [http[x] EXCEPT !.at = "events", !.ended = TRUE, !.fed = f, !.decoder = d]]
        BY <3>2 DEF EndOfBody
      <4>2. QED
        BY <1>1, <4>1, HttpFinishes
    <3>3. QED
      BY <1>9, <3>1, <3>2
  <2>2. Phase(x)' = "other" /\ Phase(x) = "other"
    <3>1. At(x, "read")
      BY <1>9 DEF Chunk, EndOfBody
    <3>2. QED
      BY <1>1, <2>1, <3>1, RemotePhase
  <2>3. QED
    BY <1>4, <1>9, <2>1, <2>2 DEF Chunk, EndOfBody
<1>10. CASE NoMoreEvents(x)
  <2>1. At(x, "events")
    BY <1>10 DEF NoMoreEvents
  <2>2. CASE Goes(x, "error") /\ Closed(x)
    BY <1>1, <1>2, <2>1, <2>2
  <2>3. ASSUME NEW d, http' = [http EXCEPT ![x] = [http[x] EXCEPT !.at = "read", !.decoder = d]],
               session' = session
        PROVE  SInv'
    <3>1. HttpOK' /\ http'[x].at = "read" /\ \A y \in Remote \ {x} : http'[y] = http[y]
      BY <1>1, <2>3, HttpReads
    <3>2. Phase(x)' = "other" /\ Phase(x) = "other"
      BY <1>1, <2>1, <3>1, RemotePhase
    <3>3. QED
      BY <1>4, <2>3, <3>1, <3>2
  <2>4. QED
    BY <1>10, <2>2, <2>3 DEF NoMoreEvents
<1>11. CASE NextEvent(x)
  <2>1. At(x, "events") /\ http[x].at = "events"
    BY <1>11 DEF NextEvent, At
  <2>2. PICK d, u : \/ http' = [http EXCEPT ![x] = [http[x] EXCEPT !.decoder = d, !.found = u]]
                       /\ session' = session
                    \/ /\ http' = [http EXCEPT ![x] =
                                     [[http[x] EXCEPT !.decoder = d, !.found = u]
                                       EXCEPT !.at = "notify"]]
                       /\ \E m \in Notes : ~Issue(x, m) /\ Takes(x, m)
                    \/ Closed(x) /\ \E m \in Answers : Answered(x, m)
                    \/ Closed(x) /\ Goes(x, "error")
    BY <1>11 DEF NextEvent
  <2>3. CASE http' = [http EXCEPT ![x] = [http[x] EXCEPT !.decoder = d, !.found = u]]
             /\ session' = session
    <3>1. HttpOK' /\ http'[x].at = "events" /\ \A y \in Remote \ {x} : http'[y] = http[y]
      BY <1>1, <2>1, <2>3, HttpFinds
    <3>2. Phase(x)' = "other" /\ Phase(x) = "other"
      BY <1>1, <2>1, <3>1, RemotePhase
    <3>3. QED
      BY <1>4, <2>3, <3>1, <3>2
  <2>4. ASSUME http' = [http EXCEPT ![x] = [[http[x] EXCEPT !.decoder = d, !.found = u]
                                              EXCEPT !.at = "notify"]],
               NEW m \in Notes, ~Issue(x, m), Takes(x, m)
        PROVE  SInv'
    <3> DEFINE t == [s EXCEPT !.events = @ + 1, !.holding = m,
                              !.accepted = IF m.kind = "ack" THEN m.of ELSE @]
    <3>1. HttpOK' /\ http'[x].at = "notify" /\ \A y \in Remote \ {x} : http'[y] = http[y]
      BY <1>1, <2>4, HttpNotifies
    <3>2. Phase(x)' = "notify" /\ Phase(x) = "other"
      BY <1>1, <2>1, <3>1, RemotePhase
    <3>3. Passes(x, s, m)
      BY <1>0, <1>1, <2>4, IssuePasses
    <3>4. t \in Shape /\ Proper(x, t, Phase(x)')
      BY <1>0, <1>1, <2>1, <3>2, <3>3, TakenProper
    <3>5. session' = [session EXCEPT ![x] = t]
      BY <2>4 DEF Takes
    <3> HIDE DEF t
    <3>6. QED
      BY <1>0, <3>1, <3>4, <3>5, ChangeInv
  <2>5. QED
    BY <1>1, <1>2, <1>3, <2>1, <2>2, <2>3, <2>4
<1>12. CASE SendsEvent(x)
  <2>1. HttpOK' /\ http'[x].at = "events" /\ \A y \in Remote \ {x} : http'[y] = http[y]
    <3>1. "events" \in HttpStages /\ http' = [http EXCEPT ![x] = [http[x] EXCEPT !.at = "events"]]
      BY <1>12 DEF SendsEvent, HttpStages
    <3>2. QED
      BY <1>1, <3>1, HttpTo
  <2>2. Phase(x)' = "other" /\ Phase(x) = "notify" /\ Works(s)
    BY <1>1, <1>12, <2>1, RemotePhase DEF SendsEvent
  <2>3. s.holding \in Messages /\ Proper(x, Tells(s, s.holding), Phase(x)')
    BY <1>0, <1>1, <2>2, NotedProper
  <2>4. Tells(s, s.holding) \in Shape
    BY <1>1, <2>3, TellsFields
  <2>5. session' = [session EXCEPT ![x] = Tells(s, s.holding)]
    BY <1>12 DEF SendsEvent, Sent, Tells
  <2> HIDE DEF s
  <2>6. QED
    BY <1>0, <2>1, <2>3, <2>4, <2>5, ChangeInv
<1>13. QED
  BY <1>5, <1>6, <1>7, <1>8, <1>9, <1>10, <1>11, <1>12 DEF HttpStep

\* run() cancels the task where it waits.
LEMMA CutInvStep ==
  ASSUME IInv, SInv, NEW x \in Sessions, NEW stage \in {"expiring", "leaving"}, Cut(x, stage)
  PROVE  SInv'
<1> DEFINE s == session[x]
<1>1. /\ s \in Shape /\ Proper(x, s, Phase(x)) /\ session \in [Sessions -> Shape] /\ HttpOK
      /\ s.stage \in {"app", "reply", "tail"} /\ stuck' = stuck
  BY DEF SInv, Cut, Stage
<1>2. After(stage) \in {"error", "left"}
  BY DEF After
<1>3. CASE /\ x \in Requests /\ s.stage = "app" /\ Cancel(x) /\ UNCHANGED http
           /\ Goes(x, IF pc'[x] \in {"done", "dropped"} THEN After(stage) ELSE stage)
  <2> DEFINE to == IF pc'[x] \in {"done", "dropped"} THEN After(stage) ELSE stage
  <2>1. to \in Stages /\ to \in {"error", "left", "expiring", "leaving"}
    BY <1>2 DEF Stages
  <2>2. Goes(x, to)
    BY <1>3
  <2>3. to \in {"expiring", "leaving"} => Phase(x)' = "clean"
    <3>1. pc'[x] \in {"done", "dropped"} => to \in {"error", "left"}
      BY <1>2
    <3>2. QED
      BY <1>3, <3>1, CancelledStep, RequestPhase
  <2>4. Works(s) /\ s.stage \notin {"over", "left"}
    BY <1>3 DEF Works
  <2> HIDE DEF to, s
  <2>5. session' = [session EXCEPT ![x] = Gone(session[x], to)] /\ Gone(s, to) \in Shape
    BY <1>1, <2>1, <2>2, GoesTo, GoneFields
  <2>6. Proper(x, Gone(s, to), Phase(x)')
    BY <1>1, <2>1, <2>3, <2>4, GoneProper
  <2>7. RequestNext(x)
    BY <1>3 DEF RequestNext
  <2>8. QED
    BY <1>1, <1>3, <2>5, <2>6, <2>7, RequestChange DEF s
<1>4. CASE Goes(x, After(stage)) /\ ClosedIfRemote(x) /\ UNCHANGED muxVars
  <2>1. HttpOK' /\ \A y \in Remote \ {x} : http'[y] = http[y]
    BY <1>1, <1>4, ClosedHttp
  <2>2. \E t \in Shape : session' = [session EXCEPT ![x] = t] /\ Proper(x, t, Phase(x)')
    BY <1>1, <1>2, <1>4, GoesStep DEF Stage
  <2>3. UNCHANGED <<pc, next, stuck>>
    BY <1>1, <1>4 DEF muxVars, tasks
  <2>4. QED
    BY <2>1, <2>2, <2>3, ChangeInv
<1>5. QED
  BY <1>3, <1>4 DEF Cut, Stage

LEMMA RunInvStep ==
  ASSUME IInv, SInv, NEW x \in Sessions, AppAnswers(x) \/ RunStep(x) \/ Expire(x) \/ Disconnect(x)
  PROVE  SInv'
<1> DEFINE s == session[x]
<1>1. s \in Shape /\ Proper(x, s, Phase(x)) /\ session \in [Sessions -> Shape] /\ HttpOK
  BY DEF SInv
<1>2. ASSUME UNCHANGED <<muxVars, stuck>>, ClosedIfRemote(x) \/ UNCHANGED http,
             \E t \in Shape : session' = [session EXCEPT ![x] = t] /\ Proper(x, t, Phase(x)')
      PROVE  SInv'
  <2>1. UNCHANGED <<pc, next, stuck>>
    BY <1>2 DEF muxVars, tasks
  <2>2. HttpOK' /\ \A y \in Remote \ {x} : http'[y] = http[y]
    BY <1>1, <1>2, ClosedHttp
  <2>3. QED
    BY <1>2, <2>1, <2>2, ChangeInv
<1>3. CASE AppAnswers(x)
  <2>1. Works(s) /\ Phase(x) = "other" /\ Stage(x) \notin {"over", "left"}
    <3>1. CASE x \in Remote
      BY <1>3, <3>1, RemotePhase DEF AppAnswers, NotForwarded, At, Stage, Works
    <3>2. CASE x \in Requests
      BY <1>3, <3>2, RequestPhase DEF AppAnswers, NotForwarded, Cleaning, Stage, Works
    <3>3. QED
      BY <3>1, <3>2 DEF Sessions
  <2>2. CASE session' = [session EXCEPT ![x] = [@ EXCEPT !.stage = "reply", !.holding = Error]]
    <3> DEFINE t == [s EXCEPT !.stage = "reply", !.holding = Error]
    <3>1. t \in Shape /\ Proper(x, t, Phase(x)')
      BY <1>1, <2>1, AnsweredProper, MessageFacts
    <3>2. session' = [session EXCEPT ![x] = t]
      BY <2>2
    <3> HIDE DEF t
    <3>3. QED
      BY <1>2, <1>3, <3>1, <3>2 DEF AppAnswers
  <2>3. CASE Goes(x, "error")
    BY <1>2, <1>3, <2>1, <2>3, GoesStep DEF AppAnswers
  <2>4. QED
    BY <1>3, <2>2, <2>3 DEF AppAnswers
<1>4. CASE Reply(x)
  <2>1. ASSUME NEW m \in {session[x].holding, Error},
               session' = [session EXCEPT ![x] =
                             [Sent(x, m) EXCEPT !.stage = "tail", !.finished = TRUE]]
        PROVE  SInv'
    <3> DEFINE t == [Tells(s, m) EXCEPT !.stage = "tail", !.finished = TRUE]
    <3>1. t \in Shape /\ Proper(x, t, Phase(x)')
      BY <1>1, <1>4, RepliedProper DEF Reply, Stage
    <3>2. session' = [session EXCEPT ![x] = t]
      BY <2>1 DEF Sent, Tells
    <3> HIDE DEF t
    <3>3. QED
      BY <1>2, <1>4, <3>1, <3>2 DEF Reply
  <2>2. CASE Goes(x, "error")
    BY <1>2, <1>4, <2>2, GoesStep DEF Reply
  <2>3. QED
    BY <1>4, <2>1, <2>2 DEF Reply
<1>5. CASE TaskEnds(x)
  BY <1>2, <1>5, GoesStep DEF TaskEnds
<1>6. CASE SendError(x)
  <2>1. CASE Goes(x, "over")
    BY <1>2, <1>6, <2>1, GoesStep DEF SendError
  <2>2. CASE ~s.finished /\ session' = [session EXCEPT ![x] = Forgotten(Sent(x, Error))]
    <3>1. Forgotten(Tells(s, Error)) \in Shape /\ Proper(x, Forgotten(Tells(s, Error)), Phase(x)')
      BY <1>1, <1>6, <2>2, FailedProper DEF SendError, Stage
    <3>2. session' = [session EXCEPT ![x] = Forgotten(Tells(s, Error))]
      BY <2>2 DEF Sent, Tells
    <3> HIDE DEF s
    <3>3. QED
      BY <1>2, <1>6, <3>1, <3>2 DEF SendError
  <2>3. QED
    BY <1>6, <2>1, <2>2 DEF SendError
<1>7. CASE Expire(x) \/ Cut(x, "leaving")
  BY <1>7, CutInvStep DEF Expire
<1>8. CASE Stage(x) = "error" /\ Goes(x, "left") /\ UNCHANGED <<muxVars, http, stuck>>
  BY <1>2, <1>8, GoesStep
<1>9. QED
  BY <1>3, <1>4, <1>5, <1>6, <1>7, <1>8 DEF RunStep, Disconnect

\* What the child does, and a client that stops reading.
LEMMA QuietInvStep ==
  ASSUME SInv, UNCHANGED <<session, http, pc, next>>, stuck' \subseteq Slow
  PROVE  SInv'
<1>1. HttpOK'
  BY HttpSame DEF SInv
<1>2. \A x \in Sessions : Phase(x)' = Phase(x)
  BY DEF Phase, Notifying, Cleaning
<1>3. QED
  BY <1>1, <1>2 DEF SInv
-------------------------------------------------------------------------------
(* All together.                                                            *)

\* Every step of the sessions is one of the client, or leaves it alone.
LEMMA SessionsStep == [NextStep]_allVars => [Next]_vars
<1> SUFFICES ASSUME [NextStep]_allVars
             PROVE  [Next]_vars
  OBVIOUS
<1>1. UNCHANGED muxVars => UNCHANGED vars
  BY DEF muxVars, vars
<1>2. ASSUME NEW r \in Requests, Turns(r) \/ RequestStep(r) \/ NoAnswerInTime(r)
      PROVE  Next
  <2>1. RequestNext(r)
    BY <1>2 DEF Turns, RequestStep, Continues, ReceivesNote, SendsNote, ReceivesAnswer,
                NoAnswerInTime, RequestNext, Proceed
  <2>2. QED
    BY <2>1 DEF Next
<1>3. ASSUME NEW x \in Remote, HttpStep(x)
      PROVE  UNCHANGED muxVars
  BY <1>3 DEF HttpStep
<1>4. ASSUME NEW x \in Sessions, NEW stage, Cut(x, stage)
      PROVE  Next \/ UNCHANGED muxVars
  BY <1>4 DEF Cut, Next, RequestNext
<1>5. ASSUME NEW x \in Sessions,
             AppAnswers(x) \/ RunStep(x) \/ Expire(x) \/ Disconnect(x) \/ StopsReading(x)
      PROVE  Next \/ UNCHANGED muxVars
  BY <1>4, <1>5 DEF AppAnswers, RunStep, Reply, TaskEnds, SendError, Expire, Disconnect, StopsReading
<1>6. CASE ChildStep
  BY <1>6 DEF ChildStep, Next
<1>7. CASE UNCHANGED allVars
  BY <1>1, <1>7 DEF allVars
<1>8. QED
  BY <1>1, <1>2, <1>3, <1>5, <1>6, <1>7 DEF NextStep

LEMMA ChildLeavesTasks ==
  ASSUME ChildStep
  PROVE  UNCHANGED <<pc, next>>
<1>1. ASSUME NEW q, NEW item, Route(q, item)
      PROVE  UNCHANGED <<pc, next>>
  BY <1>1 DEF Route, ReaderCloses, tasks
<1>2. ASSUME NEW keep, ReaderCloses(keep)
      PROVE  UNCHANGED <<pc, next>>
  BY <1>2 DEF ReaderCloses, tasks
<1>3. CASE ReaderNext
  BY <1>1, <1>2, <1>3 DEF ReaderNext, Garbage, EndOfOutput, ReadAnswer, ReadTagged, ReadUntagged
<1>4. ASSUME NEW n \in Procs, ChildEnds(n) \/ ExitSeen(n) \/ Reap(n)
      PROVE  UNCHANGED <<pc, next>>
  BY <1>4 DEF ChildEnds, ExitSeen, Reap, tasks
<1>5. QED
  BY <1>3, <1>4 DEF ChildStep

LEMMA SInvStep ==
  ASSUME IInv, SInv, [NextStep]_allVars
  PROVE  SInv'
<1>1. stuck \subseteq Slow
  BY DEF SInv
<1>2. ASSUME NEW x \in Sessions, StopsReading(x)
      PROVE  SInv'
  BY <1>1, <1>2, QuietInvStep DEF StopsReading, muxVars, tasks
<1>3. CASE ChildStep
  BY <1>1, <1>3, ChildLeavesTasks, QuietInvStep DEF ChildStep
<1>4. CASE UNCHANGED allVars
  BY <1>1, <1>4, QuietInvStep DEF allVars, muxVars, tasks
<1>5. QED
  BY <1>2, <1>3, <1>4, RequestInvStep, HttpInvStep, RunInvStep DEF NextStep

LEMMA StreamStart == StreamInit => IInv /\ CountInv /\ SInv
<1> SUFFICES ASSUME NEW xs \in SUBSET Sessions, NEW filter \in [Listens -> SUBSET Changes],
                    StartSessions(xs, filter)
             PROVE  IInv /\ CountInv /\ SInv
  BY DEF StreamInit
<1> DEFINE stage == [r \in Requests |-> IF r \in xs THEN "new" ELSE "done"]
<1>1. stage \in [Requests -> {"new", "done"}] /\ Start(stage, [n \in Procs |-> "none"])
  BY DEF StartSessions
<1>2. IInv /\ CountInv
  BY <1>1, ClientStart, CountStart
<1>3. ASSUME NEW x \in Sessions
      PROVE  session[x] \in Shape /\ Proper(x, session[x], Phase(x))
  <2>1. PICK first \in {"app", "left"}, wanted \in SUBSET Changes : session[x] = Opened(first, wanted)
    BY DEF StartSessions
  <2>2. Phase(x) = "other"
    <3>1. CASE x \in Remote
      BY <3>1, RemotePhase DEF StartSessions, Idle
    <3>2. CASE x \in Requests
      BY <1>1, <3>2, RequestPhase DEF Start, Cleaning
    <3>3. QED
      BY <3>1, <3>2 DEF Sessions
  <2> DEFINE s == Opened(first, wanted)
  <2>3. /\ s \in Shape /\ s.stage = first /\ s.requested = wanted /\ ~s.finished
        /\ s.accepted = NotYet /\ s.events = 0 /\ s.told = <<>> /\ s.holding = Nothing
    BY OpenedFields DEF Stages
  <2> HIDE DEF s
  <2>4. Proper(x, s, "other")
    BY <2>3 DEF Proper, StageOK, RoomOK, OnceOK, ReplyOK, NoteOK, AckOK, FirstOK, Works
  <2>5. QED
    BY <2>1, <2>2, <2>3, <2>4 DEF s
<1>4. session \in [Sessions -> Shape]
  BY <1>3 DEF StartSessions
<1>5. HttpOK
  <2> DEFINE H == HttpType({NewDecoder}, {<<>>}, {<<>>})
  <2>1. \A at \in HttpStages : Idle(at) \in H
    BY HttpRecord DEF Idle
  <2>2. "connect" \in HttpStages /\ "closed" \in HttpStages
    BY DEF HttpStages
  <2> HIDE DEF H
  <2>3. http \in [Remote -> H]
    BY <2>1, <2>2 DEF StartSessions
  <2>4. QED
    BY <2>3 DEF HttpOK, H
<1>6. stuck \subseteq Slow
  BY DEF StartSessions
<1>7. QED
  BY <1>2, <1>3, <1>4, <1>5, <1>6 DEF SInv

(* Over the sessions the client is used as it is specified: each step of a     *)
(* session, of run() and of what it awaits, is one step of the client          *)
(* (McpStdioClient.request and its clean-up) or none.                        *)
THEOREM ClientSteps == StreamSpec => [][Next]_vars
<1>1. [NextStep]_allVars => [Next]_vars
  BY SessionsStep
<1>2. QED
  BY <1>1, PTL DEF StreamSpec

(* What the sessions have told their clients, hold and have accepted agrees     *)
(* with where their requests and responses are, and the invariant of the        *)
(* client holds under them (McpStreamSession, Subscription, forward_http).      *)
THEOREM StreamInvariance == StreamSpec => [](IInv /\ CountInv /\ SInv)
<1>1. IInv /\ CountInv /\ SInv /\ [NextStep]_allVars => (IInv /\ CountInv /\ SInv)'
  BY SessionsStep, ClientStep, CountStep, SInvStep
<1>2. QED
  BY <1>1, StreamStart, PTL DEF StreamSpec

(* Whatever sessions do, who waits for the child is attended to, gets its own    *)
(* notifications, and the bytes are counted right.                           *)
THEOREM ClientKept == StreamSpec => [](Attended /\ NotesToOwner /\ NoOrphan /\ Accounting)
<1>1. IInv /\ CountInv => Attended /\ NotesToOwner /\ NoOrphan /\ Accounting
  BY DEF IInv, CountInv, FlightOK, Attended, InFlight, LastKind
<1>2. QED
  BY <1>1, StreamInvariance, PTL

(* A client gets one terminal message at most, and nothing after it, whichever *)
(* of answer, failure, expiry and disconnect come together (terminal, run).      *)
THEOREM OneTerminalHolds == StreamSpec => []OneTerminal
<1>1. SInv => OneTerminal
  BY DEF SInv, Proper, OnceOK, OneTerminal
<1>2. QED
  BY <1>1, StreamInvariance, PTL

(* A subscription's client hears of the acknowledgement first, of no change it *)
(* does not cover, and of no completion without it (notification_issue).       *)
THEOREM AcknowledgedFirstHolds == StreamSpec => []AcknowledgedFirst
<1>1. SInv => AcknowledgedFirst
  BY StreamSessionAssumption DEF StreamSessionAssumption, SInv, Proper, FirstOK, AcknowledgedFirst
<1>2. QED
  BY <1>1, StreamInvariance, PTL

(* The sessions keep their types, and none tells its client of more than its    *)
(* limit of notifications and the answer (notification).                     *)
THEOREM StreamTypeCorrect == StreamSpec => []StreamTypeOK
<1>1. SInv => StreamTypeOK
  <2> SUFFICES ASSUME SInv
               PROVE  StreamTypeOK
    OBVIOUS
  <2>1. ASSUME NEW x \in Sessions
        PROVE  session[x] \in SessionType
    <3>1. /\ session[x] \in Shape /\ session[x].told \in Seq(Messages)
          /\ session[x].events \in 0 .. MaxEvents /\ MaxEvents \in Nat
      BY StreamSessionAssumption DEF StreamSessionAssumption, SInv, Shape
    <3>2. Len(session[x].told) <= MaxEvents + 1
      BY <3>1 DEF SInv, Proper, RoomOK
    <3>3. session[x].told \in BoundedSeq(Messages, MaxEvents + 1)
      BY <3>1, <3>2 DEF BoundedSeq, SeqOf
    <3>4. QED
      BY <3>1, <3>3 DEF Shape, SessionType
  <2>2. session \in [Sessions -> SessionType]
    BY <2>1 DEF SInv
  <2>3. QED
    BY <2>2 DEF SInv, StreamTypeOK, HttpOK, HttpType, HttpStages
<1>2. QED
  BY <1>1, StreamInvariance, PTL
-------------------------------------------------------------------------------
(* The decoders of the sessions.                                             *)

\* What forward_http() has of its response.
Responses ==
  [at : HttpStages, decoder : Decoders, fed : Seq(Bytes), found : Seq(Seq(Seq(Bytes))),
   ended : BOOLEAN]

\* The decoder is right about its bytes.  Between two rounds it has no whole line and no
\* event that is too long; then it can have a chunk, or the LF of finish(), on top.
Decoding(h) ==
  /\ Reads(h.fed, h.decoder, h.found)
  /\ h.at \notin {"events", "notify"} => Quiet(h.fed, h.decoder) /\ ~h.ended
  /\ h.decoder.frame + Len(h.decoder.buffer) <= FrameLimit + MaxChunk
  /\ Len(h.fed) <= ByteLimit + (IF h.ended THEN 1 ELSE 0)

DecoderInv == http \in [Remote -> Responses] /\ \A x \in Remote : Decoding(http[x])

LEMMA Limits ==
  FrameLimit \in Nat /\ ByteLimit \in Nat /\ MaxChunk \in Nat /\ 1 <= MaxChunk
BY SseDecoderAssumption, StreamSessionAssumption
   DEF SseDecoderAssumption, StreamSessionAssumption

\* What is typed, and the lengths that are counted.
LEMMA DecodingFacts ==
  ASSUME NEW h \in Responses, Decoding(h)
  PROVE  /\ h.fed \in Seq(Bytes) /\ Len(h.fed) \in Nat /\ h.ended \in BOOLEAN
         /\ h.decoder \in Decoders /\ h.decoder.frame \in Nat
         /\ h.decoder.buffer \in Seq(Bytes) /\ Len(h.decoder.buffer) \in Nat
BY DEF Responses, Decoders

LEMMA DecodingStep ==
  ASSUME DecoderInv, NEW x \in Remote, NEW h \in Responses, Decoding(h),
         http' = [http EXCEPT ![x] = h]
  PROVE  DecoderInv'
<1>1. http' \in [Remote -> Responses]
  BY DEF DecoderInv
<1>2. \A y \in Remote : http'[y] = IF y = x THEN h ELSE http[y]
  BY DEF DecoderInv
<1>3. \A y \in Remote : Decoding(http'[y])
  BY <1>2 DEF DecoderInv
<1>4. QED
  BY <1>1, <1>3 DEF DecoderInv

LEMMA IdleDecoding ==
  ASSUME NEW at \in HttpStages
  PROVE  Idle(at) \in Responses /\ Decoding(Idle(at))
<1> DEFINE h == Idle(at)
           none == <<>>
<1>1. Reads(none, NewDecoder, none) /\ Quiet(none, NewDecoder)
  BY StartReads
<1>2. /\ none \in Seq(Bytes) /\ none \in Seq(Seq(Seq(Bytes))) /\ Len(none) = 0
      /\ NewDecoder \in Decoders
  BY <1>1 DEF Reads, Holds
<1>3. h = [at |-> at, decoder |-> NewDecoder, fed |-> none, found |-> none, ended |-> FALSE]
  BY DEF Idle
<1>4. NewDecoder.frame = 0 /\ NewDecoder.buffer = none
  BY DEF NewDecoder
<1> HIDE DEF h, none
<1>5. /\ h \in Responses /\ h.decoder = NewDecoder /\ h.fed = none /\ h.found = none
      /\ h.ended = FALSE
  BY <1>2, <1>3 DEF Responses
<1>6. /\ NewDecoder.frame + Len(NewDecoder.buffer) <= FrameLimit + MaxChunk
      /\ Len(none) <= ByteLimit + 0
  BY <1>2, <1>4, Limits
<1>7. Decoding(h)
  BY <1>1, <1>5, <1>6 DEF Decoding
<1>8. QED
  BY <1>5, <1>7 DEF h

\* It goes on with the same bytes.
LEMMA MovedDecoding ==
  ASSUME NEW h \in Responses, Decoding(h), NEW at \in HttpStages,
         h.at \notin {"events", "notify"} \/ at \in {"events", "notify"}
  PROVE  [h EXCEPT !.at = at] \in Responses /\ Decoding([h EXCEPT !.at = at])
<1> DEFINE g == [h EXCEPT !.at = at]
<1>1. /\ g \in Responses /\ g.at = at /\ g.decoder = h.decoder /\ g.fed = h.fed
      /\ g.found = h.found /\ g.ended = h.ended
  BY DEF Responses
<1> HIDE DEF g
<1>2. Decoding(g)
  BY <1>1 DEF Decoding
<1>3. QED
  BY <1>1, <1>2 DEF g

LEMMA FedDecoding ==
  ASSUME NEW h \in Responses, Decoding(h), h.at = "read", NEW chunk \in Seq(Bytes),
         NEW ended \in BOOLEAN, Len(chunk) <= MaxChunk,
         Len(h.fed) + Len(chunk) <= ByteLimit + (IF ended THEN 1 ELSE 0)
  PROVE  LET g == [h EXCEPT !.at = "events", !.ended = ended, !.fed = @ \o chunk,
                            !.decoder = Fed(@, chunk)]
         IN g \in Responses /\ Decoding(g)
<1> DEFINE g == [h EXCEPT !.at = "events", !.ended = ended, !.fed = @ \o chunk,
                          !.decoder = Fed(@, chunk)]
           fed == h.fed \o chunk
           d == Fed(h.decoder, chunk)
<1>1. Reads(fed, d, h.found)
  BY FedReads DEF Decoding
<1>2. fed \in Seq(Bytes) /\ d \in Decoders
  BY <1>1 DEF Reads, Holds
<1>3. Len(fed) = Len(h.fed) + Len(chunk)
  BY DecodingFacts, ConcatProperties
<1>4. d.frame = h.decoder.frame /\ d.buffer = h.decoder.buffer \o chunk
  BY DecodingFacts DEF Fed, Decoders
<1>5. Len(d.buffer) = Len(h.decoder.buffer) + Len(chunk) /\ Len(chunk) \in Nat
  BY <1>4, DecodingFacts, ConcatProperties
<1>6. g = [h EXCEPT !.at = "events", !.ended = ended, !.fed = fed, !.decoder = d]
  BY DEF Responses
<1> HIDE DEF g, fed, d
<1>7. /\ g \in Responses /\ g.at = "events" /\ g.decoder = d /\ g.fed = fed
      /\ g.found = h.found /\ g.ended = ended
  <2>1. "events" \in HttpStages
    BY DEF HttpStages
  <2>2. QED
    BY <1>2, <1>6, <2>1 DEF Responses
<1>8. d.frame + Len(d.buffer) <= FrameLimit + MaxChunk
  <2>1. h.decoder.frame + Len(h.decoder.buffer) <= FrameLimit
    BY DEF Decoding, Quiet
  <2>2. h.decoder.frame \in Nat /\ Len(h.decoder.buffer) \in Nat
    BY DecodingFacts
  <2>3. QED
    BY <1>4, <1>5, <2>1, <2>2, Limits
<1>9. Decoding(g)
  BY <1>1, <1>3, <1>7, <1>8 DEF Decoding
<1>10. QED
  BY <1>7, <1>9 DEF g

LEMMA FinishAdds ==
  ASSUME NEW d \in Decoders
  PROVE  LET more == SubSeq(Finish(d).buffer, Len(d.buffer) + 1, Len(Finish(d).buffer))
         IN /\ more \in Seq(Bytes) /\ Len(more) <= 1 /\ Len(more) \in Nat
            /\ Finish(d) = Fed(d, more)
<1> DEFINE m == Len(d.buffer)
           all == Finish(d).buffer
           more == SubSeq(all, m + 1, Len(all))
<1>1. d.buffer \in Seq(Bytes) /\ m \in Nat
  BY DEF Decoders
<1>2. CASE d.buffer # <<>> /\ Last(d.buffer) = CR
  <2> DEFINE one == <<LF>>
  <2>1. one \in Seq(Bytes) /\ Len(one) = 1 /\ one[1] = LF
    BY DEF Bytes
  <2>2. Finish(d) = Fed(d, one) /\ all = d.buffer \o one
    BY <1>2 DEF Finish, Fed, Decoders
  <2> HIDE DEF one, m, all
  <2>3. all \in Seq(Bytes) /\ Len(all) = m + 1 /\ all[m + 1] = LF
    <3>0. /\ d.buffer \o one \in Seq(Bytes)
          /\ Len(d.buffer \o one) = Len(d.buffer) + Len(one)
      BY <1>1, <2>1, ConcatProperties
    <3>1. all \in Seq(Bytes) /\ Len(all) = m + 1
      BY <2>1, <2>2, <3>0 DEF m
    <3>2. \A i \in 1 .. m + Len(one) : all[i] = IF i <= m THEN d.buffer[i] ELSE one[i - m]
      BY <1>1, <2>1, <2>2, ConcatProperties DEF m
    <3>3. m + 1 \in 1 .. m + Len(one) /\ ~(m + 1 <= m) /\ (m + 1) - m = 1
      BY <1>1, <2>1
    <3>4. all[m + 1] = one[(m + 1) - m]
      BY <3>2, <3>3
    <3>5. QED
      BY <2>1, <3>1, <3>3, <3>4
  <2>4. more \in Seq(Bytes) /\ Len(more) = 1 /\ more[1] = LF
    <3>1. Len(all) = m + 1 /\ m + 1 \in Int /\ \A i \in m + 1 .. m + 1 : all[i] \in Bytes
      BY <1>1, <2>3 DEF Bytes
    <3>2. more \in Seq(Bytes) /\ Len(more) = 1
      BY <1>1, <3>1, SubSeqProperties
    <3>3. more[1] = LF
      BY <1>1, <2>3
    <3>4. QED
      BY <3>2, <3>3
  <2> HIDE DEF more
  <2>5. more = one
    BY <2>1, <2>4
  <2>6. Len(more) <= 1 /\ Len(more) \in Nat
    BY <2>4
  <2>7. QED
    BY <2>2, <2>4, <2>5, <2>6 DEF more, all, m
<1>3. CASE ~(d.buffer # <<>> /\ Last(d.buffer) = CR)
  <2> DEFINE none == <<>>
  <2>1. Finish(d) = d
    BY <1>3 DEF Finish
  <2>2. more = none
    BY <1>1, <2>1
  <2>3. none \in Seq(Bytes) /\ Len(none) = 0 /\ d.buffer \o none = d.buffer
    BY <1>1
  <2>4. Fed(d, none) = d
    BY <2>3 DEF Fed, Decoders
  <2> HIDE DEF more, none
  <2>5. Len(more) <= 1 /\ Len(more) \in Nat /\ more \in Seq(Bytes)
    BY <2>2, <2>3
  <2>6. QED
    BY <2>1, <2>2, <2>4, <2>5 DEF more
<1>4. QED
  BY <1>2, <1>3

\* feed() ends or yields.
LEMMA EndDecoding ==
  ASSUME NEW h \in Responses, Decoding(h), Feed[h.decoder].what = "end", ~h.ended
  PROVE  LET g == [h EXCEPT !.at = "read", !.decoder = Feed[h.decoder].decoder]
         IN g \in Responses /\ Decoding(g)
<1> DEFINE d == Feed[h.decoder].decoder
           g == [h EXCEPT !.at = "read", !.decoder = d]
<1>1. Reads(h.fed, d, h.found) /\ Quiet(h.fed, d)
  BY FeedReads DEF Decoding
<1>2. d \in Decoders
  BY <1>1 DEF Reads, Holds
<1> HIDE DEF d
<1>3. /\ g \in Responses /\ g.at = "read" /\ g.decoder = d /\ g.fed = h.fed
      /\ g.found = h.found /\ g.ended = h.ended
  <2>1. "read" \in HttpStages
    BY DEF HttpStages
  <2>2. QED
    BY <1>2, <2>1 DEF Responses
<1>4. d.frame + Len(d.buffer) <= FrameLimit + MaxChunk
  <2>1. d.frame + Len(d.buffer) <= FrameLimit /\ d.frame \in Nat /\ Len(d.buffer) \in Nat
    BY <1>1, <1>2 DEF Quiet, Decoders
  <2>2. QED
    BY <2>1, Limits
<1> HIDE DEF g
<1>5. Decoding(g)
  BY <1>1, <1>3, <1>4 DEF Decoding
<1>6. QED
  BY <1>3, <1>5 DEF g, d

LEMMA EventDecoding ==
  ASSUME NEW h \in Responses, Decoding(h), Feed[h.decoder].what = "event", h.at = "events"
  PROVE  LET o == Feed[h.decoder]
             g == [h EXCEPT !.decoder = o.decoder, !.found = Append(@, o.data)]
         IN g \in Responses /\ Decoding(g) /\ g.at = "events"
<1> DEFINE o == Feed[h.decoder]
           d == o.decoder
           found == Append(h.found, o.data)
           g == [h EXCEPT !.decoder = d, !.found = found]
<1>1. Reads(h.fed, d, found) /\ d.frame = 0 /\ Len(d.buffer) <= Len(h.decoder.buffer)
  BY FeedReads DEF Decoding
<1>2. d \in Decoders /\ found \in Seq(Seq(Seq(Bytes)))
  BY <1>1 DEF Reads, Holds
<1> HIDE DEF d, found
<1>3. /\ g \in Responses /\ g.at = "events" /\ g.decoder = d /\ g.fed = h.fed
      /\ g.found = found /\ g.ended = h.ended
  BY <1>2 DEF Responses
<1>4. d.frame + Len(d.buffer) <= FrameLimit + MaxChunk
  <2>1. Len(d.buffer) \in Nat
    BY <1>2 DEF Decoders
  <2>2. h.decoder.frame \in Nat /\ Len(h.decoder.buffer) \in Nat
    BY DecodingFacts
  <2>3. h.decoder.frame + Len(h.decoder.buffer) <= FrameLimit + MaxChunk
    BY DEF Decoding
  <2>4. QED
    BY <1>1, <2>1, <2>2, <2>3, Limits
<1> HIDE DEF g
<1>5. Decoding(g)
  BY <1>1, <1>3, <1>4 DEF Decoding
<1>6. QED
  BY <1>3, <1>5 DEF g, d, found

LEMMA HttpDecodes ==
  ASSUME DecoderInv, NEW x \in Remote, HttpStep(x)
  PROVE  DecoderInv'
<1> DEFINE h == http[x]
<1>1. h \in Responses /\ Decoding(h)
  BY DEF DecoderInv
<1>2. ASSUME NEW at \in HttpStages, http' = [http EXCEPT ![x].at = at],
             h.at \notin {"events", "notify"} \/ at \in {"events", "notify"}
      PROVE  DecoderInv'
  <2>1. http' = [http EXCEPT ![x] = [h EXCEPT !.at = at]]
    BY <1>2
  <2> HIDE DEF h
  <2>2. [h EXCEPT !.at = at] \in Responses /\ Decoding([h EXCEPT !.at = at])
    BY <1>1, <1>2, MovedDecoding
  <2>3. QED
    BY <2>1, <2>2, DecodingStep
<1>3. ASSUME Closed(x) PROVE DecoderInv'
  BY <1>3, IdleDecoding, DecodingStep DEF Closed, HttpStages
<1>4. CASE HttpJson(x) \/ HttpFails(x) \/ TooMuch(x) \/ TooLong(x)
  BY <1>3, <1>4 DEF HttpJson, HttpFails, TooMuch, TooLong
<1>5. CASE HttpStream(x)
  BY <1>2, <1>5 DEF HttpStream, At, HttpStages
<1>6. CASE SendsHead(x)
  BY <1>2, <1>6 DEF SendsHead, At, HttpStages
<1>7. CASE SendsEvent(x)
  BY <1>2, <1>7 DEF SendsEvent, At, HttpStages
<1>8. CASE Chunk(x)
  <2>1. h.at = "read"
    BY <1>8 DEF Chunk, At
  <2>0. PICK n \in 1 .. Min({MaxChunk, ByteLimit - Len(h.fed)}) :
          \E chunk \in [1 .. n -> Bytes] : http' = [http EXCEPT ![x] =
            [h EXCEPT !.at = "events", !.fed = @ \o chunk, !.decoder = Fed(@, chunk)]]
    BY <1>8 DEF Chunk
  <2>2. PICK chunk \in [1 .. n -> Bytes] : http' = [http EXCEPT ![x] =
            [h EXCEPT !.at = "events", !.fed = @ \o chunk, !.decoder = Fed(@, chunk)]]
    BY <2>0
  <2>3. /\ h.ended = FALSE /\ Len(h.fed) \in Nat /\ Len(h.fed) <= ByteLimit
    <3>1. ~h.ended /\ Len(h.fed) <= ByteLimit + (IF h.ended THEN 1 ELSE 0)
      BY <1>1, <2>1 DEF Decoding
    <3>2. Len(h.fed) \in Nat /\ h.ended \in BOOLEAN
      BY <1>1, DecodingFacts
    <3>3. QED
      BY <3>1, <3>2, Limits
  <2>4. n \in Nat /\ n <= MaxChunk /\ Len(h.fed) + n <= ByteLimit
    <3> DEFINE S == {MaxChunk, ByteLimit - Len(h.fed)}
    <3>1. S \in SUBSET Nat /\ S # {}
      BY <2>3, Limits
    <3>2. Min(S) \in Nat /\ Min(S) <= MaxChunk /\ Min(S) <= ByteLimit - Len(h.fed)
      <4>1. Min(S) \in S /\ \A k \in S : Min(S) <= k
        BY <3>1, MinIsLeast
      <4> HIDE DEF h
      <4>2. QED
        BY <3>1, <4>1
    <3> HIDE DEF S
    <3>3. n \in 1 .. Min(S)
      BY DEF S
    <3> HIDE DEF h
    <3>4. QED
      BY <2>3, <3>2, <3>3, Limits
  <2>5. chunk \in Seq(Bytes) /\ Len(chunk) = n
    BY <2>4
  <2> DEFINE g == [h EXCEPT !.at = "events", !.ended = FALSE, !.fed = @ \o chunk,
                            !.decoder = Fed(@, chunk)]
  <2>6. [h EXCEPT !.at = "events", !.fed = @ \o chunk, !.decoder = Fed(@, chunk)] = g
    BY <1>1, <2>3 DEF Responses
  <2>7. http' = [http EXCEPT ![x] = g]
    BY <2>2, <2>6
  <2>8. Len(h.fed) + Len(chunk) <= ByteLimit + (IF FALSE THEN 1 ELSE 0)
    BY <2>3, <2>4, <2>5, Limits
  <2> HIDE DEF h
  <2>9. g \in Responses /\ Decoding(g)
    BY <1>1, <2>1, <2>4, <2>5, <2>8, FedDecoding
  <2> HIDE DEF g
  <2>10. QED
    BY <2>7, <2>9, DecodingStep
<1>9. CASE EndOfBody(x)
  <2> DEFINE d == h.decoder
             more == SubSeq(Finish(d).buffer, Len(d.buffer) + 1, Len(Finish(d).buffer))
             g == [h EXCEPT !.at = "events", !.ended = TRUE, !.fed = @ \o more,
                            !.decoder = Fed(@, more)]
  <2>1. /\ h.at = "read"
        /\ http' = [http EXCEPT ![x] = [h EXCEPT !.at = "events", !.ended = TRUE,
                                                !.fed = @ \o more, !.decoder = Finish(@)]]
    BY <1>9 DEF EndOfBody, At
  <2>2. d \in Decoders
    BY <1>1, DecodingFacts
  <2>3. more \in Seq(Bytes) /\ Len(more) <= 1 /\ Len(more) \in Nat /\ Finish(d) = Fed(d, more)
    BY <2>2, FinishAdds
  <2> HIDE DEF more
  <2>4. [h EXCEPT !.at = "events", !.ended = TRUE, !.fed = @ \o more, !.decoder = Finish(@)] = g
    BY <1>1, <2>3 DEF Responses
  <2>5. Len(h.fed) \in Nat /\ Len(h.fed) <= ByteLimit
    <3>1. ~h.ended /\ Len(h.fed) <= ByteLimit + (IF h.ended THEN 1 ELSE 0)
      BY <1>1, <2>1 DEF Decoding
    <3>2. Len(h.fed) \in Nat
      BY <1>1, DecodingFacts
    <3>3. QED
      BY <3>1, <3>2, Limits
  <2>6. http' = [http EXCEPT ![x] = g]
    BY <2>1, <2>4
  <2>7. Len(more) <= MaxChunk /\ Len(h.fed) + Len(more) <= ByteLimit + (IF TRUE THEN 1 ELSE 0)
    BY <2>3, <2>5, Limits
  <2> HIDE DEF h, d
  <2>8. g \in Responses /\ Decoding(g)
    BY <1>1, <2>1, <2>3, <2>7, FedDecoding
  <2> HIDE DEF g
  <2>9. QED
    BY <2>6, <2>8, DecodingStep
<1>10. CASE NoMoreEvents(x)
  <2>1. CASE Closed(x)
    BY <1>3, <2>1
  <2>2. CASE ~Closed(x)
    <3> DEFINE g == [h EXCEPT !.at = "read", !.decoder = Feed[h.decoder].decoder]
    <3>1. Feed[h.decoder].what = "end" /\ ~h.ended /\ http' = [http EXCEPT ![x] = g]
      BY <1>10, <2>2 DEF NoMoreEvents
    <3> HIDE DEF h
    <3>2. g \in Responses /\ Decoding(g)
      BY <1>1, <3>1, EndDecoding
    <3> HIDE DEF g
    <3>3. QED
      BY <3>1, <3>2, DecodingStep
  <2>3. QED
    BY <2>1, <2>2
<1>11. CASE NextEvent(x)
  <2>1. CASE Closed(x)
    BY <1>3, <2>1
  <2>2. CASE ~Closed(x)
    <3> DEFINE o == Feed[h.decoder]
               g == [h EXCEPT !.decoder = o.decoder, !.found = Append(@, o.data)]
    <3>1. /\ o.what = "event" /\ h.at = "events"
          /\ \/ http' = [http EXCEPT ![x] = g]
             \/ http' = [http EXCEPT ![x] = [g EXCEPT !.at = "notify"]]
      BY <1>11, <2>2 DEF NextEvent, At
    <3> HIDE DEF h
    <3>2. g \in Responses /\ Decoding(g) /\ g.at = "events"
      BY <1>1, <3>1, EventDecoding
    <3> HIDE DEF g, o
    <3>3. [g EXCEPT !.at = "notify"] \in Responses /\ Decoding([g EXCEPT !.at = "notify"])
      BY <3>2, MovedDecoding DEF HttpStages
    <3>4. QED
      BY <3>1, <3>2, <3>3, DecodingStep
  <2>3. QED
    BY <2>1, <2>2
<1>12. QED
  BY <1>4, <1>5, <1>6, <1>7, <1>8, <1>9, <1>10, <1>11 DEF HttpStep

LEMMA DecoderStep ==
  ASSUME DecoderInv, [NextStep]_allVars
  PROVE  DecoderInv'
<1>1. ASSUME UNCHANGED http PROVE DecoderInv'
  BY <1>1 DEF DecoderInv
<1>2. ASSUME NEW x \in Sessions, ClosedIfRemote(x) PROVE DecoderInv'
  BY <1>1, <1>2, IdleDecoding, DecodingStep DEF ClosedIfRemote, Closed, HttpStages
<1>3. ASSUME NEW r \in Requests, Turns(r) \/ RequestStep(r) \/ NoAnswerInTime(r)
      PROVE  UNCHANGED http
  BY <1>3 DEF Turns, RequestStep, Continues, ReceivesNote, SendsNote, ReceivesAnswer, NoAnswerInTime
<1>4. ASSUME NEW x \in Sessions,
             AppAnswers(x) \/ RunStep(x) \/ Expire(x) \/ Disconnect(x) \/ StopsReading(x)
      PROVE  ClosedIfRemote(x) \/ UNCHANGED http
  BY <1>4 DEF AppAnswers, RunStep, Reply, TaskEnds, SendError, Expire, Disconnect, Cut, StopsReading
<1>5. CASE ChildStep
  BY <1>1, <1>5 DEF ChildStep
<1>6. CASE UNCHANGED allVars
  BY <1>1, <1>6 DEF allVars
<1>7. QED
  BY <1>1, <1>2, <1>3, <1>4, <1>5, <1>6, HttpDecodes DEF NextStep

LEMMA DecoderStart == StreamInit => DecoderInv
<1> SUFFICES ASSUME NEW xs \in SUBSET Sessions, NEW filter \in [Listens -> SUBSET Changes],
                    StartSessions(xs, filter)
             PROVE  DecoderInv
  BY DEF StreamInit
<1>1. "connect" \in HttpStages /\ "closed" \in HttpStages
  BY DEF HttpStages
<1>2. http = [x \in Remote |-> Idle(IF x \in xs THEN "connect" ELSE "closed")]
  BY DEF StartSessions
<1>3. \A x \in Remote : http[x] \in Responses /\ Decoding(http[x])
  BY <1>1, <1>2, IdleDecoding
<1>4. QED
  BY <1>2, <1>3 DEF DecoderInv

(* However the upstream's bytes are cut into chunks, the decoder finds the     *)
(* events of the whole, in order, keeps no whole event to itself, and holds the *)
(* limit against those events that are longer and no others (SseDecoder.feed).  *)
THEOREM EventsWholeHolds == StreamSpec => []EventsWhole
<1>1. DecoderInv => EventsWhole
  <2> SUFFICES ASSUME DecoderInv, NEW x \in Remote
               PROVE  LET h == http[x]
                          settled == IF h.fed # <<>> /\ Last(h.fed) = CR THEN Front(h.fed) ELSE h.fed
                      IN /\ Len(h.fed) <= ByteLimit + 1
                         /\ h.decoder.frame + Len(h.decoder.buffer) <= FrameLimit + MaxChunk
                         /\ IsPrefix(h.found, EventsOf(h.fed))
                         /\ h.at = "read" =>
                              /\ h.found = EventsOf(settled)
                              /\ \A k \in 1 .. Len(h.found) + 1 : SizeOf(h.fed, k) <= FrameLimit
                         /\ h.at = "events" /\ Feed[h.decoder].what = "limit" =>
                              SizeOf(h.fed, Len(h.found) + 1) > FrameLimit
    BY DEF EventsWhole
  <2> DEFINE h == http[x]
  <2>1. h \in Responses /\ Decoding(h)
    BY DEF DecoderInv
  <2> HIDE DEF h
  <2>2. Len(h.fed) <= ByteLimit + 1
    <3>1. Len(h.fed) <= ByteLimit + (IF h.ended THEN 1 ELSE 0)
      BY <2>1 DEF Decoding
    <3>2. Len(h.fed) \in Nat
      BY <2>1, DecodingFacts
    <3>3. QED
      BY <3>1, <3>2, Limits
  <2>3. Reads(h.fed, h.decoder, h.found)
    BY <2>1 DEF Decoding
  <2>4. IsPrefix(h.found, EventsOf(h.fed))
    BY <2>3, ReadsPrefix
  <2>5. h.at = "read" =>
          /\ h.found = EventsOf(IF h.fed # <<>> /\ Last(h.fed) = CR THEN Front(h.fed) ELSE h.fed)
          /\ \A k \in 1 .. Len(h.found) + 1 : SizeOf(h.fed, k) <= FrameLimit
    <3>1. h.at = "read" => Quiet(h.fed, h.decoder)
      BY <2>1 DEF Decoding
    <3>2. QED
      BY <2>3, <3>1, QuietMeans
  <2>6. Feed[h.decoder].what = "limit" => SizeOf(h.fed, Len(h.found) + 1) > FrameLimit
    BY <2>3, FeedReads
  <2>7. h.decoder.frame + Len(h.decoder.buffer) <= FrameLimit + MaxChunk
    BY <2>1 DEF Decoding
  <2>8. QED
    BY <2>2, <2>4, <2>5, <2>6, <2>7 DEF h
<1>2. DecoderInv /\ [NextStep]_allVars => DecoderInv'
  BY DecoderStep
<1>3. QED
  BY <1>1, <1>2, DecoderStart, PTL DEF StreamSpec
================================================================================
