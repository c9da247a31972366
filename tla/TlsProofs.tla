------------------------------ MODULE TlsProofs ------------------------------
(***************************************************************************)
(* Proofs about Tls, for all classes, limits and bounds: the order and the *)
(* completeness of both directions of a TLS connection.                    *)
(*                                                                         *)
(* e and r stand for values of s before and after a method, w for a value  *)
(* of wire, d for plaintext that a method has in hand.  A method is shown  *)
(* to keep Fine (nothing is lost on the way out), Parked (what waits has   *)
(* something to wait for) and Reads (nothing is lost on the way in), so    *)
(* that a handler that calls the application in the middle keeps them too. *)
(***************************************************************************)
EXTENDS Tls, FiniteSetTheorems, WellFoundedInduction, TLAPS

-----------------------------------------------------------------------------
(* Counting the records of a sequence.                                     *)

(* A set of naturals that is not empty has a least element.                *)
LEMMA LeastNatural ==
    ASSUME NEW T, T \subseteq Nat, T # {}
    PROVE  \E x \in T : \A y \in T : x <= y
<1>1. IsWellFoundedOn({p \in Nat \X Nat : p[1] < p[2]}, Nat)
  BY NatLessThanWellFounded DEF OpToRel
<1>2. PICK R : IsWellFoundedOn(R, Nat) /\ R = {p \in Nat \X Nat : p[1] < p[2]}
  BY <1>1
<1>3. PICK x \in T : \A y \in T : ~ (<<y, x>> \in R)
  BY <1>2, WFMin
<1>4. ASSUME NEW y \in T, y < x
      PROVE  <<y, x>> \in R
  <2>1. <<y, x>> \in Nat \X Nat
    OBVIOUS
  <2>2. <<y, x>>[1] < <<y, x>>[2]
    BY <1>4
  <2> QED BY <1>2, <2>1, <2>2
<1>5. ASSUME NEW y \in T
      PROVE  x <= y
  <2>1. x \in Nat /\ y \in Nat /\ ~(y < x)
    BY <1>3, <1>4
  <2> QED BY <2>1
<1> QED BY <1>5

(* Induction, for a set: no natural is the least one outside it.           *)
LEMMA SetInduction ==
    ASSUME NEW T, 0 \in T, \A n \in Nat : n \in T => n + 1 \in T
    PROVE  Nat \subseteq T
<1> SUFFICES ASSUME ~(Nat \subseteq T) PROVE FALSE
  OBVIOUS
<1>1. PICK U : U = Nat \ T
  OBVIOUS
<1>2. PICK x \in U : \A y \in U : x <= y
  BY <1>1, LeastNatural
<1>3. x - 1 \in Nat /\ x - 1 \in T
  BY <1>1, <1>2
<1>4. (x - 1) + 1 \in T
  BY <1>3
<1> QED BY <1>1, <1>2, <1>4

(* Where x is in a sequence.                                               *)
At(x, q) == {i \in DOMAIN q : q[i] = x}

(* Count is a natural, and zero when the value does not occur.             *)
LEMMA CountNat ==
    ASSUME NEW q \in Seq(Int), NEW x
    PROVE  /\ IsFiniteSet(At(x, q)) /\ Count(x, q) \in Nat /\ Count(x, q) = Cardinality(At(x, q))
           /\ Count(x, q) = 0 <=> \A i \in DOMAIN q : q[i] # x
<1>1. IsFiniteSet(1 .. Len(q)) /\ At(x, q) \subseteq 1 .. Len(q)
  BY FS_Interval DEF At
<1>2. IsFiniteSet(At(x, q)) /\ Count(x, q) = Cardinality(At(x, q))
  BY <1>1, FS_Subset DEF Count, At
<1>3. Count(x, q) \in Nat
  BY <1>2, FS_CardinalityType
<1>4. Count(x, q) = 0 <=> At(x, q) = {}
  BY <1>2, FS_EmptySet
<1> QED BY <1>2, <1>3, <1>4 DEF At

(* Counts add up over a concatenation.                                     *)
LEMMA CountConcat ==
    ASSUME NEW p \in Seq(Int), NEW q \in Seq(Int), NEW x
    PROVE  p \o q \in Seq(Int) /\ Count(x, p \o q) = Count(x, p) + Count(x, q)
<1>1. PICK m : m = Len(p)
  OBVIOUS
<1>2. PICK c : c = p \o q
  OBVIOUS
<1>3. /\ m \in Nat /\ c \in Seq(Int) /\ Len(c) = m + Len(q) /\ Len(q) \in Nat
      /\ DOMAIN c = 1 .. m + Len(q) /\ DOMAIN p = 1 .. m /\ DOMAIN q = 1 .. Len(q)
      /\ \A i \in 1 .. m : c[i] = p[i]
      /\ \A i \in 1 .. Len(q) : c[m + i] = q[i]
  BY <1>1, <1>2
<1>4. PICK A : A = At(x, p)
  OBVIOUS
<1>5. PICK B : B = {i \in DOMAIN c : i > m /\ c[i] = x}
  OBVIOUS
<1>6. At(x, c) = A \cup B /\ A \cap B = {}
  BY <1>3, <1>4, <1>5 DEF At
<1>7. IsFiniteSet(A) /\ IsFiniteSet(At(x, c)) /\ B \subseteq At(x, c)
  BY <1>3, <1>4, <1>6, CountNat
<1>8. IsFiniteSet(B)
  BY <1>7, FS_Subset
<1>9. Cardinality(At(x, c)) = Cardinality(A) + Cardinality(B)
  <2>1. Cardinality(A \cup B) = Cardinality(A) + Cardinality(B) - Cardinality(A \cap B)
    BY <1>7, <1>8, FS_Union
  <2>2. Cardinality(A \cap B) = 0
    BY <1>6, FS_EmptySet
  <2>3. Cardinality(A) \in Nat /\ Cardinality(B) \in Nat
    BY <1>7, <1>8, FS_CardinalityType
  <2> QED BY <1>6, <2>1, <2>2, <2>3
<1>10. Cardinality(B) = Cardinality(At(x, q))
  <2>1. PICK D : D = At(x, q)
    OBVIOUS
  <2>2. PICK f : f = [i \in D |-> m + i]
    OBVIOUS
  <2>3. D \subseteq 1 .. Len(q) /\ \A i \in 1 .. Len(q) : i \in D <=> q[i] = x
    BY <1>3, <2>1 DEF At
  <2>4. \A i \in D : f[i] \in B /\ f[i] = m + i
    BY <1>3, <1>5, <2>2, <2>3
  <2>5. \A j \in B : j - m \in D /\ f[j - m] = j
    <3>1. ASSUME NEW j \in B
          PROVE  j - m \in D /\ f[j - m] = j
      <4>1. j \in 1 .. m + Len(q) /\ j > m /\ c[j] = x
        BY <1>3, <1>5, <3>1
      <4>2. j - m \in 1 .. Len(q) /\ m + (j - m) = j
        BY <1>3, <4>1
      <4>3. j - m \in D
        BY <1>3, <2>3, <4>1, <4>2
      <4> QED BY <2>2, <4>2, <4>3
    <3> QED BY <3>1
  <2>6. f \in [D -> B] /\ \A i, j \in D : f[i] = f[j] => i = j
    BY <1>3, <2>2, <2>3, <2>4
  <2>7. f \in Bijection(D, B)
    <3>1. f \in Injection(D, B)
      BY <2>6 DEF Injection, IsInjective
    <3>2. \A j \in B : \E i \in D : f[i] = j
      BY <2>5
    <3>3. f \in Surjection(D, B)
      BY <2>6, <3>2 DEF Surjection
    <3> QED BY <3>1, <3>3 DEF Bijection
  <2>8. IsFiniteSet(D)
    BY <2>1, CountNat
  <2> QED BY <2>1, <2>7, <2>8, FS_Bijection DEF ExistsBijection
<1> QED BY <1>2, <1>3, <1>4, <1>9, <1>10, CountNat

(* Counting in a sequence of one record.                                   *)
LEMMA CountOne ==
    ASSUME NEW y \in Int, NEW x
    PROVE  <<y>> \in Seq(Int) /\ Count(x, <<y>>) = IF x = y THEN 1 ELSE 0
<1>1. <<y>> \in Seq(Int) /\ DOMAIN <<y>> = {1} /\ <<y>>[1] = y
  OBVIOUS
<1>2. CASE x = y
  <2>1. At(x, <<y>>) = {1}
    BY <1>1, <1>2 DEF At
  <2> QED BY <1>1, <1>2, <2>1, FS_Singleton, CountNat
<1>3. CASE x # y
  BY <1>1, <1>3, CountNat
<1> QED BY <1>1, <1>2, <1>3

(* Nothing occurs in the empty sequence.                                   *)
LEMMA CountEmpty ==
    ASSUME NEW x
    PROVE  Count(x, <<>>) = 0
<1>1. <<>> \in Seq(Int) /\ \A i \in DOMAIN <<>> : <<>>[i] # x
  OBVIOUS
<1> QED BY <1>1, CountNat

(* Counting after a record was appended.                                   *)
LEMMA CountAppend ==
    ASSUME NEW q \in Seq(Int), NEW y \in Int, NEW x
    PROVE  /\ Append(q, y) \in Seq(Int)
           /\ Count(x, Append(q, y)) = Count(x, q) + IF x = y THEN 1 ELSE 0
<1>1. Append(q, y) = q \o <<y>> /\ <<y>> \in Seq(Int)
  OBVIOUS
<1>2. Count(x, q \o <<y>>) = Count(x, q) + Count(x, <<y>>) /\ q \o <<y>> \in Seq(Int)
  BY <1>1, CountConcat
<1>3. Count(x, <<y>>) = IF x = y THEN 1 ELSE 0
  BY CountOne
<1> QED BY <1>1, <1>2, <1>3

(* Counting the first record and the rest.                                 *)
LEMMA CountHead ==
    ASSUME NEW q \in Seq(Int), q # <<>>, NEW x
    PROVE  /\ Head(q) \in Int /\ Tail(q) \in Seq(Int) /\ q = <<Head(q)>> \o Tail(q)
           /\ Count(x, q) = (IF x = Head(q) THEN 1 ELSE 0) + Count(x, Tail(q))
<1>1. Head(q) \in Int /\ Tail(q) \in Seq(Int) /\ q = <<Head(q)>> \o Tail(q)
  OBVIOUS
<1>2. PICK y : y = Head(q)
  OBVIOUS
<1>3. PICK z : z = Tail(q)
  OBVIOUS
<1>4. y \in Int /\ z \in Seq(Int) /\ q = <<y>> \o z /\ <<y>> \in Seq(Int)
  BY <1>1, <1>2, <1>3
<1>5. Count(x, q) = Count(x, <<y>>) + Count(x, z)
  <2>1. PICK o : o = <<y>>
    OBVIOUS
  <2>2. o \in Seq(Int) /\ z \in Seq(Int) /\ q = o \o z
    BY <1>4, <2>1
  <2>3. Count(x, o \o z) = Count(x, o) + Count(x, z)
    BY <2>2, CountConcat
  <2> QED BY <2>1, <2>2, <2>3
<1>6. Count(x, <<y>>) = IF x = y THEN 1 ELSE 0
  BY <1>4, CountOne
<1> QED BY <1>1, <1>2, <1>3, <1>5, <1>6

(* A sequence is its first n elements and the others.                      *)
LEMMA Cut ==
    ASSUME NEW S, NEW q \in Seq(S), NEW n \in 0 .. Len(q)
    PROVE  /\ SubSeq(q, 1, n) \in Seq(S) /\ SubSeq(q, n + 1, Len(q)) \in Seq(S)
           /\ q = SubSeq(q, 1, n) \o SubSeq(q, n + 1, Len(q))
           /\ Len(SubSeq(q, 1, n)) = n
<1>1. PICK m : m = Len(q)
  OBVIOUS
<1>2. m \in Nat /\ n \in 0 .. m /\ q \in Seq(S) /\ DOMAIN q = 1 .. m
  BY <1>1
<1>3. PICK a : a = SubSeq(q, 1, n)
  OBVIOUS
<1>4. PICK b : b = SubSeq(q, n + 1, m)
  OBVIOUS
<1>5. a \in Seq(S) /\ Len(a) = n /\ \A i \in 1 .. n : a[i] = q[i]
  BY <1>1, <1>2, <1>3
<1>6. b \in Seq(S) /\ Len(b) = m - n /\ \A i \in 1 .. m - n : b[i] = q[n + i]
  BY <1>1, <1>2, <1>4
<1>7. PICK c : c = a \o b
  OBVIOUS
<1>8. /\ c \in Seq(S) /\ Len(c) = m
      /\ \A i \in 1 .. m : c[i] = IF i <= n THEN a[i] ELSE b[i - n]
  <2>1. a \in Seq(S) /\ b \in Seq(S)
    BY <1>5, <1>6
  <2>2. c \in Seq(S) /\ Len(c) = Len(a) + Len(b)
    BY <1>7, <2>1
  <2>3. \A i \in 1 .. Len(a) + Len(b) : c[i] = IF i <= Len(a) THEN a[i] ELSE b[i - Len(a)]
    BY <1>7, <2>1
  <2>4. Len(a) = n /\ Len(a) + Len(b) = m
    BY <1>2, <1>5, <1>6
  <2> QED BY <2>2, <2>3, <2>4
<1>9. ASSUME NEW i \in 1 .. m PROVE c[i] = q[i]
  <2>1. c[i] = IF i <= n THEN a[i] ELSE b[i - n]
    BY <1>8
  <2>2. CASE i <= n
    <3>1. i \in 1 .. n
      BY <1>2, <2>2
    <3> QED BY <1>5, <2>1, <2>2, <3>1
  <2>3. CASE ~(i <= n)
    <3>1. i - n \in 1 .. m - n /\ n + (i - n) = i
      BY <1>2, <2>3
    <3>2. b[i - n] = q[n + (i - n)]
      BY <1>6, <3>1
    <3> QED BY <2>1, <2>3, <3>1, <3>2
  <2> QED BY <2>2, <2>3
<1>10. c = q
  <2>1. DOMAIN c = 1 .. m /\ c = [i \in 1 .. m |-> c[i]] /\ q = [i \in 1 .. m |-> q[i]]
    BY <1>1, <1>2, <1>8
  <2> QED BY <1>9, <2>1
<1> QED BY <1>1, <1>3, <1>4, <1>5, <1>6, <1>7, <1>10

(* Nothing else occurs in a sequence of equal records.                     *)
LEMMA CountConst ==
    ASSUME NEW n \in Nat, NEW y \in Int, NEW x, x # y
    PROVE  [i \in 1 .. n |-> y] \in Seq(Int) /\ Count(x, [i \in 1 .. n |-> y]) = 0
<1>1. [i \in 1 .. n |-> y] \in Seq(Int)
  OBVIOUS
<1> QED BY <1>1, CountNat

-----------------------------------------------------------------------------
(* What FlattenSeq makes of _write_buffer.                                 *)

(* A sequence that is not empty has a last element.                        *)
LEMMA LastElement ==
    ASSUME NEW S, NEW q \in Seq(S), q # <<>>
    PROVE  \E p \in Seq(S), x \in S : q = Append(p, x) /\ Len(q) = Len(p) + 1
<1>1. PICK n : n = Len(q) - 1
  OBVIOUS
<1>2. Len(q) \in Nat /\ n \in Nat /\ Len(q) = n + 1 /\ q[n + 1] \in S /\ DOMAIN q = 1 .. n + 1
  BY <1>1
<1>3. PICK p : p = SubSeq(q, 1, n)
  OBVIOUS
<1>4. PICK x : x = q[n + 1]
  OBVIOUS
<1>5. p \in Seq(S) /\ Len(p) = n /\ x \in S /\ \A i \in 1 .. n : p[i] = q[i]
  BY <1>2, <1>3, <1>4
<1>6. PICK r : r = Append(p, x)
  OBVIOUS
<1>7. /\ r \in Seq(S) /\ Len(r) = n + 1 /\ DOMAIN r = 1 .. n + 1
      /\ \A i \in 1 .. n : r[i] = p[i]
      /\ r[n + 1] = x
  BY <1>5, <1>6
<1>8. \A i \in 1 .. n + 1 : r[i] = q[i]
  <2>1. ASSUME NEW i \in 1 .. n + 1
        PROVE  r[i] = q[i]
    <3>1. CASE i = n + 1
      BY <1>4, <1>7, <3>1
    <3>2. CASE i # n + 1
      <4>1. i \in 1 .. n
        BY <1>2, <2>1, <3>2
      <4> QED BY <1>5, <1>7, <4>1
    <3> QED BY <3>1, <3>2
  <2> QED BY <2>1
<1>9. r = q
  <2>1. r = [i \in 1 .. n + 1 |-> r[i]] /\ q = [i \in 1 .. n + 1 |-> q[i]]
    BY <1>2, <1>7
  <2> QED BY <1>8, <2>1
<1> QED BY <1>2, <1>5, <1>6, <1>9

(* A sequence that is not empty has a length above zero.                   *)
LEMMA NotEmpty ==
    ASSUME NEW S, NEW q \in Seq(S), q # <<>>
    PROVE  Len(q) \in Nat /\ Len(q) > 0 /\ Len(q) \in 1 .. Len(q)
OBVIOUS

-----------------------------------------------------------------------------
(* What FlattenSeq goes through.                                           *)
Flattens(q, n, f) ==
    \A i \in 1 .. n : f[i] = IF i = 1 THEN q[i] ELSE f[i - 1] \o q[i]

(* FlattenSeq has something to choose from.                                *)
LEMMA FlattensExists ==
    ASSUME NEW q \in Seq(Seq(Int))
    PROVE  \E f \in [1 .. Len(q) -> Seq(Int)] : Flattens(q, Len(q), f)
<1> DEFINE T == {n \in Nat : n <= Len(q) => \E f \in [1 .. n -> Seq(Int)] : Flattens(q, n, f)}
<1>1. 0 \in T
  <2>1. PICK f : f = [i \in 1 .. 0 |-> <<>>]
    OBVIOUS
  <2>2. f \in [1 .. 0 -> Seq(Int)] /\ Flattens(q, 0, f)
    BY <2>1 DEF Flattens
  <2> QED BY <2>2
<1>2. ASSUME NEW n \in Nat, n \in T
      PROVE  n + 1 \in T
  <2> SUFFICES ASSUME n + 1 <= Len(q)
               PROVE  \E f \in [1 .. n + 1 -> Seq(Int)] : Flattens(q, n + 1, f)
    OBVIOUS
  <2>1. PICK f \in [1 .. n -> Seq(Int)] : Flattens(q, n, f)
    BY <1>2
  <2>2. q[n + 1] \in Seq(Int) /\ \A i \in 1 .. n : f[i] \in Seq(Int)
    OBVIOUS
  <2>3. PICK y : y = IF n = 0 THEN q[1] ELSE f[n] \o q[n + 1]
    OBVIOUS
  <2>4. y \in Seq(Int)
    BY <2>2, <2>3
  <2>5. PICK g : g = [i \in 1 .. n + 1 |-> IF i <= n THEN f[i] ELSE y]
    OBVIOUS
  <2>6. g \in [1 .. n + 1 -> Seq(Int)]
    BY <2>2, <2>4, <2>5
  <2>7. ASSUME NEW i \in 1 .. n + 1
        PROVE  g[i] = IF i = 1 THEN q[i] ELSE g[i - 1] \o q[i]
    <3>1. CASE i = n + 1
      <4>1. g[i] = y
        BY <2>5, <3>1
      <4>2. CASE n = 0
        BY <2>3, <3>1, <4>1, <4>2
      <4>3. CASE n # 0
        <5>1. n \in 1 .. n + 1 /\ n <= n /\ i - 1 = n /\ i # 1
          BY <3>1, <4>3
        <5>2. g[n] = f[n]
          BY <2>5, <5>1
        <5> QED BY <2>3, <3>1, <4>1, <4>3, <5>1, <5>2
      <4> QED BY <4>2, <4>3
    <3>2. CASE i # n + 1
      <4>1. i \in 1 .. n /\ i <= n
        BY <2>7, <3>2
      <4>2. g[i] = f[i]
        BY <2>5, <2>7, <4>1
      <4>3. f[i] = IF i = 1 THEN q[i] ELSE f[i - 1] \o q[i]
        BY <2>1, <4>1 DEF Flattens
      <4>4. CASE i = 1
        BY <4>2, <4>3, <4>4
      <4>5. CASE i # 1
        <5>1. i - 1 \in 1 .. n + 1 /\ i - 1 <= n
          BY <4>1, <4>5
        <5>2. g[i - 1] = f[i - 1]
          BY <2>5, <5>1
        <5> QED BY <4>2, <4>3, <4>5, <5>2
      <4> QED BY <4>4, <4>5
    <3> QED BY <3>1, <3>2
  <2>8. Flattens(q, n + 1, g)
    BY <2>7 DEF Flattens
  <2> QED BY <2>6, <2>8
<1>3. Nat \subseteq T
  <2> HIDE DEF T
  <2> QED BY <1>1, <1>2, SetInduction
<1> QED BY <1>3

(* And only one thing.                                                     *)
LEMMA FlattensUnique ==
    ASSUME NEW q, NEW n \in Nat, NEW f, NEW g, Flattens(q, n, f), Flattens(q, n, g)
    PROVE  \A i \in 1 .. n : f[i] = g[i]
<1> DEFINE T == {i \in Nat : i \in 1 .. n => f[i] = g[i]}
<1>1. 0 \in T
  OBVIOUS
<1>2. ASSUME NEW i \in Nat, i \in T PROVE i + 1 \in T
  BY <1>2 DEF Flattens
<1>3. Nat \subseteq T
  <2> HIDE DEF T
  <2> QED BY <1>1, <1>2, SetInduction
<1> QED BY <1>3

(* So FlattenSeq is what its equations say.                                *)
LEMMA FlattenIs ==
    ASSUME NEW q \in Seq(Seq(Int)), q # <<>>
    PROVE  \E f \in [1 .. Len(q) -> Seq(Int)] : Flattens(q, Len(q), f) /\ FlattenSeq(q) = f[Len(q)]
<1>0. Len(q) \in Nat /\ Len(q) # 0 /\ Len(q) \in 1 .. Len(q)
  OBVIOUS
<1>1. PICK f \in [1 .. Len(q) -> Seq(Int)] : Flattens(q, Len(q), f)
  BY FlattensExists
<1>2. f = [i \in 1 .. Len(q) |-> IF i = 1 THEN q[i] ELSE f[i - 1] \o q[i]]
  BY <1>1 DEF Flattens
<1> DEFINE g == CHOOSE f2 : f2 = [i \in 1 .. Len(q) |-> IF i = 1 THEN q[i] ELSE f2[i - 1] \o q[i]]
<1>3. g = [i \in 1 .. Len(q) |-> IF i = 1 THEN q[i] ELSE g[i - 1] \o q[i]]
  BY <1>2
<1>4. Flattens(q, Len(q), g)
  <2> HIDE DEF g
  <2> QED BY <1>3 DEF Flattens
<1>5. FlattenSeq(q) = g[Len(q)]
  BY <1>0 DEF FlattenSeq
<1>6. \A i \in 1 .. Len(q) : f[i] = g[i]
  <2> HIDE DEF g
  <2> QED BY <1>0, <1>1, <1>4, FlattensUnique
<1> HIDE DEF g
<1> QED BY <1>0, <1>1, <1>5, <1>6

(* An empty _write_buffer holds no plaintext.                              *)
LEMMA FlattenEmpty ==
    FlattenSeq(<<>>) = <<>>
BY DEF FlattenSeq

(* _write_buffer holds records.                                            *)
LEMMA FlattenType ==
    ASSUME NEW q \in Seq(Seq(Int))
    PROVE  FlattenSeq(q) \in Seq(Int)
<1>1. CASE q = <<>>
  <2>1. FlattenSeq(q) = <<>>
    BY <1>1, FlattenEmpty
  <2> QED BY <2>1
<1>2. CASE q # <<>>
  <2>1. Len(q) \in 1 .. Len(q)
    BY <1>2, NotEmpty
  <2>2. PICK f \in [1 .. Len(q) -> Seq(Int)] : FlattenSeq(q) = f[Len(q)]
    BY <1>2, FlattenIs
  <2> QED BY <2>1, <2>2
<1> QED BY <1>1, <1>2

(* A chunk that is appended to _write_buffer comes last.                   *)
LEMMA FlattenAppend ==
    ASSUME NEW q \in Seq(Seq(Int)), NEW d \in Seq(Int)
    PROVE  FlattenSeq(Append(q, d)) = FlattenSeq(q) \o d /\ Append(q, d) \in Seq(Seq(Int))
<1>1. PICK r : r = Append(q, d)
  OBVIOUS
<1>2. PICK n : n = Len(q)
  OBVIOUS
<1>3. /\ r \in Seq(Seq(Int)) /\ n \in Nat /\ Len(r) = n + 1 /\ r # <<>> /\ r[n + 1] = d
      /\ \A i \in 1 .. n : q[i] = r[i]
  BY <1>1, <1>2
<1>4. PICK g : Flattens(r, n + 1, g) /\ FlattenSeq(r) = g[n + 1]
  BY <1>3, FlattenIs
<1>5. CASE q = <<>>
  <2>1. n = 0 /\ FlattenSeq(q) = <<>>
    BY <1>2, <1>5, FlattenEmpty
  <2>2. g[1] = r[1]
    BY <1>4, <2>1 DEF Flattens
  <2>3. <<>> \o d = d
    OBVIOUS
  <2> QED BY <1>1, <1>3, <1>4, <2>1, <2>2, <2>3
<1>6. CASE q # <<>>
  <2>1. PICK f : Flattens(q, n, f) /\ FlattenSeq(q) = f[n]
    <3>1. \E f \in [1 .. Len(q) -> Seq(Int)] : Flattens(q, Len(q), f) /\ FlattenSeq(q) = f[Len(q)]
      BY <1>6, FlattenIs
    <3> QED BY <1>2, <3>1
  <2>2. n # 0
    <3>1. Len(q) > 0
      BY <1>6, NotEmpty
    <3> QED BY <1>2, <3>1
  <2>3. \A i \in 1 .. n : f[i] = g[i]
    <3>1. \A i \in 1 .. n : q[i] = r[i] /\ i \in 1 .. n + 1
      BY <1>3
    <3>2. \A i \in 1 .. n + 1 : g[i] = IF i = 1 THEN r[i] ELSE g[i - 1] \o r[i]
      BY <1>4 DEF Flattens
    <3>3. Flattens(q, n, g)
      BY <3>1, <3>2 DEF Flattens
    <3>4. n \in Nat /\ Flattens(q, n, f)
      BY <1>3, <2>1
    <3> QED BY <3>3, <3>4, FlattensUnique
  <2>4. g[n + 1] = g[n] \o r[n + 1] /\ f[n] = g[n]
    <3>1. n + 1 \in 1 .. n + 1 /\ n + 1 # 1 /\ (n + 1) - 1 = n /\ n \in 1 .. n
      BY <1>3, <2>2
    <3>2. g[n + 1] = IF n + 1 = 1 THEN r[n + 1] ELSE g[(n + 1) - 1] \o r[n + 1]
      BY <1>4, <3>1 DEF Flattens
    <3> QED BY <2>3, <3>1, <3>2
  <2> QED BY <1>1, <1>3, <1>4, <2>1, <2>4
<1> QED BY <1>5, <1>6

(* Tail and Append commute.                                                *)
LEMMA TailAppend ==
    ASSUME NEW S, NEW p \in Seq(S), p # <<>>, NEW x \in S
    PROVE  /\ Tail(Append(p, x)) = Append(Tail(p), x) /\ Head(Append(p, x)) = Head(p)
           /\ Tail(p) \in Seq(S) /\ Len(Tail(p)) = Len(p) - 1
<1>1. PICK n : n = Len(p)
  OBVIOUS
<1>2. n \in Nat /\ n > 0 /\ p \in Seq(S)
  BY <1>1
<1>3. PICK a : a = Append(p, x)
  OBVIOUS
<1>4. a \in Seq(S) /\ Len(a) = n + 1 /\ a[n + 1] = x /\ \A i \in 1 .. n : a[i] = p[i]
  BY <1>1, <1>3
<1>5. PICK b : b = Tail(a)
  OBVIOUS
<1>6. b \in Seq(S) /\ Len(b) = n /\ \A i \in 1 .. n : b[i] = a[i + 1]
  BY <1>2, <1>4, <1>5
<1>7. PICK c : c = Tail(p)
  OBVIOUS
<1>8. c \in Seq(S) /\ Len(c) = n - 1 /\ \A i \in 1 .. n - 1 : c[i] = p[i + 1]
  BY <1>1, <1>2, <1>7
<1>9. PICK d : d = Append(c, x)
  OBVIOUS
<1>10. d \in Seq(S) /\ Len(d) = n /\ d[n] = x /\ \A i \in 1 .. n - 1 : d[i] = c[i]
  BY <1>2, <1>8, <1>9
<1>11. \A i \in 1 .. n : b[i] = d[i]
  <2>1. ASSUME NEW i \in 1 .. n
        PROVE  b[i] = d[i]
    <3>1. CASE i = n
      BY <1>2, <1>4, <1>6, <1>10, <3>1
    <3>2. CASE i # n
      <4>1. i \in 1 .. n - 1 /\ i + 1 \in 1 .. n
        BY <1>2, <2>1, <3>2
      <4> QED BY <1>4, <1>6, <1>8, <1>10, <4>1
    <3> QED BY <3>1, <3>2
  <2> QED BY <2>1
<1>12. b = d
  <2>1. b = [i \in 1 .. n |-> b[i]] /\ d = [i \in 1 .. n |-> d[i]]
    BY <1>6, <1>10
  <2> QED BY <1>11, <2>1
<1>13. Head(a) = Head(p)
  BY <1>1, <1>2, <1>4
<1> QED BY <1>1, <1>3, <1>5, <1>7, <1>8, <1>9, <1>12, <1>13

(* A piece *)
LEMMA FlattenHead ==
    ASSUME NEW q \in Seq(Seq(Int)), q # <<>>, NEW x
    PROVE  /\ Head(q) \in Seq(Int) /\ Tail(q) \in Seq(Seq(Int))
           /\ Count(x, FlattenSeq(q)) = Count(x, Head(q)) + Count(x, FlattenSeq(Tail(q)))
<1> DEFINE T == {n \in Nat : \A r \in Seq(Seq(Int)) : Len(r) = n + 1 =>
                    Count(x, FlattenSeq(r)) = Count(x, Head(r)) + Count(x, FlattenSeq(Tail(r)))}
<1>1. 0 \in T
  <2>1. ASSUME NEW r \in Seq(Seq(Int)), Len(r) = 0 + 1
        PROVE  Count(x, FlattenSeq(r)) = Count(x, Head(r)) + Count(x, FlattenSeq(Tail(r)))
    <3>1. r # <<>> /\ Len(r) = 1 /\ Head(r) = r[1] /\ Tail(r) = <<>> /\ r[1] \in Seq(Int)
      <4>1. Len(r) = 1 /\ r[1] \in Seq(Int) /\ r # <<>>
        <5>1. Len(r) = 1
          BY <2>1
        <5>2. 1 \in 1 .. Len(r) /\ DOMAIN r = 1 .. Len(r)
          BY <5>1
        <5>3. r[1] \in Seq(Int)
          BY <5>2
        <5>4. ASSUME r = <<>> PROVE FALSE
          BY <5>1, <5>4
        <5> QED BY <5>1, <5>3, <5>4
      <4>2. PICK z : z = Tail(r)
        OBVIOUS
      <4>3. z \in Seq(Seq(Int)) /\ Len(z) = 0
        <5>1. z \in Seq(Seq(Int)) /\ Len(z) = Len(r) - 1
          BY <4>1, <4>2, NotEmpty
        <5> QED BY <4>1, <5>1
      <4>4. z = <<>>
        BY <4>3, NotEmpty
      <4>5. Head(r) = r[1]
        BY <4>1
      <4> QED BY <4>1, <4>2, <4>4, <4>5
    <3>2. FlattenSeq(r) = r[1]
      <4>1. PICK f \in [1 .. Len(r) -> Seq(Int)] : Flattens(r, Len(r), f) /\ FlattenSeq(r) = f[Len(r)]
        BY <3>1, FlattenIs
      <4>2. f[1] = r[1]
        BY <3>1, <4>1 DEF Flattens
      <4> QED BY <3>1, <4>1, <4>2
    <3>3. Count(x, FlattenSeq(Tail(r))) = 0
      BY <3>1, FlattenEmpty, CountEmpty
    <3>4. Count(x, r[1]) \in Nat
      BY <3>1, CountNat
    <3> QED BY <3>1, <3>2, <3>3, <3>4
  <2> QED BY <2>1
<1>2. ASSUME NEW n \in Nat, n \in T
      PROVE  n + 1 \in T
  <2>1. ASSUME NEW r \in Seq(Seq(Int)), Len(r) = (n + 1) + 1
        PROVE  Count(x, FlattenSeq(r)) = Count(x, Head(r)) + Count(x, FlattenSeq(Tail(r)))
    <3>1. r # <<>>
      BY <2>1
    <3>2. PICK p \in Seq(Seq(Int)), d \in Seq(Int) : r = Append(p, d) /\ Len(r) = Len(p) + 1
      BY <3>1, LastElement
    <3>3. Len(p) = n + 1 /\ p # <<>>
      BY <2>1, <3>2
    <3>4. PICK z : z = Tail(p)
      OBVIOUS
    <3>5. PICK y : y = Head(p)
      OBVIOUS
    <3>6. Tail(r) = Append(z, d) /\ Head(r) = y /\ z \in Seq(Seq(Int)) /\ y \in Seq(Int)
      BY <3>2, <3>3, <3>4, <3>5, TailAppend
    <3>7. Count(x, FlattenSeq(p)) = Count(x, y) + Count(x, FlattenSeq(z))
      BY <1>2, <3>3, <3>4, <3>5
    <3>8. FlattenSeq(r) = FlattenSeq(p) \o d /\ FlattenSeq(Append(z, d)) = FlattenSeq(z) \o d
      BY <3>2, <3>6, FlattenAppend
    <3>9. FlattenSeq(p) \in Seq(Int) /\ FlattenSeq(z) \in Seq(Int)
      BY <3>6, FlattenType
    <3>10. /\ Count(x, FlattenSeq(r)) = Count(x, FlattenSeq(p)) + Count(x, d)
           /\ Count(x, FlattenSeq(Append(z, d))) = Count(x, FlattenSeq(z)) + Count(x, d)
      BY <3>8, <3>9, CountConcat
    <3>11. Count(x, y) \in Nat /\ Count(x, FlattenSeq(z)) \in Nat /\ Count(x, d) \in Nat
      BY <3>6, <3>9, CountNat
    <3>12. PICK a, b, c : a = Count(x, y) /\ b = Count(x, FlattenSeq(z)) /\ c = Count(x, d)
      OBVIOUS
    <3>13. /\ Count(x, FlattenSeq(r)) = (a + b) + c /\ a \in Nat /\ b \in Nat /\ c \in Nat
           /\ Count(x, Head(r)) = a /\ Count(x, FlattenSeq(Tail(r))) = b + c
      BY <3>6, <3>7, <3>10, <3>11, <3>12
    <3>14. (a + b) + c = a + (b + c)
      BY <3>13
    <3> QED BY <3>13, <3>14
  <2> QED BY <2>1
<1>3. Nat \subseteq T
  <2> HIDE DEF T
  <2> QED BY <1>1, <1>2, SetInduction
<1>4. Len(q) - 1 \in Nat /\ Len(q) = (Len(q) - 1) + 1
  OBVIOUS
<1>5. Count(x, FlattenSeq(q)) = Count(x, Head(q)) + Count(x, FlattenSeq(Tail(q)))
  BY <1>3, <1>4
<1>6. Head(q) \in Seq(Int) /\ Tail(q) \in Seq(Seq(Int))
  <2>1. Len(q) > 0
    BY NotEmpty
  <2> QED BY <2>1
<1> QED BY <1>5, <1>6

-----------------------------------------------------------------------------
(* What Data makes of records.                                             *)

(* What Data goes through.                                                 *)
Reading(q, n, f) ==
    /\ f[0] = <<>>
    /\ \A i \in 1 .. n : f[i] = IF IsData(q[i]) THEN Append(f[i - 1], q[i]) ELSE f[i - 1]

(* The recursive function in Data exists.                                  *)
LEMMA ReadingExists ==
    ASSUME NEW q \in Seq(Int)
    PROVE  \E f : DOMAIN f = 0 .. Len(q) /\ Reading(q, Len(q), f)
<1> DEFINE T == {n \in Nat : \E f : DOMAIN f = 0 .. n /\ Reading(q, n, f)}
<1>1. 0 \in T
  <2>1. PICK f : f = [i \in 0 .. 0 |-> <<>>]
    OBVIOUS
  <2>2. DOMAIN f = 0 .. 0 /\ Reading(q, 0, f)
    BY <2>1 DEF Reading
  <2> QED BY <2>2
<1>2. ASSUME NEW n \in Nat, n \in T
      PROVE  n + 1 \in T
  <2>1. PICK f : DOMAIN f = 0 .. n /\ Reading(q, n, f)
    BY <1>2
  <2>2. PICK y : y = IF IsData(q[n + 1]) THEN Append(f[n], q[n + 1]) ELSE f[n]
    OBVIOUS
  <2>3. PICK g : g = [i \in 0 .. n + 1 |-> IF i = n + 1 THEN y ELSE f[i]]
    OBVIOUS
  <2>4. DOMAIN g = 0 .. n + 1 /\ g[n + 1] = y /\ \A i \in 0 .. n : g[i] = f[i]
    BY <2>3
  <2>5. ASSUME NEW i \in 1 .. n + 1
        PROVE  g[i] = IF IsData(q[i]) THEN Append(g[i - 1], q[i]) ELSE g[i - 1]
    <3>1. CASE i = n + 1
      <4>1. i - 1 = n /\ n \in 0 .. n
        BY <3>1
      <4> QED BY <2>2, <2>4, <3>1, <4>1
    <3>2. CASE i # n + 1
      <4>1. i \in 1 .. n /\ i - 1 \in 0 .. n /\ i \in 0 .. n
        BY <2>5, <3>2
      <4>2. g[i] = f[i] /\ g[i - 1] = f[i - 1]
        BY <2>4, <4>1
      <4>3. f[i] = IF IsData(q[i]) THEN Append(f[i - 1], q[i]) ELSE f[i - 1]
        BY <2>1, <4>1 DEF Reading
      <4> QED BY <4>2, <4>3
    <3> QED BY <3>1, <3>2
  <2>6. g[0] = <<>>
    BY <2>1, <2>4 DEF Reading
  <2>7. Reading(q, n + 1, g)
    BY <2>5, <2>6 DEF Reading
  <2> QED BY <2>4, <2>7
<1>3. Nat \subseteq T
  <2> HIDE DEF T
  <2> QED BY <1>1, <1>2, SetInduction
<1> QED BY <1>3

(* And is unique.                                                          *)
LEMMA ReadingUnique ==
    ASSUME NEW q, NEW n \in Nat, NEW f, NEW g, Reading(q, n, f), Reading(q, n, g)
    PROVE  \A i \in 0 .. n : f[i] = g[i]
<1> DEFINE T == {i \in Nat : i \in 0 .. n => f[i] = g[i]}
<1>1. 0 \in T
  BY DEF Reading
<1>2. ASSUME NEW i \in Nat, i \in T PROVE i + 1 \in T
  BY <1>2 DEF Reading
<1>3. Nat \subseteq T
  <2> HIDE DEF T
  <2> QED BY <1>1, <1>2, SetInduction
<1> QED BY <1>3

(* So Data is what its equations say.                                      *)
LEMMA DataIs ==
    ASSUME NEW q \in Seq(Int)
    PROVE  \E f : Reading(q, Len(q), f) /\ Data(q) = f[Len(q)]
<1>0. Len(q) \in Nat
  OBVIOUS
<1>1. PICK f : DOMAIN f = 0 .. Len(q) /\ Reading(q, Len(q), f)
  BY ReadingExists
<1> DEFINE Body(i, h) == IF i = 0 THEN <<>>
                         ELSE IF IsData(q[i]) THEN Append(h[i - 1], q[i]) ELSE h[i - 1]
           h1 == [i \in 0 .. Len(q) |-> f[i]]
<1>2. h1 = [i \in 0 .. Len(q) |-> Body(i, h1)]
  <2>1. ASSUME NEW i \in 0 .. Len(q) PROVE f[i] = Body(i, h1)
    <3>1. CASE i = 0
      BY <1>1, <3>1 DEF Reading
    <3>2. CASE i # 0
      <4>1. i \in 1 .. Len(q) /\ i - 1 \in 0 .. Len(q)
        BY <2>1, <3>2
      <4>2. h1[i - 1] = f[i - 1]
        BY <4>1
      <4>3. f[i] = IF IsData(q[i]) THEN Append(f[i - 1], q[i]) ELSE f[i - 1]
        BY <1>1, <4>1 DEF Reading
      <4> QED BY <3>2, <4>2, <4>3
    <3> QED BY <3>1, <3>2
  <2> QED BY <2>1
<1> DEFINE g == CHOOSE h : h = [i \in 0 .. Len(q) |-> Body(i, h)]
<1>3. g = [i \in 0 .. Len(q) |-> Body(i, g)]
  <2> HIDE DEF h1
  <2> QED BY <1>2
<1>4. Reading(q, Len(q), g)
  <2>1. Len(q) \in Nat
    BY <1>0
  <2>2. PICK k : k = g
    OBVIOUS
  <2>3. k = [i \in 0 .. Len(q) |-> Body(i, k)]
    BY <1>3, <2>2
  <2>4. k[0] = <<>>
    BY <2>1, <2>3
  <2>5. ASSUME NEW i \in 1 .. Len(q)
        PROVE  k[i] = IF IsData(q[i]) THEN Append(k[i - 1], q[i]) ELSE k[i - 1]
    <3>1. i \in 0 .. Len(q) /\ i # 0
      BY <2>1, <2>5
    <3>2. k[i] = Body(i, k)
      BY <2>3, <3>1
    <3> QED BY <3>1, <3>2
  <2>6. Reading(q, Len(q), k)
    BY <2>4, <2>5 DEF Reading
  <2> QED BY <2>2, <2>6
<1>5. Data(q) = g[Len(q)]
  BY DEF Data
<1> QED BY <1>4, <1>5

(* No records, no data.                                                    *)
LEMMA DataEmpty == Data(<<>>) = <<>>
<1>1. PICK q : q = <<>>
  OBVIOUS
<1>2. q \in Seq(Int) /\ Len(q) = 0
  BY <1>1
<1>3. PICK f : Reading(q, Len(q), f) /\ Data(q) = f[Len(q)]
  BY <1>2, DataIs
<1>4. f[Len(q)] = <<>>
  BY <1>2, <1>3 DEF Reading
<1> QED BY <1>1, <1>3, <1>4

(* A record that is appended adds its data.                                *)
LEMMA DataAppend ==
    ASSUME NEW q \in Seq(Int), NEW x \in Int
    PROVE  Data(Append(q, x)) = IF IsData(x) THEN Append(Data(q), x) ELSE Data(q)
<1>1. PICK r : r = Append(q, x)
  OBVIOUS
<1>2. PICK n : n = Len(q)
  OBVIOUS
<1>3. /\ r \in Seq(Int) /\ n \in Nat /\ Len(r) = n + 1 /\ r[n + 1] = x
      /\ \A i \in 1 .. n : r[i] = q[i]
  BY <1>1, <1>2
<1>4. PICK f : Reading(q, n, f) /\ Data(q) = f[n]
  BY <1>2, DataIs
<1>5. PICK g : Reading(r, n + 1, g) /\ Data(r) = g[n + 1]
  BY <1>3, DataIs
<1>6. Reading(q, n, g)
  BY <1>3, <1>5 DEF Reading
<1>7. f[n] = g[n]
  <2>1. n \in Nat /\ n \in 0 .. n
    BY <1>3
  <2>2. \A i \in 0 .. n : f[i] = g[i]
    BY <1>4, <1>6, <2>1, ReadingUnique
  <2> QED BY <2>1, <2>2
<1>8. g[n + 1] = IF IsData(r[n + 1]) THEN Append(g[n], r[n + 1]) ELSE g[n]
  <2>1. n + 1 \in 1 .. n + 1 /\ (n + 1) - 1 = n
    BY <1>3
  <2> QED BY <1>5, <2>1 DEF Reading
<1> QED BY <1>1, <1>3, <1>4, <1>5, <1>7, <1>8

(* Data is a sequence of numbers.                                          *)
LEMMA DataType ==
    ASSUME NEW q \in Seq(Int)
    PROVE  Data(q) \in Seq(Int)
<1> DEFINE T == {n \in Nat : \A r \in Seq(Int) : Len(r) = n => Data(r) \in Seq(Int)}
<1>1. 0 \in T
  <2>1. ASSUME NEW r \in Seq(Int), Len(r) = 0
        PROVE  Data(r) \in Seq(Int)
    <3>1. r = <<>>
      BY <2>1, NotEmpty
    <3>2. Data(r) = <<>>
      BY <3>1, DataEmpty
    <3> QED BY <3>2
  <2> QED BY <2>1
<1>2. ASSUME NEW n \in Nat, n \in T
      PROVE  n + 1 \in T
  <2>1. ASSUME NEW r \in Seq(Int), Len(r) = n + 1
        PROVE  Data(r) \in Seq(Int)
    <3>1. r # <<>>
      BY <2>1
    <3>2. PICK p \in Seq(Int), x \in Int : r = Append(p, x) /\ Len(r) = Len(p) + 1
      BY <3>1, LastElement
    <3>3. Len(p) = n
      BY <2>1, <3>2
    <3>4. Data(p) \in Seq(Int)
      BY <1>2, <3>3
    <3>5. Data(r) = IF IsData(x) THEN Append(Data(p), x) ELSE Data(p)
      BY <3>2, DataAppend
    <3> QED BY <3>4, <3>5
  <2> QED BY <2>1
<1>3. Nat \subseteq T
  <2> HIDE DEF T
  <2> QED BY <1>1, <1>2, SetInduction
<1> QED BY <1>3

(* Concatenation and Append.                                               *)
LEMMA ConcatAppend ==
    ASSUME NEW a \in Seq(Int), NEW b \in Seq(Int), NEW x \in Int
    PROVE  a \o Append(b, x) = Append(a \o b, x)
OBVIOUS

(* Data is in the order of the records, however they are cut.              *)
LEMMA DataConcat ==
    ASSUME NEW p \in Seq(Int), NEW q \in Seq(Int)
    PROVE  Data(p \o q) = Data(p) \o Data(q)
<1> DEFINE T == {n \in Nat : \A r \in Seq(Int) : Len(r) = n => Data(p \o r) = Data(p) \o Data(r)}
<1>0. Data(p) \in Seq(Int)
  BY DataType
<1>1. 0 \in T
  <2>1. ASSUME NEW r \in Seq(Int), Len(r) = 0
        PROVE  Data(p \o r) = Data(p) \o Data(r)
    <3>1. r = <<>>
      BY <2>1, NotEmpty
    <3>2. Data(r) = <<>> /\ p \o r = p
      BY <3>1, DataEmpty
    <3> QED BY <1>0, <3>2
  <2> QED BY <2>1
<1>2. ASSUME NEW n \in Nat, n \in T
      PROVE  n + 1 \in T
  <2>1. ASSUME NEW r \in Seq(Int), Len(r) = n + 1
        PROVE  Data(p \o r) = Data(p) \o Data(r)
    <3>1. r # <<>>
      BY <2>1
    <3>2. PICK z \in Seq(Int), x \in Int : r = Append(z, x) /\ Len(r) = Len(z) + 1
      BY <3>1, LastElement
    <3>3. Len(z) = n
      BY <2>1, <3>2
    <3>4. Data(p \o z) = Data(p) \o Data(z) /\ Data(z) \in Seq(Int)
      BY <1>2, <3>3, DataType
    <3>5. p \o r = Append(p \o z, x) /\ p \o z \in Seq(Int)
      BY <3>2
    <3>6. Data(p \o r) = IF IsData(x) THEN Append(Data(p \o z), x) ELSE Data(p \o z)
      BY <3>5, DataAppend
    <3>7. Data(r) = IF IsData(x) THEN Append(Data(z), x) ELSE Data(z)
      BY <3>2, DataAppend
    <3>8. PICK a, b : a = Data(p) /\ b = Data(z)
      OBVIOUS
    <3>9. a \o Append(b, x) = Append(a \o b, x)
      <4>1. a \in Seq(Int) /\ b \in Seq(Int)
        BY <1>0, <3>4, <3>8
      <4> QED BY <4>1, ConcatAppend
    <3> QED BY <3>4, <3>6, <3>7, <3>8, <3>9
  <2> QED BY <2>1
<1>3. Nat \subseteq T
  <2> HIDE DEF T
  <2> QED BY <1>1, <1>2, SetInduction
<1> QED BY <1>3

-----------------------------------------------------------------------------
(* The invariant of the way out, and _f.                                   *)

(* The fields of the endpoint that the invariants are about.               *)
Shape(e) ==
    {"kind", "started", "hs", "released", "shut", "broken", "kept", "bytes", "given",
     "incoming", "outgoing", "buf", "queue", "full", "paused", "raw", "stalled"} \subseteq DOMAIN e

(* The fields are of their types, and how they go together.                *)
Plain(e) ==
    /\ Shape(e)
    /\ e.incoming \in Seq(Int) /\ e.outgoing \in Seq(Int) /\ e.queue \in Seq(Int)
    /\ e.buf \in Seq(Seq(Int)) /\ e.bytes \in Nat /\ e.kept \subseteq 1 .. e.bytes
    /\ e.released => e.raw = "lost"
    /\ e.shut => e.hs
    /\ e.hs => e.started
    /\ e.paused => Class[e.kind].pauses
    /\ e.raw = "open" /\ e.paused => e.full
    /\ e.raw = "open" /\ e.full => Len(e.queue) > Low

Sound(e) == Plain(e) /\ (e.shut => e.outgoing = <<>>)

(* How often b is in what waits to be encrypted, with d in hand,           *)
Held(e, d, b) == Count(b, FlattenSeq(e.buf)) + Count(b, d)

(* and how often on the way to the peer, who has w.                        *)
Sent(e, w, b) == Count(b, e.queue) + Count(b, w)

(* close_notify is at the end of q only.                                   *)
Ended(q) == \A i \in DOMAIN q : q[i] = CloseNotify => i = Len(q)

(* Each byte is in one place, or not written yet; close_notify follows     *)
(* them all.                                                               *)
Flow(e, w, d) ==
    /\ w \in Seq(Int) /\ d \in Seq(Int)
    /\ \A b \in Nat : b > e.bytes =>
        Held(e, d, b) = 0 /\ Count(b, e.outgoing) = 0 /\ Sent(e, w, b) = 0
    /\ e.raw = "open" /\ ~e.broken => \A b \in e.kept :
        /\ Held(e, d, b) + Count(b, e.outgoing) + Sent(e, w, b) = 1
        /\ e.shut => Held(e, d, b) = 0
    /\ Held(e, d, CloseNotify) = 0 /\ Count(CloseNotify, e.outgoing) = 0
    /\ Sent(e, w, CloseNotify) > 0 => e.shut
    /\ Ended(w \o e.queue)
    /\ Sent(e, w, CloseNotify) > 0 /\ ~e.broken => \A b \in e.kept : Sent(e, w, b) > 0

Fine(e, w) == Sound(e) /\ Flow(e, w, <<>>)

(* Plaintext waits only while writing is paused.                           *)
Parked(e) == e.buf # <<>> /\ e.raw = "open" /\ ~e.stalled /\ ~e.shut /\ ~e.broken => e.paused

(* What the application was given and what it will be given are the same,  *)
(* and a connection that is lost stays lost.                               *)
Reads(e, r) ==
    /\ r.given = e.given
    /\ Data(r.incoming) = Data(e.incoming)
    /\ e.raw = "lost" => r.raw = "lost"

Keeps(e, r) == Reads(e, r) /\ (Parked(e) => Parked(r))

(* Where nothing moves: the raw transport may be closing now, and the SSL  *)
(* object broken.                                                          *)
Rests(e, r) ==
    /\ Shape(r)
    /\ r.kind = e.kind /\ r.released = e.released /\ (r.shut <=> e.shut)
    /\ r.kept = e.kept /\ r.bytes = e.bytes /\ r.given = e.given /\ r.incoming = e.incoming
    /\ r.outgoing = e.outgoing /\ r.buf = e.buf /\ r.queue = e.queue /\ r.full = e.full
    /\ r.paused = e.paused /\ r.stalled = e.stalled
    /\ e.broken => r.broken
    /\ r.raw = "open" => e.raw = "open"
    /\ e.raw = "lost" => r.raw = "lost"

(* All the places are counted by naturals.                                 *)
LEMMA CountsNat ==
    ASSUME NEW e, NEW w \in Seq(Int), NEW d \in Seq(Int), Plain(e), NEW b
    PROVE  /\ FlattenSeq(e.buf) \in Seq(Int)
           /\ Count(b, FlattenSeq(e.buf)) \in Nat /\ Count(b, d) \in Nat /\ Held(e, d, b) \in Nat
           /\ Count(b, e.outgoing) \in Nat
           /\ Count(b, e.queue) \in Nat /\ Count(b, w) \in Nat /\ Sent(e, w, b) \in Nat
<1>1. e.outgoing \in Seq(Int) /\ e.queue \in Seq(Int) /\ e.buf \in Seq(Seq(Int))
  BY DEF Plain
<1>2. FlattenSeq(e.buf) \in Seq(Int)
  BY <1>1, FlattenType
<1>3. /\ Count(b, FlattenSeq(e.buf)) \in Nat /\ Count(b, d) \in Nat /\ Count(b, e.outgoing) \in Nat
      /\ Count(b, e.queue) \in Nat /\ Count(b, w) \in Nat
  BY <1>1, <1>2, CountNat
<1> QED BY <1>2, <1>3 DEF Held, Sent

(* Such a step keeps everything.                                           *)
LEMMA RestsKeeps ==
    ASSUME NEW e, NEW w, Fine(e, w), NEW r, Rests(e, r), r.hs = e.hs, r.started = e.started
    PROVE  Fine(r, w) /\ Keeps(e, r)
<1>1. Sound(r)
  BY DEF Fine, Sound, Plain, Rests
<1>2. \A b : Held(r, <<>>, b) = Held(e, <<>>, b) /\ Sent(r, w, b) = Sent(e, w, b)
  BY DEF Rests, Held, Sent
<1>3. r.outgoing = e.outgoing /\ r.queue = e.queue /\ r.kept = e.kept /\ r.bytes = e.bytes
      /\ (r.shut <=> e.shut) /\ (e.broken => r.broken) /\ (r.raw = "open" => e.raw = "open")
  BY DEF Rests
<1>4. Flow(r, w, <<>>)
  BY <1>2, <1>3 DEF Fine, Flow
<1>5. Keeps(e, r)
  BY DEF Keeps, Reads, Parked, Rests
<1> QED BY <1>1, <1>4, <1>5 DEF Fine

(* If close_notify is nowhere, it is nowhere but at the end.               *)
LEMMA NoneEnds ==
    ASSUME NEW p \in Seq(Int), NEW q \in Seq(Int), Count(CloseNotify, p) + Count(CloseNotify, q) = 0
    PROVE  Ended(p \o q)
<1>1. p \o q \in Seq(Int) /\ Count(CloseNotify, p \o q) = 0
  BY CountConcat
<1> QED BY <1>1, CountNat DEF Ended

(* _f: what the SSL object has written goes to the raw transport, which    *)
(* drops it once it is closing.                                            *)
LEMMA FMoves ==
    ASSUME NEW e, Plain(e), NEW r, r = _f(e)
    PROVE  /\ Sound(r) /\ r.outgoing = <<>>
           /\ r.queue = IF e.raw = "open" THEN e.queue \o e.outgoing ELSE e.queue
           /\ r.kind = e.kind /\ r.started = e.started /\ r.hs = e.hs /\ r.released = e.released
           /\ r.shut = e.shut /\ r.broken = e.broken /\ r.kept = e.kept /\ r.bytes = e.bytes
           /\ r.given = e.given /\ r.incoming = e.incoming /\ r.buf = e.buf /\ r.raw = e.raw
           /\ r.stalled = e.stalled
           /\ e.paused => r.paused
<1>1. PICK m : m = [e EXCEPT !.outgoing = <<>>]
  OBVIOUS
<1>2. r = RawWrite(m, e.outgoing)
  BY <1>1 DEF _f
<1>3. /\ Shape(m) /\ m.outgoing = <<>> /\ m.queue = e.queue /\ m.full = e.full /\ m.paused = e.paused
      /\ m.kind = e.kind /\ m.started = e.started /\ m.hs = e.hs /\ m.released = e.released
      /\ m.shut = e.shut /\ m.broken = e.broken /\ m.kept = e.kept /\ m.bytes = e.bytes
      /\ m.given = e.given /\ m.incoming = e.incoming /\ m.buf = e.buf /\ m.raw = e.raw
      /\ m.stalled = e.stalled
  BY <1>1 DEF Plain, Shape
<1>4. Sound(m)
  BY <1>3 DEF Plain, Sound
<1>5. CASE e.raw # "open"
  <2>1. r = m
    BY <1>2, <1>3, <1>5 DEF RawWrite
  <2> QED BY <1>3, <1>4, <1>5, <2>1
<1>6. CASE e.raw = "open" /\ e.outgoing = <<>>
  <2>1. r = m
    BY <1>2, <1>6 DEF RawWrite
  <2>2. e.queue \o e.outgoing = e.queue
    BY <1>6 DEF Plain
  <2> QED BY <1>3, <1>4, <1>6, <2>1, <2>2
<1>7. CASE e.raw = "open" /\ e.outgoing # <<>>
  <2>1. PICK q : q = e.queue \o e.outgoing
    OBVIOUS
  <2>2. PICK f : f <=> (e.full \/ Len(q) > High)
    OBVIOUS
  <2>3. PICK p : p <=> (e.paused \/ (~e.full /\ Len(q) > High /\ Class[e.kind].pauses))
    OBVIOUS
  <2>4. r = [m EXCEPT !.queue = q, !.full = m.full \/ Len(q) > High,
                      !.paused = m.paused \/ (~m.full /\ Len(q) > High /\ Class[m.kind].pauses)]
    BY <1>2, <1>3, <1>7, <2>1 DEF RawWrite
  <2>5. /\ Shape(r) /\ r.outgoing = <<>> /\ r.queue = q
        /\ r.full = (m.full \/ Len(q) > High)
        /\ r.paused = (m.paused \/ (~m.full /\ Len(q) > High /\ Class[m.kind].pauses))
        /\ r.kind = e.kind /\ r.started = e.started /\ r.hs = e.hs /\ r.released = e.released
        /\ r.shut = e.shut /\ r.broken = e.broken /\ r.kept = e.kept /\ r.bytes = e.bytes
        /\ r.given = e.given /\ r.incoming = e.incoming /\ r.buf = e.buf /\ r.raw = e.raw
        /\ r.stalled = e.stalled
    BY <1>3, <2>4 DEF Shape
  <2>6. q \in Seq(Int) /\ Len(q) \in Nat /\ Len(q) >= Len(e.queue) /\ Len(e.queue) \in Nat
    <3>1. PICK x, y : x = e.queue /\ y = e.outgoing
      OBVIOUS
    <3>2. x \in Seq(Int) /\ y \in Seq(Int) /\ q = x \o y
      BY <2>1, <3>1 DEF Plain
    <3>3. q \in Seq(Int) /\ Len(q) = Len(x) + Len(y) /\ Len(x) \in Nat /\ Len(y) \in Nat
      BY <3>2
    <3>4. Len(q) >= Len(x) /\ Len(q) \in Nat
      BY <3>3
    <3> QED BY <3>1, <3>3, <3>4
  <2>7. /\ r.full <=> e.full \/ Len(q) > High
        /\ r.paused <=> e.paused \/ (~e.full /\ Len(q) > High /\ Class[e.kind].pauses)
    BY <1>3, <2>5
  <2>8. r.full => Len(r.queue) > Low
    <3>1. High \in Nat /\ Low \in Nat /\ Low <= High
      BY TlsAssumption
    <3>2. e.full => Len(e.queue) > Low
      BY <1>7 DEF Plain
    <3>3. r.full => e.full \/ Len(q) > High
      BY <2>7
    <3>4. r.queue = q
      BY <2>5
    <3> QED BY <2>6, <3>1, <3>2, <3>3, <3>4
  <2>9. (r.paused => r.full) /\ (r.paused => Class[r.kind].pauses) /\ (e.paused => r.paused)
    BY <1>7, <2>5, <2>7 DEF Plain
  <2>10. Plain(r)
    BY <2>5, <2>6, <2>8, <2>9 DEF Plain
  <2> QED BY <1>7, <2>1, <2>5, <2>9, <2>10 DEF Sound
<1> QED BY <1>5, <1>6, <1>7

(* _f keeps every byte in one place while the transport is open, and       *)
(* close_notify last.                                                      *)
LEMMA FKeeps ==
    ASSUME NEW e, NEW w, NEW d, Sound(e), Flow(e, w, d), NEW r, r = _f(e)
    PROVE  Sound(r) /\ Flow(r, w, d) /\ Keeps(e, r)
<1>1. Plain(e) /\ w \in Seq(Int) /\ d \in Seq(Int)
  BY DEF Sound, Flow
<1>2. /\ Sound(r) /\ r.outgoing = <<>>
      /\ r.queue = IF e.raw = "open" THEN e.queue \o e.outgoing ELSE e.queue
      /\ r.shut = e.shut /\ r.broken = e.broken /\ r.kept = e.kept /\ r.bytes = e.bytes
      /\ r.given = e.given /\ r.incoming = e.incoming /\ r.buf = e.buf /\ r.raw = e.raw
      /\ r.stalled = e.stalled
      /\ e.paused => r.paused
  BY <1>1, FMoves
<1>3. Keeps(e, r)
  BY <1>2 DEF Keeps, Reads, Parked
<1>4. e.queue \in Seq(Int) /\ e.outgoing \in Seq(Int)
  BY <1>1 DEF Plain
<1>5. ASSUME NEW b
      PROVE  /\ Held(r, d, b) = Held(e, d, b) /\ Count(b, r.outgoing) = 0
             /\ Sent(r, w, b) = IF e.raw = "open" THEN Count(b, e.outgoing) + Sent(e, w, b)
                                ELSE Sent(e, w, b)
             /\ Held(e, d, b) \in Nat /\ Count(b, e.outgoing) \in Nat /\ Sent(e, w, b) \in Nat
  <2>1. Held(r, d, b) = Held(e, d, b)
    BY <1>2 DEF Held
  <2>2. Count(b, r.outgoing) = 0
    BY <1>2, CountEmpty
  <2>3. Count(b, r.queue) = IF e.raw = "open" THEN Count(b, e.queue) + Count(b, e.outgoing)
                            ELSE Count(b, e.queue)
    <3>1. Count(b, e.queue \o e.outgoing) = Count(b, e.queue) + Count(b, e.outgoing)
      BY <1>4, CountConcat
    <3> QED BY <1>2, <3>1
  <2>4. /\ Held(e, d, b) \in Nat /\ Count(b, e.outgoing) \in Nat /\ Sent(e, w, b) \in Nat
        /\ Count(b, e.queue) \in Nat /\ Count(b, w) \in Nat
    BY <1>1, CountsNat
  <2>5. Sent(r, w, b) = IF e.raw = "open" THEN Count(b, e.outgoing) + Sent(e, w, b)
                        ELSE Sent(e, w, b)
    BY <2>3, <2>4 DEF Sent
  <2> QED BY <2>1, <2>2, <2>4, <2>5
<1>6. Ended(w \o r.queue)
  <2>1. CASE e.shut
    <3>1. r.queue = e.queue
      <4>1. e.outgoing = <<>>
        BY <2>1 DEF Sound
      <4>2. e.queue \o <<>> = e.queue
        BY <1>4
      <4> QED BY <1>2, <4>1, <4>2
    <3> QED BY <3>1 DEF Flow
  <2>2. CASE ~e.shut
    <3>1. Sent(r, w, CloseNotify) = 0
      BY <1>5, <2>2 DEF Flow
    <3>2. r.queue \in Seq(Int)
      BY <1>2 DEF Sound, Plain
    <3>3. Count(CloseNotify, w) + Count(CloseNotify, r.queue) = 0
      <4>1. Count(CloseNotify, w) \in Nat /\ Count(CloseNotify, r.queue) \in Nat
        BY <1>1, <3>2, CountNat
      <4> QED BY <3>1, <4>1 DEF Sent
    <3> QED BY <1>1, <3>2, <3>3, NoneEnds
  <2> QED BY <2>1, <2>2
<1>7. Flow(r, w, d)
  <2>1. \A b \in Nat : b > r.bytes =>
            Held(r, d, b) = 0 /\ Count(b, r.outgoing) = 0 /\ Sent(r, w, b) = 0
    BY <1>2, <1>5 DEF Flow
  <2>2. r.raw = "open" /\ ~r.broken => \A b \in r.kept :
        /\ Held(r, d, b) + Count(b, r.outgoing) + Sent(r, w, b) = 1
        /\ r.shut => Held(r, d, b) = 0
    BY <1>2, <1>5 DEF Flow
  <2>3. Held(r, d, CloseNotify) = 0 /\ Count(CloseNotify, r.outgoing) = 0
        /\ Sent(r, w, CloseNotify) = Sent(e, w, CloseNotify)
    BY <1>5 DEF Flow
  <2>4. Sent(r, w, CloseNotify) > 0 => r.shut
    BY <1>2, <2>3 DEF Flow
  <2>5. Sent(r, w, CloseNotify) > 0 /\ ~r.broken => \A b \in r.kept : Sent(r, w, b) > 0
    BY <1>2, <1>5, <2>3 DEF Flow
  <2> QED BY <1>1, <1>6, <2>1, <2>2, <2>3, <2>4, <2>5 DEF Flow
<1> QED BY <1>2, <1>3, <1>7

-----------------------------------------------------------------------------
(* Reading records.                                                        *)

(* Only incoming, outgoing and what no invariant is about may differ.      *)
Same(e, r) ==
    /\ Shape(r)
    /\ r.kind = e.kind /\ r.started = e.started /\ r.hs = e.hs /\ r.released = e.released
    /\ r.shut = e.shut /\ r.broken = e.broken /\ r.kept = e.kept /\ r.bytes = e.bytes
    /\ r.given = e.given /\ r.buf = e.buf /\ r.queue = e.queue /\ r.full = e.full
    /\ r.paused = e.paused /\ r.raw = e.raw /\ r.stalled = e.stalled

(* Records that are no data and no close_notify join outgoing.             *)
LEMMA SameFlow ==
    ASSUME NEW e, NEW w, NEW d, Sound(e), Flow(e, w, d), NEW r, Same(e, r),
           r.incoming \in Seq(Int), r.outgoing \in Seq(Int),
           e.shut => r.outgoing = e.outgoing,
           \A b : b \in Nat \ {0} \/ b = CloseNotify => Count(b, r.outgoing) = Count(b, e.outgoing)
    PROVE  Sound(r) /\ Flow(r, w, d) /\ (Parked(e) => Parked(r))
<1>1. Sound(r)
  BY DEF Sound, Plain, Same
<1>2. \A b : Held(r, d, b) = Held(e, d, b) /\ Sent(r, w, b) = Sent(e, w, b)
  BY DEF Same, Held, Sent
<1>3. r.queue = e.queue /\ r.kept = e.kept /\ r.bytes = e.bytes
      /\ r.shut = e.shut /\ r.broken = e.broken /\ r.raw = e.raw
  BY DEF Same
<1>4. e.bytes \in Nat /\ e.kept \subseteq 1 .. e.bytes
  BY DEF Sound, Plain
<1>5. \A b \in e.kept : Count(b, r.outgoing) = Count(b, e.outgoing)
  <2>1. \A b \in e.kept : b \in Nat \ {0}
    BY <1>4
  <2> QED BY <2>1
<1>6. \A b \in Nat : b > e.bytes => Count(b, r.outgoing) = Count(b, e.outgoing)
  <2>1. \A b \in Nat : b > e.bytes => b \in Nat \ {0}
    BY <1>4
  <2> QED BY <2>1
<1>7. Count(CloseNotify, r.outgoing) = Count(CloseNotify, e.outgoing)
  OBVIOUS
<1>8. Flow(r, w, d)
  BY <1>2, <1>3, <1>5, <1>6, <1>7 DEF Flow
<1>9. Parked(e) => Parked(r)
  BY DEF Parked, Same
<1> QED BY <1>1, <1>8, <1>9

(* A sequence of records begins with some and goes on with z.              *)
Begins(q, records, z) ==
    records \in Seq(Int) /\ z \in Seq(Int) /\ q = records \o z

(* A sequence begins with each of its prefixes.                            *)
LEMMA CutBegins ==
    ASSUME NEW q \in Seq(Int), NEW n \in 0 .. Len(q)
    PROVE  Begins(q, SubSeq(q, 1, n), SubSeq(q, n + 1, Len(q)))
BY Cut DEF Begins

(* What is left after the beginning.                                       *)
LEMMA BeginsRest ==
    ASSUME NEW q, NEW records, NEW z, Begins(q, records, z)
    PROVE  SubSeq(q, Len(records) + 1, Len(q)) = z
<1>1. PICK m : m = Len(records)
  OBVIOUS
<1>2. PICK k : k = Len(z)
  OBVIOUS
<1>3. records \in Seq(Int) /\ z \in Seq(Int) /\ q = records \o z
  BY DEF Begins
<1>4. m \in Nat /\ k \in Nat
  BY <1>1, <1>2, <1>3
<1>5. q \in Seq(Int) /\ Len(q) = m + k /\ \A i \in 1 .. k : q[m + i] = z[i]
  BY <1>1, <1>2, <1>3
<1>6. PICK u : u = SubSeq(q, m + 1, m + k)
  OBVIOUS
<1>7. u \in Seq(Int) /\ Len(u) = k /\ \A i \in 1 .. k : u[i] = q[m + i]
  BY <1>4, <1>5, <1>6
<1>8. \A i \in 1 .. k : u[i] = z[i]
  BY <1>5, <1>7
<1>9. u = z
  <2>1. u = [i \in 1 .. k |-> u[i]] /\ z = [i \in 1 .. k |-> z[i]]
    BY <1>2, <1>3, <1>7
  <2> QED BY <1>8, <2>1
<1> QED BY <1>1, <1>5, <1>6, <1>9

(* A sequence that is not empty begins with its head.                      *)
LEMMA BeginsOne ==
    ASSUME NEW q \in Seq(Int), q # <<>>, NEW x, Head(q) = x
    PROVE  Begins(q, <<x>>, Tail(q))
<1>1. x \in Int /\ Tail(q) \in Seq(Int) /\ q = <<x>> \o Tail(q)
  BY CountHead
<1>2. <<x>> \in Seq(Int)
  BY <1>1
<1> QED BY <1>1, <1>2 DEF Begins

(* The data of the beginning comes first.                                  *)
LEMMA DataBegins ==
    ASSUME NEW q, NEW records, NEW z, Begins(q, records, z)
    PROVE  Data(q) = Data(records) \o Data(z)
BY DataConcat DEF Begins

(* The SSL object reads records, and leaves z.                             *)
LEMMA TakeKeeps ==
    ASSUME NEW e, NEW w, NEW d, Sound(e), Flow(e, w, d),
           NEW records, NEW z, Begins(e.incoming, records, z), NEW r, r = Take(e, records)
    PROVE  /\ Sound(r) /\ Flow(r, w, d) /\ (Parked(e) => Parked(r)) /\ Same(e, r)
           /\ r.incoming = z
<1>1. records \in Seq(Int) /\ z \in Seq(Int)
  BY DEF Begins
<1>2. SubSeq(e.incoming, Len(records) + 1, Len(e.incoming)) = z
  BY BeginsRest
<1>6. PICK k : k = Count(Reneg, records)
  OBVIOUS
<1>7. k \in Nat
  BY <1>1, <1>6, CountNat
<1>8. PICK a : a = [i \in 1 .. k |-> Reneg]
  OBVIOUS
<1>9. PICK y : y = IF e.shut THEN e.outgoing ELSE e.outgoing \o a
  OBVIOUS
<1>10. \E v : r = [e EXCEPT !.incoming = z, !.outgoing = y, !.needs = v]
  BY <1>2, <1>6, <1>8, <1>9 DEF Take
<1>11. Same(e, r) /\ r.incoming = z /\ r.outgoing = y
  BY <1>10 DEF Sound, Plain, Shape, Same
<1>12. e.outgoing \in Seq(Int)
  BY DEF Sound, Plain
<1>13. ASSUME NEW b, b \in Nat \ {0} \/ b = CloseNotify
       PROVE  Count(b, y) = Count(b, e.outgoing)
  <2>1. b # Reneg /\ Reneg \in Int
    BY <1>13 DEF Reneg, CloseNotify
  <2>2. a \in Seq(Int) /\ Count(b, a) = 0
    BY <1>7, <1>8, <2>1, CountConst
  <2>3. Count(b, e.outgoing \o a) = Count(b, e.outgoing) + Count(b, a)
    BY <1>12, <2>2, CountConcat
  <2>4. Count(b, e.outgoing) \in Nat
    BY <1>12, CountNat
  <2> QED BY <1>9, <2>2, <2>3, <2>4
<1>14. y \in Seq(Int) /\ (e.shut => y = e.outgoing)
  <2>1. Reneg \in Int /\ a \in Seq(Int)
    BY <1>7, <1>8 DEF Reneg
  <2>2. e.outgoing \o a \in Seq(Int)
    BY <1>12, <2>1
  <2> QED BY <1>9, <1>12, <2>2
<1>15. Sound(r) /\ Flow(r, w, d) /\ (Parked(e) => Parked(r))
  BY <1>1, <1>11, <1>13, <1>14, SameFlow
<1> QED BY <1>11, <1>15

(* It goes on with a handshake that is under way.                          *)
LEMMA RenegotiateKeeps ==
    ASSUME NEW e, NEW w, NEW d, Sound(e), Flow(e, w, d), NEW r, r = Renegotiate(e)
    PROVE  /\ Sound(r) /\ Flow(r, w, d) /\ (Parked(e) => Parked(r)) /\ Same(e, r) /\ Reads(e, r)
<1>1. CASE e.needs /\ e.incoming # <<>> /\ Head(e.incoming) = Flight
  <2>1. PICK records : records = <<Flight>>
    OBVIOUS
  <2>2. e.incoming \in Seq(Int)
    BY DEF Sound, Plain
  <2>3. Begins(e.incoming, records, Tail(e.incoming))
    BY <1>1, <2>1, <2>2, BeginsOne
  <2>4. PICK z : z = Tail(e.incoming)
    OBVIOUS
  <2>5. Begins(e.incoming, records, z)
    BY <2>3, <2>4
  <2>6. r = Take(e, records)
    BY <1>1, <2>1 DEF Renegotiate
  <2>7. Sound(r) /\ Flow(r, w, d) /\ (Parked(e) => Parked(r)) /\ Same(e, r) /\ r.incoming = z
    BY <2>5, <2>6, TakeKeeps
  <2>8. Data(records) = <<>>
    <3>1. PICK x : x = <<>>
      OBVIOUS
    <3>2. records = Append(x, Flight) /\ x \in Seq(Int) /\ Flight \in Int /\ ~IsData(Flight)
      BY <2>1, <3>1 DEF Flight, IsData
    <3>3. Data(records) = Data(x)
      BY <3>2, DataAppend
    <3> QED BY <3>1, <3>3, DataEmpty
  <2>9. Data(e.incoming) = Data(records) \o Data(z)
    BY <2>5, DataBegins
  <2>10. Data(z) \in Seq(Int)
    BY <2>5, DataType DEF Begins
  <2>11. Data(e.incoming) = Data(z)
    BY <2>8, <2>9, <2>10
  <2> QED BY <2>7, <2>11 DEF Reads, Same
<1>2. CASE ~(e.needs /\ e.incoming # <<>> /\ Head(e.incoming) = Flight)
  <2>1. r = e
    BY <1>2 DEF Renegotiate
  <2> QED BY <2>1 DEF Reads, Same, Sound, Plain
<1> QED BY <1>1, <1>2

-----------------------------------------------------------------------------
(* Moving plaintext.                                                       *)

(* Only buf, outgoing and stalled may differ.                              *)
Near(e, r) ==
    /\ Shape(r)
    /\ r.kind = e.kind /\ r.started = e.started /\ r.hs = e.hs /\ r.released = e.released
    /\ r.shut = e.shut /\ r.broken = e.broken /\ r.kept = e.kept /\ r.bytes = e.bytes
    /\ r.given = e.given /\ r.incoming = e.incoming /\ r.queue = e.queue /\ r.full = e.full
    /\ r.paused = e.paused /\ r.raw = e.raw
    /\ r.buf \in Seq(Seq(Int)) /\ r.outgoing \in Seq(Int)

(* Plaintext in hand, or in the buffer, is stored or encrypted.            *)
LEMMA ShiftKeeps ==
    ASSUME NEW e, NEW w, NEW d, Sound(e), Flow(e, w, d), NEW r, Near(e, r),
           e.shut => r.outgoing = e.outgoing,
           \A b : Held(r, <<>>, b) + Count(b, r.outgoing) = Held(e, d, b) + Count(b, e.outgoing)
    PROVE  Fine(r, w) /\ Reads(e, r)
<1>1. Plain(r) /\ Sound(r) /\ Plain(e) /\ w \in Seq(Int) /\ d \in Seq(Int) /\ <<>> \in Seq(Int)
  BY DEF Sound, Plain, Near, Flow
<1>2. r.queue = e.queue /\ r.kept = e.kept /\ r.bytes = e.bytes
      /\ r.shut = e.shut /\ r.broken = e.broken /\ r.raw = e.raw
  BY DEF Near
<1>3. ASSUME NEW b
      PROVE  /\ Held(r, <<>>, b) \in Nat /\ Count(b, r.outgoing) \in Nat /\ Sent(e, w, b) \in Nat
             /\ Held(e, d, b) \in Nat /\ Count(b, e.outgoing) \in Nat
             /\ Sent(r, w, b) = Sent(e, w, b)
  <2>1. PICK x : x = <<>>
    OBVIOUS
  <2>2. Held(r, x, b) \in Nat /\ Count(b, r.outgoing) \in Nat
    BY <1>1, <2>1, CountsNat
  <2>3. Sent(e, w, b) \in Nat /\ Held(e, d, b) \in Nat /\ Count(b, e.outgoing) \in Nat
    BY <1>1, CountsNat
  <2>4. Sent(r, w, b) = Sent(e, w, b)
    BY <1>2 DEF Sent
  <2> QED BY <2>1, <2>2, <2>3, <2>4
<1>4. \A b \in Nat : b > r.bytes =>
          Held(r, <<>>, b) = 0 /\ Count(b, r.outgoing) = 0 /\ Sent(r, w, b) = 0
  <2>1. ASSUME NEW b \in Nat, b > r.bytes
        PROVE  Held(r, <<>>, b) = 0 /\ Count(b, r.outgoing) = 0 /\ Sent(r, w, b) = 0
    <3>1. Held(e, d, b) = 0 /\ Count(b, e.outgoing) = 0 /\ Sent(e, w, b) = 0
      BY <1>2, <2>1 DEF Flow
    <3>2. Held(r, <<>>, b) + Count(b, r.outgoing) = 0 + 0
      BY <3>1
    <3> QED BY <1>3, <3>1, <3>2
  <2> QED BY <2>1
<1>5. ASSUME r.raw = "open", ~r.broken, NEW b \in r.kept
      PROVE  /\ Held(r, <<>>, b) + Count(b, r.outgoing) + Sent(r, w, b) = 1
             /\ r.shut => Held(r, <<>>, b) = 0
  <2>1. Held(e, d, b) + Count(b, e.outgoing) + Sent(e, w, b) = 1 /\ (e.shut => Held(e, d, b) = 0)
    BY <1>2, <1>5 DEF Flow
  <2>2. r.shut => Count(b, r.outgoing) = Count(b, e.outgoing)
    BY <1>2
  <2> QED BY <1>2, <1>3, <2>1, <2>2
<1>6. Held(r, <<>>, CloseNotify) = 0 /\ Count(CloseNotify, r.outgoing) = 0
  BY <1>3 DEF Flow
<1>7. Flow(r, w, <<>>)
  BY <1>1, <1>2, <1>3, <1>4, <1>5, <1>6 DEF Flow
<1> QED BY <1>1, <1>7 DEF Fine, Reads, Near

(* After close_notify or an error plaintext is dropped.                    *)
LEMMA DropKeeps ==
    ASSUME NEW e, NEW w, NEW d, Sound(e), Flow(e, w, d), NEW r, Near(e, r),
           e.shut \/ e.broken \/ e.raw # "open", r.outgoing = e.outgoing,
           \A b : Held(r, <<>>, b) <= Held(e, d, b)
    PROVE  Fine(r, w) /\ Reads(e, r)
<1>1. Plain(r) /\ Sound(r) /\ Plain(e) /\ w \in Seq(Int) /\ d \in Seq(Int) /\ <<>> \in Seq(Int)
  BY DEF Sound, Plain, Near, Flow
<1>2. r.queue = e.queue /\ r.kept = e.kept /\ r.bytes = e.bytes
      /\ r.shut = e.shut /\ r.broken = e.broken /\ r.raw = e.raw
  BY DEF Near
<1>3. ASSUME NEW b
      PROVE  /\ Held(r, <<>>, b) \in Nat /\ Held(e, d, b) \in Nat
             /\ Sent(r, w, b) = Sent(e, w, b)
  <2>1. PICK x : x = <<>>
    OBVIOUS
  <2>2. Held(r, x, b) \in Nat
    BY <1>1, <2>1, CountsNat
  <2>3. Held(e, d, b) \in Nat
    BY <1>1, CountsNat
  <2>4. Sent(r, w, b) = Sent(e, w, b)
    BY <1>2 DEF Sent
  <2> QED BY <2>1, <2>2, <2>3, <2>4
<1>4. \A b : Held(e, d, b) = 0 => Held(r, <<>>, b) = 0
  <2>1. ASSUME NEW b, Held(e, d, b) = 0
        PROVE  Held(r, <<>>, b) = 0
    <3>1. Held(r, <<>>, b) <= 0
      BY <2>1
    <3> QED BY <1>3, <3>1
  <2> QED BY <2>1
<1>5. ASSUME r.raw = "open", ~r.broken, NEW b \in r.kept
      PROVE  /\ Held(r, <<>>, b) + Count(b, r.outgoing) + Sent(r, w, b) = 1
             /\ r.shut => Held(r, <<>>, b) = 0
  <2>1. Held(e, d, b) + Count(b, e.outgoing) + Sent(e, w, b) = 1 /\ e.shut /\ Held(e, d, b) = 0
    BY <1>2, <1>5 DEF Flow
  <2>2. Held(r, <<>>, b) = 0
    BY <1>4, <2>1
  <2> QED BY <1>2, <1>3, <2>1, <2>2
<1>6. Flow(r, w, <<>>)
  BY <1>1, <1>2, <1>3, <1>4, <1>5 DEF Flow
<1> QED BY <1>1, <1>6 DEF Fine, Reads, Near

(* Without anything in hand, less is held.                                 *)
LEMMA HeldEmpty ==
    ASSUME NEW e, NEW w, NEW d, Plain(e), Flow(e, w, d), NEW b
    PROVE  Held(e, <<>>, b) = Count(b, FlattenSeq(e.buf)) /\ Held(e, <<>>, b) <= Held(e, d, b)
<1>1. Count(b, <<>>) = 0
  BY CountEmpty
<1>2. Count(b, FlattenSeq(e.buf)) \in Nat /\ Count(b, d) \in Nat
  BY CountsNat DEF Flow
<1> QED BY <1>1, <1>2 DEF Held

(* Append to buf.                                                          *)
LEMMA HeldAppend ==
    ASSUME NEW e, Plain(e), NEW d \in Seq(Int), NEW r, r.buf = Append(e.buf, d), NEW b
    PROVE  r.buf \in Seq(Seq(Int)) /\ Held(r, <<>>, b) = Held(e, d, b)
<1>1. e.buf \in Seq(Seq(Int))
  BY DEF Plain
<1>2. FlattenSeq(r.buf) = FlattenSeq(e.buf) \o d /\ r.buf \in Seq(Seq(Int))
  BY <1>1, FlattenAppend
<1>3. FlattenSeq(e.buf) \in Seq(Int)
  BY <1>1, FlattenType
<1>4. Count(b, FlattenSeq(r.buf)) = Count(b, FlattenSeq(e.buf)) + Count(b, d)
  BY <1>2, <1>3, CountConcat
<1>5. Count(b, <<>>) = 0 /\ Count(b, FlattenSeq(e.buf)) \in Nat /\ Count(b, d) \in Nat
  BY <1>3, CountEmpty, CountNat
<1> QED BY <1>2, <1>4, <1>5 DEF Held

-----------------------------------------------------------------------------
(* write                                                                   *)

(* Fine(_f(m)) for a state that is fine.                                   *)
LEMMA FFine ==
    ASSUME NEW m, NEW w, Fine(m, w), NEW r, r = _f(m)
    PROVE  Fine(r, w) /\ Keeps(m, r)
BY FKeeps DEF Fine

(* Keeping everything composes.                                            *)
LEMMA KeepsTrans ==
    ASSUME NEW e, NEW m, NEW r, Keeps(e, m), Keeps(m, r)
    PROVE  Keeps(e, r)
BY DEF Keeps, Reads

(* What waits, waits still.                                                *)
LEMMA SameKeeps ==
    ASSUME NEW e, NEW m, Same(e, m), Reads(e, m)
    PROVE  Keeps(e, m)
BY DEF Same, Keeps, Parked

(* write: what SSLObject.write does not accept is buffered.                *)
LEMMA WriteKeeps ==
    ASSUME NEW e, NEW w, NEW data \in Seq(Int), Len(data) = 2, Sound(e), Flow(e, w, data),
           NEW part, NEW r, r = write(e, data, part)
    PROVE  Fine(r, w) /\ Keeps(e, r)
<1>1. PICK t : t = Renegotiate(e)
  OBVIOUS
<1>2. Sound(t) /\ Flow(t, w, data) /\ Same(e, t) /\ Reads(e, t) /\ Plain(t) /\ Plain(e)
  <2>1. Sound(t) /\ Flow(t, w, data) /\ Same(e, t) /\ Reads(e, t)
    BY <1>1, RenegotiateKeeps
  <2> QED BY <2>1 DEF Sound
<1>3. Keeps(e, t)
  BY <1>2, SameKeeps
<1>4. CASE e.paused
  <2>1. r = [e EXCEPT !.buf = Append(@, data)]
    BY <1>4 DEF write
  <2>2. Shape(e)
    BY <1>2 DEF Plain
  <2>3. /\ r.buf = Append(e.buf, data) /\ r.outgoing = e.outgoing /\ Shape(r) /\ r.stalled = e.stalled
        /\ r.kind = e.kind /\ r.started = e.started /\ r.hs = e.hs /\ r.released = e.released
        /\ r.shut = e.shut /\ r.broken = e.broken /\ r.kept = e.kept /\ r.bytes = e.bytes
        /\ r.given = e.given /\ r.incoming = e.incoming /\ r.queue = e.queue /\ r.full = e.full
        /\ r.paused = e.paused /\ r.raw = e.raw
    BY <2>1, <2>2 DEF Shape
  <2>4. \A b : r.buf \in Seq(Seq(Int)) /\ Held(r, <<>>, b) = Held(e, data, b)
    <3>1. Plain(e) /\ r.buf = Append(e.buf, data)
      BY <1>2, <2>3
    <3> QED BY <3>1, HeldAppend, ZenonT(40)
  <2>5. Near(e, r)
    BY <1>2, <2>3, <2>4 DEF Near, Plain
  <2>6. \A b : Held(r, <<>>, b) + Count(b, r.outgoing) = Held(e, data, b) + Count(b, e.outgoing)
    BY <2>3, <2>4
  <2>7. Fine(r, w) /\ Reads(e, r)
    BY <2>3, <2>5, <2>6, ShiftKeeps
  <2> QED BY <1>4, <2>3, <2>7 DEF Keeps, Parked
<1>5. CASE ~e.paused /\ e.released
  <2>1. r = e
    BY <1>5 DEF write
  <2>2. e.raw # "open" /\ Near(e, e)
    BY <1>2, <1>5 DEF Plain, Near
  <2>3. \A b : Held(e, <<>>, b) <= Held(e, data, b)
    BY <1>2, HeldEmpty
  <2>4. Fine(e, w)
    BY <2>2, <2>3, DropKeeps
  <2> QED BY <2>1, <2>4 DEF Keeps, Reads
<1>6. CASE ~e.paused /\ ~e.released /\ (t.shut \/ t.broken)
  <2>1. r = _f(t)
    BY <1>1, <1>6 DEF write
  <2>2. Near(t, t)
    BY <1>2 DEF Plain, Near
  <2>3. \A b : Held(t, <<>>, b) <= Held(t, data, b)
    BY <1>2, HeldEmpty
  <2>4. Fine(t, w)
    BY <1>2, <1>6, <2>2, <2>3, DropKeeps
  <2> QED BY <1>3, <2>1, <2>4, FFine, KeepsTrans
<1>7. CASE ~e.paused /\ ~e.released /\ ~(t.shut \/ t.broken) /\ t.needs
  <2>1. PICK m : m = [t EXCEPT !.buf = Append(@, data), !.stalled = TRUE]
    OBVIOUS
  <2>2. r = _f(m)
    BY <1>1, <1>7, <2>1 DEF write
  <2>3. /\ m.buf = Append(t.buf, data) /\ m.outgoing = t.outgoing /\ Shape(m) /\ m.stalled
        /\ m.kind = t.kind /\ m.started = t.started /\ m.hs = t.hs /\ m.released = t.released
        /\ m.shut = t.shut /\ m.broken = t.broken /\ m.kept = t.kept /\ m.bytes = t.bytes
        /\ m.given = t.given /\ m.incoming = t.incoming /\ m.queue = t.queue /\ m.full = t.full
        /\ m.paused = t.paused /\ m.raw = t.raw
    BY <1>2, <2>1 DEF Plain, Shape
  <2>4. \A b : m.buf \in Seq(Seq(Int)) /\ Held(m, <<>>, b) = Held(t, data, b)
    BY <1>2, <2>3, HeldAppend, ZenonT(40)
  <2>5. Near(t, m)
    BY <1>2, <2>3, <2>4 DEF Near, Plain
  <2>6. \A b : Held(m, <<>>, b) + Count(b, m.outgoing) = Held(t, data, b) + Count(b, t.outgoing)
    BY <2>3, <2>4
  <2>7. Fine(m, w) /\ Reads(t, m)
    BY <1>2, <2>3, <2>5, <2>6, ShiftKeeps
  <2>8. Keeps(t, m)
    BY <2>3, <2>7 DEF Keeps, Parked
  <2> QED BY <1>3, <2>2, <2>7, <2>8, FFine, KeepsTrans
<1>8. CASE ~e.paused /\ ~e.released /\ ~(t.shut \/ t.broken) /\ ~t.needs
  <2>1. PICK n : n = IF part THEN 1 ELSE 2
    OBVIOUS
  <2>2. PICK x : x = SubSeq(data, 1, n)
    OBVIOUS
  <2>3. PICK rest : rest = SubSeq(data, n + 1, Len(data))
    OBVIOUS
  <2>4. x \in Seq(Int) /\ rest \in Seq(Int) /\ data = x \o rest
    <3>1. n \in 0 .. Len(data)
      BY <2>1
    <3> QED BY <2>2, <2>3, <3>1, Cut
  <2>5. PICK y : y = IF rest = <<>> THEN t.buf ELSE Append(t.buf, rest)
    OBVIOUS
  <2>6. PICK m : m = [t EXCEPT !.outgoing = @ \o x, !.buf = y, !.stalled = @ \/ rest # <<>>]
    OBVIOUS
  <2>7. r = _f(m)
    <3>1. n = IF part THEN 1 ELSE Len(data)
      BY <2>1
    <3> QED BY <1>1, <1>8, <2>2, <2>3, <2>5, <2>6, <3>1 DEF write
  <2>8. /\ m.buf = y /\ m.outgoing = t.outgoing \o x /\ Shape(m)
        /\ m.stalled = (t.stalled \/ rest # <<>>)
        /\ m.kind = t.kind /\ m.started = t.started /\ m.hs = t.hs /\ m.released = t.released
        /\ m.shut = t.shut /\ m.broken = t.broken /\ m.kept = t.kept /\ m.bytes = t.bytes
        /\ m.given = t.given /\ m.incoming = t.incoming /\ m.queue = t.queue /\ m.full = t.full
        /\ m.paused = t.paused /\ m.raw = t.raw
    BY <1>2, <2>6 DEF Plain, Shape
  <2>9. \A b : m.buf \in Seq(Seq(Int)) /\ Held(m, <<>>, b) = Held(t, rest, b)
    <3>1. CASE rest = <<>>
      BY <1>2, <2>5, <2>8, <3>1 DEF Held, Plain
    <3>2. CASE rest # <<>>
      <4>1. m.buf = Append(t.buf, rest)
        BY <2>5, <2>8, <3>2
      <4>2. rest \in Seq(Int)
        BY <2>4
      <4> QED BY <1>2, <4>1, <4>2, HeldAppend, ZenonT(40)
    <3> QED BY <3>1, <3>2
  <2>10. t.outgoing \in Seq(Int)
    BY <1>2 DEF Plain
  <2>11. m.outgoing \in Seq(Int)
    BY <2>4, <2>8, <2>10
  <2>12. Near(t, m)
    BY <2>8, <2>9, <2>11 DEF Near
  <2>13. ASSUME NEW b
         PROVE  Held(m, <<>>, b) + Count(b, m.outgoing) = Held(t, data, b) + Count(b, t.outgoing)
    <3>1. Count(b, m.outgoing) = Count(b, t.outgoing) + Count(b, x)
      BY <2>4, <2>8, <2>10, CountConcat
    <3>2. Count(b, data) = Count(b, x) + Count(b, rest)
      BY <2>4, CountConcat
    <3>3. Held(m, <<>>, b) = Held(t, rest, b)
      BY <2>9
    <3>4. Count(b, x) \in Nat /\ Count(b, rest) \in Nat /\ Count(b, t.outgoing) \in Nat
          /\ Count(b, FlattenSeq(t.buf)) \in Nat
      BY <1>2, <2>4, <2>10, CountNat, FlattenType DEF Plain
    <3> QED BY <3>1, <3>2, <3>3, <3>4 DEF Held
  <2>14. Fine(m, w) /\ Reads(t, m)
    BY <1>2, <1>8, <2>12, <2>13, ShiftKeeps
  <2>15. Keeps(t, m)
    <3>1. Parked(t) => Parked(m)
      BY <2>5, <2>8 DEF Parked
    <3> QED BY <2>14, <3>1 DEF Keeps
  <2> QED BY <1>3, <2>7, <2>14, <2>15, FFine, KeepsTrans
<1> QED BY <1>4, <1>5, <1>6, <1>7, <1>8

-----------------------------------------------------------------------------
(* _flush_write_buffer                                                     *)

(* Reading goes on from one state to the next.                             *)
LEMMA ReadsTrans ==
    ASSUME NEW e, NEW m, NEW r, Reads(e, m), Reads(m, r)
    PROVE  Reads(e, r)
BY DEF Reads

(* _flush_write_buffer: nothing is left that could be written.             *)
LEMMA FlushKeeps ==
    ASSUME NEW e, NEW w, Fine(e, w), NEW r, r = _flush_write_buffer(e)
    PROVE  Fine(r, w) /\ Reads(e, r) /\ Parked(r)
<1>1. PICK t : t = Renegotiate(e)
  OBVIOUS
<1>2. PICK d : d = <<>>
  OBVIOUS
<1>3. Sound(e) /\ Flow(e, w, d)
  BY <1>2 DEF Fine
<1>4. Sound(t) /\ Flow(t, w, d) /\ Same(e, t) /\ Reads(e, t)
  BY <1>1, <1>3, RenegotiateKeeps
<1>5. Plain(t) /\ Plain(e) /\ t.buf = e.buf /\ t.buf \in Seq(Seq(Int)) /\ t.outgoing \in Seq(Int)
  BY <1>3, <1>4 DEF Sound, Plain, Same
<1>6. CASE e.released
  <2>1. r = e /\ e.raw # "open"
    BY <1>5, <1>6 DEF _flush_write_buffer, Plain
  <2> QED BY <2>1 DEF Reads, Parked
<1>7. CASE ~e.released /\ e.buf = <<>>
  <2>1. r = _f(e)
    BY <1>7 DEF _flush_write_buffer
  <2>2. Fine(r, w) /\ Keeps(e, r)
    BY <2>1, FFine
  <2>3. Parked(e)
    BY <1>7 DEF Parked
  <2> QED BY <2>2, <2>3 DEF Keeps
<1>8. CASE ~e.released /\ e.buf # <<>> /\ (t.shut \/ t.broken)
  <2>1. PICK m : m = [t EXCEPT !.buf = Tail(@)]
    OBVIOUS
  <2>2. r = _f(m)
    BY <1>1, <1>8, <2>1 DEF _flush_write_buffer
  <2>3. Shape(t)
    BY <1>5 DEF Plain
  <2>4. /\ m.buf = Tail(t.buf) /\ m.outgoing = t.outgoing /\ Shape(m) /\ m.stalled = t.stalled
        /\ m.kind = t.kind /\ m.started = t.started /\ m.hs = t.hs /\ m.released = t.released
        /\ m.shut = t.shut /\ m.broken = t.broken /\ m.kept = t.kept /\ m.bytes = t.bytes
        /\ m.given = t.given /\ m.incoming = t.incoming /\ m.queue = t.queue /\ m.full = t.full
        /\ m.paused = t.paused /\ m.raw = t.raw
    BY <2>1, <2>3 DEF Shape
  <2>5. t.buf # <<>>
    BY <1>5, <1>8
  <2>6. m.buf \in Seq(Seq(Int))
    BY <1>5, <2>4, <2>5, FlattenHead
  <2>7. Near(t, m)
    BY <1>5, <2>4, <2>6 DEF Near
  <2>8. ASSUME NEW b PROVE Held(m, <<>>, b) <= Held(t, d, b)
    <3>1. /\ Head(t.buf) \in Seq(Int)
          /\ Count(b, FlattenSeq(t.buf)) = Count(b, Head(t.buf)) + Count(b, FlattenSeq(m.buf))
      BY <1>5, <2>4, <2>5, FlattenHead
    <3>2. Count(b, Head(t.buf)) \in Nat /\ Count(b, FlattenSeq(m.buf)) \in Nat
          /\ Count(b, <<>>) = 0
      BY <2>6, <3>1, CountNat, CountEmpty, FlattenType
    <3> QED BY <1>2, <3>1, <3>2 DEF Held
  <2>9. Fine(m, w) /\ Reads(t, m)
    BY <1>4, <1>8, <2>4, <2>7, <2>8, DropKeeps
  <2>10. Parked(m)
    BY <1>8, <2>4 DEF Parked
  <2>11. Fine(r, w) /\ Keeps(m, r)
    BY <2>2, <2>9, FFine
  <2> QED BY <1>4, <2>9, <2>10, <2>11, ReadsTrans DEF Keeps
<1>9. CASE ~e.released /\ e.buf # <<>> /\ ~(t.shut \/ t.broken) /\ t.needs
  <2>1. PICK m : m = [t EXCEPT !.stalled = TRUE]
    OBVIOUS
  <2>2. r = _f(m)
    BY <1>1, <1>9, <2>1 DEF _flush_write_buffer
  <2>3. Shape(t)
    BY <1>5 DEF Plain
  <2>4. /\ m.buf = t.buf /\ m.outgoing = t.outgoing /\ Shape(m) /\ m.stalled
        /\ m.kind = t.kind /\ m.started = t.started /\ m.hs = t.hs /\ m.released = t.released
        /\ m.shut = t.shut /\ m.broken = t.broken /\ m.kept = t.kept /\ m.bytes = t.bytes
        /\ m.given = t.given /\ m.incoming = t.incoming /\ m.queue = t.queue /\ m.full = t.full
        /\ m.paused = t.paused /\ m.raw = t.raw
    BY <2>1, <2>3 DEF Shape
  <2>5. Near(t, m)
    BY <1>5, <2>4 DEF Near
  <2>6. \A b : Held(m, <<>>, b) + Count(b, m.outgoing) = Held(t, d, b) + Count(b, t.outgoing)
    BY <1>2, <2>4 DEF Held
  <2>7. Fine(m, w) /\ Reads(t, m)
    BY <1>4, <2>4, <2>5, <2>6, ShiftKeeps
  <2>8. Parked(m)
    BY <2>4 DEF Parked
  <2>9. Fine(r, w) /\ Keeps(m, r)
    BY <2>2, <2>7, FFine
  <2> QED BY <1>4, <2>7, <2>8, <2>9, ReadsTrans DEF Keeps
<1>10. CASE ~e.released /\ e.buf # <<>> /\ ~(t.shut \/ t.broken) /\ ~t.needs
  <2>0. PICK x : x = FlattenSeq(t.buf)
    OBVIOUS
  <2>1. PICK m : m = [t EXCEPT !.outgoing = @ \o x, !.buf = <<>>]
    OBVIOUS
  <2>2. r = _f(m)
    BY <1>1, <1>10, <2>0, <2>1 DEF _flush_write_buffer
  <2>3. Shape(t)
    BY <1>5 DEF Plain
  <2>4. /\ m.buf = <<>> /\ m.outgoing = t.outgoing \o x /\ Shape(m) /\ m.stalled = t.stalled
        /\ m.kind = t.kind /\ m.started = t.started /\ m.hs = t.hs /\ m.released = t.released
        /\ m.shut = t.shut /\ m.broken = t.broken /\ m.kept = t.kept /\ m.bytes = t.bytes
        /\ m.given = t.given /\ m.incoming = t.incoming /\ m.queue = t.queue /\ m.full = t.full
        /\ m.paused = t.paused /\ m.raw = t.raw
    BY <2>1, <2>3 DEF Shape
  <2>5. x \in Seq(Int)
    BY <1>5, <2>0, FlattenType
  <2>6. m.outgoing \in Seq(Int) /\ m.buf \in Seq(Seq(Int))
    BY <1>5, <2>4, <2>5
  <2>7. Near(t, m)
    BY <2>4, <2>6 DEF Near
  <2>8. ASSUME NEW b
        PROVE  Held(m, <<>>, b) + Count(b, m.outgoing) = Held(t, d, b) + Count(b, t.outgoing)
    <3>1. Count(b, m.outgoing) = Count(b, t.outgoing) + Count(b, x)
      BY <1>5, <2>4, <2>5, CountConcat
    <3>2. Count(b, FlattenSeq(m.buf)) = 0 /\ Count(b, <<>>) = 0
      BY <2>4, FlattenEmpty, CountEmpty
    <3>3. Count(b, t.outgoing) \in Nat /\ Count(b, x) \in Nat
      BY <1>5, <2>5, CountNat
    <3> QED BY <1>2, <2>0, <3>1, <3>2, <3>3 DEF Held
  <2>9. Fine(m, w) /\ Reads(t, m)
    BY <1>4, <1>10, <2>7, <2>8, ShiftKeeps
  <2>10. Parked(m)
    BY <2>4 DEF Parked
  <2>11. Fine(r, w) /\ Keeps(m, r)
    BY <2>2, <2>9, FFine
  <2> QED BY <1>4, <2>9, <2>10, <2>11, ReadsTrans DEF Keeps
<1> QED BY <1>6, <1>7, <1>8, <1>9, <1>10

-----------------------------------------------------------------------------
(* unwrap                                                                  *)

(* close_notify joins a stream that has none.                              *)
LEMMA EndsLast ==
    ASSUME NEW q \in Seq(Int), Count(CloseNotify, q) = 0
    PROVE  Ended(Append(q, CloseNotify))
<1>1. \A i \in DOMAIN q : q[i] # CloseNotify
  BY CountNat
<1>2. PICK c : c = CloseNotify
  OBVIOUS
<1>3. PICK p : p = Append(q, c)
  OBVIOUS
<1>4. c \in Int
  BY <1>2 DEF CloseNotify
<1>5. p \in Seq(Int) /\ Len(p) = Len(q) + 1 /\ Len(q) \in Nat /\ \A i \in 1 .. Len(q) : p[i] = q[i]
  BY <1>3, <1>4
<1>6. ASSUME NEW i \in DOMAIN p, p[i] = c
      PROVE  i = Len(p)
  <2>1. i \in 1 .. Len(q) + 1
    BY <1>5, <1>6
  <2>2. ~(i \in 1 .. Len(q))
    BY <1>1, <1>2, <1>5, <1>6
  <2> QED BY <1>5, <2>1, <2>2
<1> QED BY <1>2, <1>3, <1>6 DEF Ended

(* Appending at the end of three sequences.                                *)
LEMMA Regroup ==
    ASSUME NEW w \in Seq(Int), NEW q \in Seq(Int), NEW o \in Seq(Int), NEW c \in Int
    PROVE  w \o (q \o Append(o, c)) = Append(w \o (q \o o), c)
<1>1. PICK x : x = q \o o
  OBVIOUS
<1>2. x \in Seq(Int)
  BY <1>1
<1>3. q \o Append(o, c) = Append(x, c)
  BY <1>1, ConcatAppend
<1>4. w \o Append(x, c) = Append(w \o x, c)
  BY <1>2, ConcatAppend
<1> QED BY <1>1, <1>3, <1>4

(* unwrap, and what it wrote goes to the raw transport: close_notify       *)
(* follows all the plaintext.                                              *)
LEMMA UnwrapKeeps ==
    ASSUME NEW e, NEW w, Fine(e, w), e.buf = <<>>, NEW r, r = _f(unwrap(e).to)
    PROVE  Fine(r, w) /\ Reads(e, r) /\ r.buf = <<>>
<1>1. CASE ~e.hs \/ e.needs \/ e.broken
  <2>1. unwrap(e).to = e
    BY <1>1 DEF unwrap
  <2>2. r = _f(e)
    BY <2>1
  <2>3. Fine(r, w) /\ Keeps(e, r)
    BY <2>2, FFine
  <2>4. r.buf = e.buf
    BY <2>2, FMoves DEF Fine, Sound
  <2> QED BY <2>3, <2>4 DEF Keeps
<1>2. CASE ~(~e.hs \/ e.needs \/ e.broken) /\ e.shut
  <2>1. PICK m : m = [e EXCEPT !.shut = TRUE, !.outgoing = e.outgoing]
    OBVIOUS
  <2>2. unwrap(e).to = m
    BY <1>2, <2>1 DEF unwrap
  <2>3. Shape(e)
    BY DEF Fine, Sound, Plain
  <2>4. Rests(e, m) /\ m.hs = e.hs /\ m.started = e.started /\ m.buf = e.buf
    BY <1>2, <2>1, <2>3 DEF Shape, Rests
  <2>5. Fine(m, w) /\ Keeps(e, m)
    BY <2>4, RestsKeeps
  <2>6. r = _f(m)
    BY <2>2
  <2>7. Fine(r, w) /\ Keeps(m, r)
    BY <2>5, <2>6, FFine
  <2>8. r.buf = m.buf
    BY <2>5, <2>6, FMoves DEF Fine, Sound
  <2> QED BY <2>4, <2>5, <2>7, <2>8, ReadsTrans DEF Keeps
<1>3. CASE ~(~e.hs \/ e.needs \/ e.broken) /\ ~e.shut
  <2>1. PICK c : c = CloseNotify
    OBVIOUS
  <2>2. PICK y : y = Append(e.outgoing, c)
    OBVIOUS
  <2>3. PICK m : m = [e EXCEPT !.shut = TRUE, !.outgoing = y]
    OBVIOUS
  <2>4. r = _f(m)
    <3>1. unwrap(e).to = m
      BY <1>3, <2>1, <2>2, <2>3 DEF unwrap
    <3> QED BY <3>1
  <2>5. Plain(e) /\ Shape(e) /\ w \in Seq(Int)
    BY DEF Fine, Sound, Plain, Flow
  <2>6. /\ m.buf = <<>> /\ m.outgoing = y /\ Shape(m) /\ m.stalled = e.stalled
        /\ m.kind = e.kind /\ m.started = e.started /\ m.hs = e.hs /\ m.released = e.released
        /\ m.shut /\ m.broken = e.broken /\ m.kept = e.kept /\ m.bytes = e.bytes
        /\ m.given = e.given /\ m.incoming = e.incoming /\ m.queue = e.queue /\ m.full = e.full
        /\ m.paused = e.paused /\ m.raw = e.raw
    BY <2>3, <2>5 DEF Shape
  <2>7. c \in Int /\ c < 0 /\ e.outgoing \in Seq(Int) /\ e.queue \in Seq(Int) /\ e.bytes \in Nat
        /\ e.kept \subseteq 1 .. e.bytes
    BY <2>1, <2>5 DEF CloseNotify, Plain
  <2>8. y \in Seq(Int) /\ \A b : Count(b, y) = Count(b, e.outgoing) + IF b = c THEN 1 ELSE 0
    BY <2>2, <2>7, CountAppend
  <2>9. m.buf \in Seq(Seq(Int))
    BY <2>5, <2>6 DEF Plain
  <2>10. Plain(m)
    BY <1>3, <2>5, <2>6, <2>8, <2>9 DEF Plain
  <2>11. /\ Sound(r) /\ r.outgoing = <<>>
         /\ r.queue = IF e.raw = "open" THEN e.queue \o y ELSE e.queue
         /\ r.shut /\ r.broken = e.broken /\ r.kept = e.kept /\ r.bytes = e.bytes
         /\ r.given = e.given /\ r.incoming = e.incoming /\ r.buf = <<>> /\ r.raw = e.raw
    BY <2>4, <2>6, <2>10, FMoves
  <2>12. ASSUME NEW b
         PROVE  /\ Held(r, <<>>, b) = 0 /\ Count(b, r.outgoing) = 0 /\ Held(e, <<>>, b) = 0
                /\ Count(b, e.outgoing) \in Nat /\ Sent(e, w, b) \in Nat
                /\ Sent(r, w, b) = IF e.raw = "open"
                                   THEN Sent(e, w, b) + Count(b, e.outgoing) + IF b = c THEN 1 ELSE 0
                                   ELSE Sent(e, w, b)
    <3>1. Held(r, <<>>, b) = 0 /\ Count(b, r.outgoing) = 0 /\ Held(e, <<>>, b) = 0
      BY <2>11, FlattenEmpty, CountEmpty DEF Held
    <3>2. Count(b, e.outgoing) \in Nat /\ Count(b, e.queue) \in Nat /\ Count(b, w) \in Nat
      BY <2>5, <2>7, CountNat
    <3>3. Count(b, e.queue \o y) = Count(b, e.queue) + Count(b, y)
      BY <2>7, <2>8, CountConcat
    <3>4. Count(b, y) = Count(b, e.outgoing) + IF b = c THEN 1 ELSE 0
      BY <2>8
    <3> QED BY <2>11, <3>1, <3>2, <3>3, <3>4 DEF Sent
  <2>13. Sent(e, w, CloseNotify) = 0 /\ Count(CloseNotify, e.outgoing) = 0
    <3>1. ~(Sent(e, w, CloseNotify) > 0) /\ Count(CloseNotify, e.outgoing) = 0
      BY <1>3 DEF Fine, Flow
    <3>2. Sent(e, w, CloseNotify) \in Nat
      BY <2>12
    <3> QED BY <3>1, <3>2
  <2>14. Ended(w \o r.queue)
    <3>1. CASE e.raw # "open"
      BY <2>11, <3>1 DEF Fine, Flow
    <3>2. CASE e.raw = "open"
      <4>1. PICK p : p = w \o (e.queue \o e.outgoing)
        OBVIOUS
      <4>2. w \o r.queue = Append(p, c)
        <5>1. r.queue = e.queue \o Append(e.outgoing, c)
          BY <2>2, <2>11, <3>2
        <5>2. w \o (e.queue \o Append(e.outgoing, c)) = Append(w \o (e.queue \o e.outgoing), c)
          BY <2>5, <2>7, Regroup
        <5> QED BY <4>1, <5>1, <5>2
      <4>3. PICK q : q = e.queue \o e.outgoing
        OBVIOUS
      <4>4. q \in Seq(Int) /\ Count(c, q) = Count(c, e.queue) + Count(c, e.outgoing)
        BY <2>7, <4>3, CountConcat
      <4>5. p \in Seq(Int) /\ Count(c, p) = Count(c, w) + Count(c, q)
        BY <2>5, <4>1, <4>3, <4>4, CountConcat, ZenonT(60)
      <4>6. Count(c, p) = 0
        <5>1. Count(c, e.queue) \in Nat /\ Count(c, w) \in Nat
          BY <2>5, <2>7, CountNat
        <5> QED BY <2>1, <2>13, <4>4, <4>5, <5>1 DEF Sent
      <4> QED BY <2>1, <4>2, <4>5, <4>6, EndsLast
    <3> QED BY <3>1, <3>2
  <2>15. \A b \in Nat : b > r.bytes =>
            Held(r, <<>>, b) = 0 /\ Count(b, r.outgoing) = 0 /\ Sent(r, w, b) = 0
    <3>1. ASSUME NEW b \in Nat, b > r.bytes
          PROVE  Sent(r, w, b) = 0
      <4>1. Count(b, e.outgoing) = 0 /\ Sent(e, w, b) = 0
        BY <2>11, <3>1 DEF Fine, Flow
      <4>2. b # c
        BY <2>7
      <4> QED BY <2>12, <4>1, <4>2
    <3> QED BY <2>12, <3>1
  <2>16. ASSUME r.raw = "open", ~r.broken, NEW b \in r.kept
         PROVE  /\ Held(r, <<>>, b) + Count(b, r.outgoing) + Sent(r, w, b) = 1
                /\ r.shut => Held(r, <<>>, b) = 0
                /\ Sent(r, w, b) = 1
    <3>1. Held(e, <<>>, b) + Count(b, e.outgoing) + Sent(e, w, b) = 1
      BY <2>11, <2>16 DEF Fine, Flow
    <3>2. b # c
      BY <2>7, <2>11
    <3>3. Sent(r, w, b) = Sent(e, w, b) + Count(b, e.outgoing) + 0
      BY <2>11, <2>12, <2>16, <3>2
    <3> QED BY <2>12, <3>1, <3>3
  <2>17. Sent(r, w, CloseNotify) > 0 /\ ~r.broken => \A b \in r.kept : Sent(r, w, b) > 0
    <3>1. CASE e.raw = "open"
      BY <2>11, <2>16, <3>1
    <3>2. CASE e.raw # "open"
      BY <2>12, <2>13, <3>2
    <3> QED BY <3>1, <3>2
  <2>18. Flow(r, w, <<>>)
    <3>1. <<>> \in Seq(Int)
      OBVIOUS
    <3> QED BY <2>5, <2>11, <2>12, <2>14, <2>15, <2>16, <2>17, <3>1 DEF Flow
  <2> QED BY <2>11, <2>18 DEF Fine, Reads
<1> QED BY <1>1, <1>2, <1>3

-----------------------------------------------------------------------------
(* Closing.                                                                *)

(* The parts of Fine that most proofs begin with.                          *)
LEMMA FineShape ==
    ASSUME NEW e, NEW w, Fine(e, w)
    PROVE  Shape(e) /\ Plain(e)
BY DEF Fine, Sound, Plain

(* close of the raw transport loses nothing.                               *)
LEMMA RawCloseKeeps ==
    ASSUME NEW e, NEW w, Fine(e, w), NEW r, r = RawClose(e)
    PROVE  Fine(r, w) /\ Keeps(e, r) /\ r.buf = e.buf
<1>1. Shape(e)
  BY FineShape
<1>2. Rests(e, r) /\ r.hs = e.hs /\ r.started = e.started
  <2>1. CASE e.raw = "open"
    <3>1. r = [e EXCEPT !.raw = "closing"]
      BY <2>1 DEF RawClose
    <3> QED BY <1>1, <2>1, <3>1 DEF Shape, Rests
  <2>2. CASE e.raw # "open"
    BY <1>1, <2>2 DEF RawClose, Rests
  <2> QED BY <2>1, <2>2
<1> QED BY <1>2, RestsKeeps DEF Rests

(* Nor does _force_close.                                                  *)
LEMMA ForceCloseKeeps ==
    ASSUME NEW e, NEW w, Fine(e, w), NEW r, r = _force_close(e)
    PROVE  Fine(r, w) /\ Keeps(e, r) /\ r.buf = e.buf
<1>1. PICK m : m = [e EXCEPT !.timer = FALSE]
  OBVIOUS
<1>2. Shape(e)
  BY FineShape
<1>3. Rests(e, m) /\ m.hs = e.hs /\ m.started = e.started /\ m.buf = e.buf
  BY <1>1, <1>2 DEF Shape, Rests
<1>4. Fine(m, w) /\ Keeps(e, m)
  BY <1>3, RestsKeeps
<1>5. r = RawClose(m)
  BY <1>1 DEF _force_close
<1>6. Fine(r, w) /\ Keeps(m, r) /\ r.buf = m.buf
  BY <1>4, <1>5, RawCloseKeeps
<1> QED BY <1>3, <1>4, <1>6, KeepsTrans

(* _start_shutdown: the plaintext, then close_notify.                      *)
LEMMA StartShutdownKeeps ==
    ASSUME NEW e, NEW w, Fine(e, w), NEW r, r = _start_shutdown(e)
    PROVE  Fine(r, w) /\ Reads(e, r) /\ Parked(r)
<1>1. PICK f : f = _flush_write_buffer(e)
  OBVIOUS
<1>2. Fine(f, w) /\ Reads(e, f) /\ Parked(f)
  BY <1>1, FlushKeeps
<1>3. PICK t : t = _f(unwrap(f).to)
  OBVIOUS
<1>4. CASE e.released \/ f.buf # <<>>
  <2>1. r = f
    BY <1>1, <1>4 DEF _start_shutdown
  <2> QED BY <1>2, <2>1
<1>5. CASE ~e.released /\ f.buf = <<>>
  <2>1. Fine(t, w) /\ Reads(f, t) /\ t.buf = <<>>
    BY <1>2, <1>3, <1>5, UnwrapKeeps
  <2>2. r = [t EXCEPT !.timer = TRUE] \/ r = _force_close(t)
    BY <1>1, <1>3, <1>5 DEF _start_shutdown
  <2>3. Fine(r, w) /\ Keeps(t, r) /\ r.buf = t.buf
    <3>1. CASE r = [t EXCEPT !.timer = TRUE]
      <4>1. Shape(t)
        BY <2>1, FineShape
      <4>2. Rests(t, r) /\ r.hs = t.hs /\ r.started = t.started /\ r.buf = t.buf
        BY <3>1, <4>1 DEF Shape, Rests
      <4> QED BY <2>1, <4>2, RestsKeeps
    <3>2. CASE r = _force_close(t)
      BY <2>1, <3>2, ForceCloseKeeps
    <3> QED BY <2>2, <3>1, <3>2
  <2>4. Reads(e, r)
    BY <1>2, <2>1, <2>3, ReadsTrans DEF Keeps
  <2>5. Parked(r)
    BY <2>1, <2>3 DEF Parked
  <2> QED BY <2>3, <2>4, <2>5
<1> QED BY <1>4, <1>5

(* close: the shutdown starts once.                                        *)
LEMMA CloseKeeps ==
    ASSUME NEW e, NEW w, Fine(e, w), NEW r, r = close(e)
    PROVE  Fine(r, w) /\ Keeps(e, r)
<1>1. CASE e.closing
  <2>1. r = e
    BY <1>1 DEF close
  <2> QED BY <2>1 DEF Keeps, Reads
<1>2. CASE ~e.closing
  <2>1. PICK m : m = [e EXCEPT !.closing = TRUE]
    OBVIOUS
  <2>2. Shape(e)
    BY FineShape
  <2>3. Rests(e, m) /\ m.hs = e.hs /\ m.started = e.started
    BY <2>1, <2>2 DEF Shape, Rests
  <2>4. Fine(m, w) /\ Keeps(e, m)
    BY <2>3, RestsKeeps
  <2>5. r = _start_shutdown(m)
    BY <1>2, <2>1 DEF close
  <2>6. Fine(r, w) /\ Reads(m, r) /\ Parked(r)
    BY <2>4, <2>5, StartShutdownKeeps
  <2> QED BY <2>4, <2>6, ReadsTrans DEF Keeps
<1> QED BY <1>1, <1>2

(* What is before close_notify is all there is.                            *)
LEMMA EndedBefore ==
    ASSUME NEW w \in Seq(Int), NEW q \in Seq(Int), Ended(w \o q)
    PROVE  Ended(w) /\ (Count(CloseNotify, w) > 0 => q = <<>>)
<1>1. ASSUME NEW i \in DOMAIN w, w[i] = CloseNotify
      PROVE  i = Len(w) /\ q = <<>>
  <2>1. i \in 1 .. Len(w) /\ Len(w) \in Nat /\ Len(q) \in Nat
    OBVIOUS
  <2>2. (w \o q)[i] = w[i] /\ i \in DOMAIN (w \o q) /\ Len(w \o q) = Len(w) + Len(q)
    BY <2>1
  <2>3. i = Len(w) + Len(q)
    BY <1>1, <2>2 DEF Ended
  <2>4. Len(q) = 0 /\ i = Len(w)
    BY <2>1, <2>3
  <2> QED BY <2>4
<1>2. Ended(w)
  BY <1>1 DEF Ended
<1>3. Count(CloseNotify, w) > 0 => q = <<>>
  <2>1. Count(CloseNotify, w) = 0 <=> \A i \in DOMAIN w : w[i] # CloseNotify
    BY CountNat
  <2> QED BY <1>1, <2>1
<1> QED BY <1>2, <1>3

(* abort, or a reset: what is queued is gone.                              *)
LEMMA EmptyKeeps ==
    ASSUME NEW e, NEW w, Fine(e, w), e.raw # "lost",
           NEW r, r = [e EXCEPT !.raw = "closing", !.queue = <<>>]
    PROVE  Fine(r, w) /\ Keeps(e, r)
<1>1. Shape(e) /\ Plain(e) /\ Sound(e) /\ Flow(e, w, <<>>) /\ w \in Seq(Int) /\ e.queue \in Seq(Int)
  BY FineShape DEF Fine, Flow, Plain
<1>2. /\ r.buf = e.buf /\ r.outgoing = e.outgoing /\ Shape(r) /\ r.stalled = e.stalled
      /\ r.kind = e.kind /\ r.started = e.started /\ r.hs = e.hs /\ r.released = e.released
      /\ r.shut = e.shut /\ r.broken = e.broken /\ r.kept = e.kept /\ r.bytes = e.bytes
      /\ r.given = e.given /\ r.incoming = e.incoming /\ r.queue = <<>> /\ r.full = e.full
      /\ r.paused = e.paused /\ r.raw = "closing"
  BY <1>1 DEF Shape
<1>3. Sound(r)
  <2>1. r.queue \in Seq(Int)
    BY <1>2
  <2>2. ~e.released
    BY <1>1 DEF Plain
  <2> QED BY <1>1, <1>2, <2>1, <2>2 DEF Sound, Plain
<1>4. ASSUME NEW b
      PROVE  /\ Held(r, <<>>, b) = Held(e, <<>>, b) /\ Sent(r, w, b) = Count(b, w)
             /\ Count(b, w) \in Nat /\ Count(b, e.queue) \in Nat
             /\ Sent(e, w, b) = Count(b, e.queue) + Count(b, w)
  <2>1. Held(r, <<>>, b) = Held(e, <<>>, b)
    BY <1>2 DEF Held
  <2>2. Count(b, r.queue) = 0
    BY <1>2, CountEmpty
  <2>3. Count(b, w) \in Nat /\ Count(b, e.queue) \in Nat
    BY <1>1, CountNat
  <2> QED BY <2>1, <2>2, <2>3 DEF Sent
<1>5. Ended(w) /\ (Count(CloseNotify, w) > 0 => e.queue = <<>>)
  BY <1>1, EndedBefore DEF Flow
<1>6. Ended(w \o r.queue)
  <2>1. w \o r.queue = w
    BY <1>1, <1>2
  <2> QED BY <1>5, <2>1
<1>7. \A b \in Nat : b > r.bytes =>
         Held(r, <<>>, b) = 0 /\ Count(b, r.outgoing) = 0 /\ Sent(r, w, b) = 0
  <2>1. ASSUME NEW b \in Nat, b > r.bytes
        PROVE  Held(r, <<>>, b) = 0 /\ Count(b, r.outgoing) = 0 /\ Sent(r, w, b) = 0
    <3>1. Held(e, <<>>, b) = 0 /\ Count(b, e.outgoing) = 0 /\ Sent(e, w, b) = 0
      BY <1>1, <1>2, <2>1 DEF Flow
    <3> QED BY <1>2, <1>4, <3>1
  <2> QED BY <2>1
<1>8. Sent(r, w, CloseNotify) > 0 => Sent(e, w, CloseNotify) > 0
  BY <1>4
<1>9. Sent(r, w, CloseNotify) > 0 /\ ~r.broken => \A b \in r.kept : Sent(r, w, b) > 0
  <2>1. SUFFICES ASSUME Sent(r, w, CloseNotify) > 0, ~r.broken, NEW b \in r.kept
                 PROVE  Sent(r, w, b) > 0
    OBVIOUS
  <2>2. Sent(e, w, b) > 0
    BY <1>1, <1>2, <1>8, <2>1 DEF Flow
  <2>3. e.queue = <<>>
    BY <1>4, <1>5, <2>1
  <2>4. Count(b, e.queue) = 0
    BY <2>3, CountEmpty
  <2> QED BY <1>4, <2>2, <2>4
<1>10. Flow(r, w, <<>>)
  BY <1>1, <1>2, <1>4, <1>6, <1>7, <1>8, <1>9 DEF Flow
<1>11. Keeps(e, r)
  BY <1>2 DEF Keeps, Reads, Parked
<1> QED BY <1>3, <1>10, <1>11 DEF Fine

(* abort: what was queued is dropped, and the transport is not open then.  *)
LEMMA AbortKeeps ==
    ASSUME NEW e, NEW w, Fine(e, w), NEW r, r = abort(e)
    PROVE  Fine(r, w) /\ Keeps(e, r)
<1>1. CASE e.raw = "lost"
  <2>1. r = e
    BY <1>1 DEF abort
  <2> QED BY <2>1 DEF Keeps, Reads
<1>2. CASE e.raw # "lost"
  BY <1>2, EmptyKeeps DEF abort
<1> QED BY <1>1, <1>2

-----------------------------------------------------------------------------
(* The application.                                                        *)

(* Counting in the two bytes of a write.                                   *)
LEMMA CountPair ==
    ASSUME NEW x \in Int, NEW y \in Int, NEW d, d = <<x, y>>, NEW b
    PROVE  /\ d \in Seq(Int) /\ Len(d) = 2
           /\ Count(b, d) = (IF b = x THEN 1 ELSE 0) + (IF b = y THEN 1 ELSE 0)
<1>1. PICK p : p = <<x>>
  OBVIOUS
<1>2. p \in Seq(Int) /\ Count(b, p) = IF b = x THEN 1 ELSE 0
  BY <1>1, CountOne
<1>3. d = Append(p, y)
  BY <1>1
<1>4. Count(b, Append(p, y)) = Count(b, p) + IF b = y THEN 1 ELSE 0
  BY <1>2, CountAppend
<1>5. d \in Seq(Int) /\ Len(d) = 2
  OBVIOUS
<1>6. Count(b, d) = (IF b = x THEN 1 ELSE 0) + IF b = y THEN 1 ELSE 0
  BY <1>2, <1>3, <1>4
<1> QED BY <1>5, <1>6

(* The application writes two bytes more: they are in hand.                *)
LEMMA WroteFlow ==
    ASSUME NEW e, NEW w, Fine(e, w), NEW d, d = <<e.bytes + 1, e.bytes + 2>>,
           NEW m, m = [e EXCEPT !.bytes = @ + 2,
                                !.kept = IF e.shut THEN @ ELSE @ \cup Range(d)]
    PROVE  /\ d \in Seq(Int) /\ Len(d) = 2
           /\ Sound(m) /\ Flow(m, w, d) /\ Keeps(e, m)
<1>1. Shape(e) /\ Plain(e) /\ Sound(e) /\ Flow(e, w, <<>>) /\ w \in Seq(Int)
  BY FineShape DEF Fine, Flow
<1>2. PICK n : n = e.bytes
  OBVIOUS
<1>3. n \in Nat /\ d = <<n + 1, n + 2>> /\ e.kept \subseteq 1 .. n
  BY <1>1, <1>2 DEF Plain
<1>4. d \in Seq(Int) /\ Len(d) = 2
      /\ \A b : Count(b, d) = (IF b = n + 1 THEN 1 ELSE 0) + (IF b = n + 2 THEN 1 ELSE 0)
  <2>1. n + 1 \in Int /\ n + 2 \in Int
    BY <1>3
  <2> QED BY <1>3, <2>1, CountPair
<1>5. PICK k : k = IF e.shut THEN e.kept ELSE e.kept \cup Range(d)
  OBVIOUS
<1>6. m = [e EXCEPT !.bytes = n + 2, !.kept = k]
  BY <1>2, <1>5
<1>7. /\ m.buf = e.buf /\ m.outgoing = e.outgoing /\ Shape(m) /\ m.stalled = e.stalled
      /\ m.kind = e.kind /\ m.started = e.started /\ m.hs = e.hs /\ m.released = e.released
      /\ m.shut = e.shut /\ m.broken = e.broken /\ m.kept = k /\ m.bytes = n + 2
      /\ m.given = e.given /\ m.incoming = e.incoming /\ m.queue = e.queue /\ m.full = e.full
      /\ m.paused = e.paused /\ m.raw = e.raw
  BY <1>1, <1>6 DEF Shape
<1>8. Range(d) = {n + 1, n + 2}
  BY <1>3, <1>4 DEF Range
<1>9. k \subseteq 1 .. n + 2
  BY <1>3, <1>5, <1>8
<1>10. Sound(m)
  <2>1. m.bytes \in Nat
    BY <1>3, <1>7
  <2> QED BY <1>1, <1>7, <1>9, <2>1 DEF Sound, Plain
<1>11. ASSUME NEW b
       PROVE  /\ Held(m, d, b) = Held(e, <<>>, b) + Count(b, d) /\ Sent(m, w, b) = Sent(e, w, b)
              /\ Held(e, <<>>, b) \in Nat /\ Count(b, e.outgoing) \in Nat /\ Sent(e, w, b) \in Nat
  <2>1. PICK x : x = <<>>
    OBVIOUS
  <2>2. x \in Seq(Int) /\ Count(b, x) = 0
    BY <2>1, CountEmpty
  <2>3. Count(b, FlattenSeq(e.buf)) \in Nat /\ Held(e, x, b) \in Nat
        /\ Count(b, e.outgoing) \in Nat /\ Sent(e, w, b) \in Nat
    BY <1>1, <2>2, CountsNat
  <2>4. Sent(m, w, b) = Sent(e, w, b)
    BY <1>7 DEF Sent
  <2>5. Held(m, d, b) = Held(e, x, b) + Count(b, d)
    <3>1. Count(b, d) \in Nat
      BY <1>4, CountNat
    <3> QED BY <1>7, <2>2, <2>3, <3>1 DEF Held
  <2> QED BY <2>1, <2>3, <2>4, <2>5
<1>12. \A b \in Nat : b > m.bytes =>
          Held(m, d, b) = 0 /\ Count(b, m.outgoing) = 0 /\ Sent(m, w, b) = 0
  <2>1. ASSUME NEW b \in Nat, b > m.bytes
        PROVE  Held(m, d, b) = 0 /\ Count(b, m.outgoing) = 0 /\ Sent(m, w, b) = 0
    <3>1. b > n + 2 /\ b > e.bytes
      BY <1>2, <1>3, <1>7, <2>1
    <3>2. Held(e, <<>>, b) = 0 /\ Count(b, e.outgoing) = 0 /\ Sent(e, w, b) = 0
      BY <1>1, <3>1 DEF Flow
    <3>3. Count(b, d) = 0
      BY <1>3, <1>4, <3>1
    <3> QED BY <1>7, <1>11, <3>2, <3>3
  <2> QED BY <2>1
<1>13. ASSUME m.raw = "open", ~m.broken, NEW b \in m.kept
       PROVE  /\ Held(m, d, b) + Count(b, m.outgoing) + Sent(m, w, b) = 1
              /\ m.shut => Held(m, d, b) = 0
  <2>1. CASE b \in e.kept
    <3>1. Held(e, <<>>, b) + Count(b, e.outgoing) + Sent(e, w, b) = 1
          /\ (e.shut => Held(e, <<>>, b) = 0)
      BY <1>1, <1>7, <1>13, <2>1 DEF Flow
    <3>2. b \in 1 .. n
      BY <1>3, <2>1
    <3>3. Count(b, d) = 0
      BY <1>3, <1>4, <3>2
    <3> QED BY <1>7, <1>11, <3>1, <3>3
  <2>2. CASE b \notin e.kept
    <3>1. ~e.shut /\ (b = n + 1 \/ b = n + 2)
      BY <1>5, <1>7, <1>8, <1>13, <2>2
    <3>2. b \in Nat /\ b > e.bytes
      BY <1>2, <1>3, <3>1
    <3>3. Held(e, <<>>, b) = 0 /\ Count(b, e.outgoing) = 0 /\ Sent(e, w, b) = 0
      BY <1>1, <3>2 DEF Flow
    <3>4. Count(b, d) = 1
      BY <1>3, <1>4, <3>1
    <3> QED BY <1>7, <1>11, <3>1, <3>3, <3>4
  <2> QED BY <2>1, <2>2
<1>14. Held(m, d, CloseNotify) = 0 /\ Count(CloseNotify, m.outgoing) = 0
       /\ Sent(m, w, CloseNotify) = Sent(e, w, CloseNotify)
  <2>1. Count(CloseNotify, d) = 0
    BY <1>3, <1>4 DEF CloseNotify
  <2>2. Held(e, <<>>, CloseNotify) = 0 /\ Count(CloseNotify, e.outgoing) = 0
    BY <1>1 DEF Flow
  <2> QED BY <1>7, <1>11, <2>1, <2>2
<1>15. Sent(m, w, CloseNotify) > 0 /\ ~m.broken => \A b \in m.kept : Sent(m, w, b) > 0
  <2>1. SUFFICES ASSUME Sent(e, w, CloseNotify) > 0, ~e.broken, NEW b \in m.kept
                 PROVE  Sent(e, w, b) > 0
    BY <1>7, <1>11, <1>14
  <2>2. e.shut
    BY <1>1, <2>1 DEF Flow
  <2>3. b \in e.kept
    BY <1>5, <1>7, <2>2
  <2> QED BY <1>1, <2>1, <2>3 DEF Flow
<1>16. Flow(m, w, d)
  BY <1>1, <1>4, <1>7, <1>12, <1>13, <1>14, <1>15 DEF Flow
<1>17. Keeps(e, m)
  BY <1>7 DEF Keeps, Reads, Parked
<1> QED BY <1>4, <1>10, <1>16, <1>17

(* What the application does when it is called.                            *)
LEMMA AppKeeps ==
    ASSUME NEW e, NEW w, Fine(e, w), NEW c \in Calls, NEW r, r = App(e, c)
    PROVE  Fine(r, w) /\ Keeps(e, r)
<1>1. c \in {"return", "write", "close", "abort", "write_part"}
  BY DEF Calls
<1>2. Keeps(e, e)
  BY DEF Keeps, Reads
<1>3. CASE c = "return" \/ ~HasTransport(e)
  <2>1. r = e
    BY <1>3 DEF App
  <2> QED BY <1>2, <2>1
<1>4. CASE c \in {"write", "write_part"} /\ HasTransport(e)
  <2>1. CASE e.bytes + 2 > MaxBytes
    <3>1. r = e
      BY <1>4, <2>1 DEF App
    <3> QED BY <1>2, <3>1
  <2>2. CASE ~(e.bytes + 2 > MaxBytes)
    <3>1. PICK d : d = <<e.bytes + 1, e.bytes + 2>>
      OBVIOUS
    <3>2. PICK m : m = [e EXCEPT !.bytes = @ + 2,
                                 !.kept = IF e.shut THEN @ ELSE @ \cup Range(d)]
      OBVIOUS
    <3>3. d \in Seq(Int) /\ Len(d) = 2 /\ Sound(m) /\ Flow(m, w, d) /\ Keeps(e, m)
      BY <3>1, <3>2, WroteFlow
    <3>4. ~(c = "return" \/ ~HasTransport(e))
      BY <1>4
    <3>5. \E part : r = write(m, d, part)
      BY <1>4, <2>2, <3>1, <3>2, <3>4, Zenon DEF App
    <3>6. PICK part : r = write(m, d, part)
      BY <3>5
    <3>7. Fine(r, w) /\ Keeps(m, r)
      BY <3>3, <3>6, WriteKeeps
    <3> QED BY <3>3, <3>7, KeepsTrans
  <2> QED BY <2>1, <2>2
<1>5. CASE c = "close" /\ HasTransport(e)
  <2>1. r = close(e)
    BY <1>5 DEF App
  <2> QED BY <2>1, CloseKeeps
<1>6. CASE c = "abort" /\ HasTransport(e)
  <2>1. r = abort(e)
    BY <1>6 DEF App
  <2> QED BY <2>1, AbortKeeps
<1> QED BY <1>1, <1>3, <1>4, <1>5, <1>6

-----------------------------------------------------------------------------
(* The handshake.                                                          *)

(* The handshake goes on, or is over.                                      *)
LEMMA RestsOn ==
    ASSUME NEW e, NEW w, Fine(e, w), NEW r, Rests(e, r), e.hs => r.hs, r.hs => r.started
    PROVE  Fine(r, w) /\ Keeps(e, r)
<1>1. Sound(r)
  BY DEF Fine, Sound, Plain, Rests
<1>2. \A b : Held(r, <<>>, b) = Held(e, <<>>, b) /\ Sent(r, w, b) = Sent(e, w, b)
  BY DEF Rests, Held, Sent
<1>3. r.outgoing = e.outgoing /\ r.queue = e.queue /\ r.kept = e.kept /\ r.bytes = e.bytes
      /\ (r.shut <=> e.shut) /\ (e.broken => r.broken) /\ (r.raw = "open" => e.raw = "open")
  BY DEF Rests
<1>4. Flow(r, w, <<>>)
  BY <1>2, <1>3 DEF Fine, Flow
<1>5. Keeps(e, r)
  BY DEF Keeps, Reads, Parked, Rests
<1> QED BY <1>1, <1>4, <1>5 DEF Fine

(* The waiter is no concern of the streams.                                *)
LEMMA FinishKeeps ==
    ASSUME NEW e, NEW w, Fine(e, w), NEW x, NEW r, r = Finish(e, x)
    PROVE  Fine(r, w) /\ Keeps(e, r)
<1>1. Shape(e)
  BY FineShape
<1>2. Rests(e, r) /\ r.hs = e.hs /\ r.started = e.started
  <2>1. CASE e.waiter = "pending"
    <3>1. r = [e EXCEPT !.waiter = x]
      BY <2>1 DEF Finish
    <3> QED BY <1>1, <3>1 DEF Shape, Rests
  <2>2. CASE e.waiter # "pending"
    BY <1>1, <2>2 DEF Finish, Rests
  <2> QED BY <2>1, <2>2
<1> QED BY <1>2, RestsKeeps

(* A flight joins outgoing.                                                *)
Joins(o, p) ==
    /\ p \in Seq(Int)
    /\ \A b : b \in Nat \ {0} \/ b = CloseNotify => Count(b, p) = Count(b, o)

(* A flight is neither data nor close_notify.                              *)
LEMMA FlightJoins ==
    ASSUME NEW o \in Seq(Int)
    PROVE  Joins(o, o) /\ Joins(o, Append(o, Flight))
<1>1. Joins(o, o)
  BY DEF Joins
<1>2. PICK f : f = Flight
  OBVIOUS
<1>3. f = 0
  BY <1>2 DEF Flight
<1>4. f \in Int
  BY <1>3
<1>5. Append(o, f) \in Seq(Int)
  BY <1>4
<1>6. ASSUME NEW b, b \in Nat \ {0} \/ b = CloseNotify
      PROVE  Count(b, Append(o, f)) = Count(b, o)
  <2>1. b # f
    BY <1>3, <1>6 DEF CloseNotify
  <2>2. Count(b, Append(o, f)) = Count(b, o) + IF b = f THEN 1 ELSE 0
    BY <1>4, CountAppend
  <2>3. Count(b, o) \in Nat
    BY CountNat
  <2> QED BY <2>1, <2>2, <2>3
<1> QED BY <1>1, <1>2, <1>5, <1>6 DEF Joins

(* Flights join one by one.                                                *)
LEMMA JoinsTrans ==
    ASSUME NEW o, NEW p, NEW q, Joins(o, p), Joins(p, q)
    PROVE  Joins(o, q)
BY DEF Joins

(* Reading a flight reads no data.                                         *)
LEMMA FlightTail ==
    ASSUME NEW q \in Seq(Int), q # <<>>, Head(q) = Flight
    PROVE  Tail(q) \in Seq(Int) /\ Data(Tail(q)) = Data(q)
<1>1. PICK records : records = <<Flight>>
  OBVIOUS
<1>2. PICK z : z = Tail(q)
  OBVIOUS
<1>3. Begins(q, records, z)
  BY <1>1, <1>2, BeginsOne
<1>4. Data(records) = <<>>
  <2>1. PICK x : x = <<>>
    OBVIOUS
  <2>2. records = Append(x, Flight) /\ x \in Seq(Int) /\ Flight \in Int /\ ~IsData(Flight)
    BY <1>1, <2>1 DEF Flight, IsData
  <2>3. Data(records) = Data(x)
    BY <2>2, DataAppend
  <2> QED BY <2>1, <2>3, DataEmpty
<1>5. Data(q) = Data(records) \o Data(z)
  BY <1>3, DataBegins
<1>6. z \in Seq(Int) /\ Data(z) \in Seq(Int)
  BY <1>3, DataType DEF Begins
<1>7. Data(q) = Data(z)
  BY <1>4, <1>5, <1>6
<1> QED BY <1>2, <1>6, <1>7

(* A step of the handshake: some fields, and i and o for the buffers.      *)
Shakes(e, r, i, o) ==
    /\ Shape(r) /\ r.started /\ r.hs = e.hs
    /\ r.incoming = i /\ r.outgoing = o
    /\ r.kind = e.kind /\ r.released = e.released
    /\ r.shut = e.shut /\ (e.broken => r.broken) /\ r.kept = e.kept /\ r.bytes = e.bytes
    /\ r.given = e.given /\ r.buf = e.buf /\ r.queue = e.queue /\ r.full = e.full
    /\ r.paused = e.paused /\ r.raw = e.raw /\ r.stalled = e.stalled

(* A step of the handshake keeps everything: close_notify is not sent yet. *)
LEMMA ShakesKeeps ==
    ASSUME NEW e, NEW w, Fine(e, w), ~e.shut, NEW i \in Seq(Int), Data(i) = Data(e.incoming),
           NEW o, Joins(e.outgoing, o), NEW r, Shakes(e, r, i, o)
    PROVE  Fine(r, w) /\ Keeps(e, r)
<1>1. Shape(e) /\ Sound(e)
  BY FineShape DEF Fine
<1>2. PICK m : m = [e EXCEPT !.incoming = i, !.outgoing = o]
  OBVIOUS
<1>3. Same(e, m) /\ m.incoming = i /\ m.outgoing = o
  BY <1>1, <1>2 DEF Shape, Same
<1>4. PICK d : d = <<>>
  OBVIOUS
<1>5. Sound(m) /\ Flow(m, w, d) /\ (Parked(e) => Parked(m))
  BY <1>1, <1>3, <1>4, SameFlow DEF Fine, Joins
<1>6. Reads(e, m)
  BY <1>3 DEF Reads, Same
<1>7. Fine(m, w) /\ Keeps(e, m)
  BY <1>4, <1>5, <1>6 DEF Fine, Keeps
<1>8. Rests(m, r) /\ (m.hs => r.hs) /\ (r.hs => r.started)
  BY <1>3 DEF Shakes, Rests, Same
<1>9. Fine(r, w) /\ Keeps(m, r)
  BY <1>7, <1>8, RestsOn
<1> QED BY <1>7, <1>9, KeepsTrans

(* do_handshake is such a step.                                            *)
LEMMA HandshakeKeeps ==
    ASSUME NEW e, NEW w, Fine(e, w), ~e.hs, NEW h, h = do_handshake(e)
    PROVE  /\ Fine(h.to, w) /\ Keeps(e, h.to) /\ h.to.started /\ h.to.kind = e.kind
           /\ h.res \in {"want_read", "error", "done"}
<1>1. Shape(e) /\ Plain(e) /\ ~e.shut /\ e.outgoing \in Seq(Int) /\ e.incoming \in Seq(Int)
  BY FineShape DEF Plain
<1>2. PICK o : o = IF e.side = "client" /\ ~e.started THEN Append(e.outgoing, Flight) ELSE e.outgoing
  OBVIOUS
<1>3. Joins(e.outgoing, o) /\ o \in Seq(Int)
  BY <1>1, <1>2, FlightJoins DEF Joins
<1>4. PICK t : t = [e EXCEPT !.started = TRUE, !.outgoing = o]
  OBVIOUS
<1>5. Shakes(e, t, e.incoming, o)
  BY <1>1, <1>4 DEF Shape, Shakes
<1>6. CASE h.to = t /\ h.res \in {"want_read", "error"}
  <2>1. PICK r : r = h.to
    OBVIOUS
  <2>2. Fine(r, w) /\ Keeps(e, r)
    BY <1>1, <1>3, <1>5, <1>6, <2>1, ShakesKeeps
  <2> QED BY <1>5, <1>6, <2>1, <2>2 DEF Shakes
<1>7. CASE h.to = [t EXCEPT !.broken = TRUE] /\ h.res = "error"
  <2>1. PICK r : r = h.to
    OBVIOUS
  <2>2. Shakes(e, r, e.incoming, o)
    BY <1>5, <1>7, <2>1 DEF Shakes, Shape
  <2>3. Fine(r, w) /\ Keeps(e, r)
    BY <1>1, <1>3, <2>2, ShakesKeeps
  <2> QED BY <1>7, <2>1, <2>2, <2>3 DEF Shakes
<1>8. CASE t.broken \/ t.incoming = <<>>
  <2>1. h.to = t /\ h.res \in {"want_read", "error"}
    BY <1>2, <1>4, <1>8 DEF do_handshake
  <2> QED BY <1>6, <2>1
<1>9. CASE ~t.broken /\ t.incoming # <<>> /\ Head(t.incoming) # Flight
  <2>1. h.to = [t EXCEPT !.broken = TRUE] /\ h.res = "error"
    BY <1>2, <1>4, <1>9 DEF do_handshake
  <2> QED BY <1>7, <2>1
<1>10. CASE ~t.broken /\ t.incoming # <<>> /\ Head(t.incoming) = Flight
  <2>1. PICK flights : flights = t.flights + 1
    OBVIOUS
  <2>2. PICK p : p = IF flights = 2 THEN o ELSE Append(o, Flight)
    OBVIOUS
  <2>3. t.outgoing = o
    BY <1>5 DEF Shakes
  <2>4. /\ h.to = [t EXCEPT !.incoming = Tail(@), !.flights = flights,
                            !.outgoing = IF flights = 2 THEN @ ELSE Append(@, Flight)]
        /\ h.res \in {"want_read", "done"}
    BY <1>2, <1>4, <1>10, <2>1 DEF do_handshake
  <2>5. h.to = [t EXCEPT !.incoming = Tail(t.incoming), !.flights = flights, !.outgoing = p]
    BY <2>2, <2>3, <2>4
  <2>6. t.incoming = e.incoming
    BY <1>5 DEF Shakes
  <2>7. PICK i : i = Tail(e.incoming)
    OBVIOUS
  <2>8. i \in Seq(Int) /\ Data(i) = Data(e.incoming)
    BY <1>1, <1>10, <2>6, <2>7, FlightTail
  <2>9. Joins(o, p)
    BY <1>3, <2>2, FlightJoins
  <2>10. Joins(e.outgoing, p)
    BY <1>3, <2>9, JoinsTrans
  <2>11. PICK r : r = [t EXCEPT !.incoming = i, !.flights = flights, !.outgoing = p]
    OBVIOUS
  <2>12. Shakes(e, r, i, p)
    BY <1>5, <2>11 DEF Shakes, Shape
  <2>13. Fine(r, w) /\ Keeps(e, r)
    BY <1>1, <2>8, <2>10, <2>12, ShakesKeeps
  <2>14. h.to = r
    BY <2>5, <2>6, <2>7, <2>11
  <2>15. r.started /\ r.kind = e.kind
    BY <2>12 DEF Shakes
  <2> QED BY <2>4, <2>13, <2>14, <2>15
<1> QED BY <1>8, <1>9, <1>10

-----------------------------------------------------------------------------
(* _h, and what can be read.                                               *)

(* _h: one step of the handshake, and the first call of the application.   *)
LEMMA HKeeps ==
    ASSUME NEW e, NEW w, Fine(e, w), ~e.hs, NEW c \in Calls, NEW r, r = _h(e, c)
    PROVE  Fine(r, w) /\ Keeps(e, r)
<1>1. PICK h : h = do_handshake(e)
  OBVIOUS
<1>2. /\ Fine(h.to, w) /\ Keeps(e, h.to) /\ h.to.started /\ h.to.kind = e.kind
      /\ h.res \in {"want_read", "error", "done"}
  BY <1>1, HandshakeKeeps
<1>3. PICK t : t = h.to
  OBVIOUS
<1>4. Fine(t, w) /\ Keeps(e, t) /\ t.started /\ Shape(t)
  BY <1>2, <1>3, FineShape
<1>5. CASE h.res = "want_read"
  <2>1. r = _f(t)
    BY <1>1, <1>3, <1>5 DEF _h
  <2> QED BY <1>4, <2>1, FFine, KeepsTrans
<1>6. CASE h.res = "error"
  <2>1. PICK failed : failed = Finish(t, "failed")
    OBVIOUS
  <2>2. Fine(failed, w) /\ Keeps(t, failed)
    BY <1>4, <2>1, FinishKeeps
  <2>3. PICK m : m = [failed EXCEPT !.running = FALSE]
    OBVIOUS
  <2>4. Shape(failed)
    BY <2>2, FineShape
  <2>5. Rests(failed, m) /\ m.hs = failed.hs /\ m.started = failed.started
    BY <2>3, <2>4 DEF Shape, Rests
  <2>6. Fine(m, w) /\ Keeps(failed, m)
    BY <2>2, <2>5, RestsKeeps
  <2>7. r = failed \/ r = RawClose(m)
    BY <1>1, <1>3, <1>6, <2>1, <2>3 DEF _h
  <2>8. CASE r = failed
    BY <1>4, <2>2, <2>8, KeepsTrans
  <2>9. CASE r = RawClose(m)
    <3>1. Fine(r, w) /\ Keeps(m, r)
      BY <2>6, <2>9, RawCloseKeeps
    <3>2. Keeps(e, failed)
      BY <1>4, <2>2, KeepsTrans
    <3>3. Keeps(e, m)
      BY <2>6, <3>2, KeepsTrans
    <3> QED BY <3>1, <3>3, KeepsTrans
  <2> QED BY <2>7, <2>8, <2>9
<1>7. CASE h.res = "done"
  <2>1. PICK m : m = [t EXCEPT !.hs = TRUE]
    OBVIOUS
  <2>2. Rests(t, m) /\ m.hs /\ m.started
    BY <1>4, <2>1 DEF Shape, Rests
  <2>3. Fine(m, w) /\ Keeps(t, m)
    BY <1>4, <2>2, RestsOn
  <2>4. PICK n : n = Finish(m, "done")
    OBVIOUS
  <2>5. Fine(n, w) /\ Keeps(m, n)
    BY <2>3, <2>4, FinishKeeps
  <2>6. PICK done : done = _f(n)
    OBVIOUS
  <2>7. Fine(done, w) /\ Keeps(n, done)
    BY <2>5, <2>6, FFine
  <2>8. Keeps(e, done)
    <3>1. Keeps(e, m)
      BY <1>4, <2>3, KeepsTrans
    <3>2. Keeps(e, n)
      BY <2>5, <3>1, KeepsTrans
    <3> QED BY <2>7, <3>2, KeepsTrans
  <2>9. r = done \/ r = App(done, c)
    BY <1>1, <1>3, <1>7, <2>1, <2>4, <2>6 DEF _h
  <2>10. CASE r = done
    BY <2>7, <2>8, <2>10
  <2>11. CASE r = App(done, c)
    <3>1. Fine(r, w) /\ Keeps(done, r)
      BY <2>7, <2>11, AppKeeps
    <3> QED BY <2>8, <3>1, KeepsTrans
  <2> QED BY <2>9, <2>10, <2>11
<1> QED BY <1>2, <1>5, <1>6, <1>7

(* Readable: what can be read is the beginning of what there is.           *)
LEMMA ReadableBegins ==
    ASSUME NEW q \in Seq(Int)
    PROVE  \E z : Begins(q, Readable(q), z)
<1> DEFINE S == {i \in DOMAIN q : q[i] \in {CloseNotify, Bad}}
           x == CHOOSE i \in S : \A j \in S : i <= j
           n == IF S = {} THEN Len(q) ELSE x - 1
<1>1. Len(q) \in Nat /\ DOMAIN q = 1 .. Len(q)
  OBVIOUS
<1>2. n \in 0 .. Len(q)
  <2>1. CASE S = {}
    BY <1>1, <2>1
  <2>2. CASE S # {}
    <3>1. S \subseteq Nat /\ S \subseteq 1 .. Len(q)
      BY <1>1
    <3>2. \E i \in S : \A j \in S : i <= j
      <4> HIDE DEF S
      <4> QED BY <2>2, <3>1, LeastNatural
    <3>3. x \in S
      <4> HIDE DEF S
      <4> QED BY <3>2
    <3> HIDE DEF x, S
    <3> QED BY <1>1, <2>2, <3>1, <3>3
  <2> QED BY <2>1, <2>2
<1>3. Readable(q) = SubSeq(q, 1, n)
  BY DEF Readable
<1> HIDE DEF n
<1>4. Begins(q, SubSeq(q, 1, n), SubSeq(q, n + 1, Len(q)))
  BY <1>2, CutBegins
<1> QED BY <1>3, <1>4

(* What the application was given, and will be given, is the same.         *)
Passes(e, r) ==
    /\ r.given \in Seq(Int)
    /\ r.given \o Data(r.incoming) = e.given \o Data(e.incoming)
    /\ e.raw = "lost" => r.raw = "lost"
    /\ Parked(e) => Parked(r)

(* A step that gives nothing.                                              *)
LEMMA KeepsPasses ==
    ASSUME NEW e, NEW r, Keeps(e, r), e.given \in Seq(Int)
    PROVE  Passes(e, r)
BY DEF Keeps, Reads, Passes

(* A step that gives, and one that does not.                               *)
LEMMA PassesTrans ==
    ASSUME NEW e, NEW m, NEW r, Passes(e, m), Keeps(m, r)
    PROVE  Passes(e, r)
BY DEF Keeps, Reads, Passes

(* data_received is called, and the SSL object may be broken now.          *)
Gives(e, r) ==
    /\ r.buf = e.buf /\ r.outgoing = e.outgoing /\ Shape(r) /\ r.stalled = e.stalled
    /\ r.kind = e.kind /\ r.started = e.started /\ r.hs = e.hs /\ r.released = e.released
    /\ r.shut = e.shut /\ (e.broken => r.broken) /\ r.kept = e.kept /\ r.bytes = e.bytes
    /\ r.incoming = e.incoming /\ r.queue = e.queue /\ r.full = e.full
    /\ r.paused = e.paused /\ r.raw = e.raw

(* data_received leaves the way out alone.                                 *)
LEMMA GivesKeeps ==
    ASSUME NEW e, NEW w, Fine(e, w), NEW r, Gives(e, r)
    PROVE  Fine(r, w) /\ (Parked(e) => Parked(r))
<1>1. Sound(r)
  BY DEF Fine, Sound, Plain, Gives
<1>2. \A x : Held(r, <<>>, x) = Held(e, <<>>, x) /\ Sent(r, w, x) = Sent(e, w, x)
  BY DEF Held, Sent, Gives
<1>3. Flow(r, w, <<>>)
  BY <1>2 DEF Fine, Flow, Gives
<1>4. Parked(e) => Parked(r)
  BY DEF Parked, Gives
<1> QED BY <1>1, <1>3, <1>4 DEF Fine

-----------------------------------------------------------------------------
(* _r, buffer_updated, eof_received and connection_lost.                   *)

(* Concatenation is associative.                                           *)
LEMMA Assoc ==
    ASSUME NEW a \in Seq(Int), NEW b \in Seq(Int), NEW c \in Seq(Int)
    PROVE  (a \o b) \o c = a \o (b \o c)
<1>1. PICK k, m, n : k = Len(a) /\ m = Len(b) /\ n = Len(c)
  OBVIOUS
<1>2. k \in Nat /\ m \in Nat /\ n \in Nat
  BY <1>1
<1>3. PICK x, y : x = a \o b /\ y = b \o c
  OBVIOUS
<1>4. x \in Seq(Int) /\ Len(x) = k + m /\ y \in Seq(Int) /\ Len(y) = m + n
  BY <1>1, <1>3
<1>5. PICK p, q : p = x \o c /\ q = a \o y
  OBVIOUS
<1>6. p \in Seq(Int) /\ Len(p) = k + m + n /\ q \in Seq(Int) /\ Len(q) = k + m + n
  <2>1. p \in Seq(Int) /\ Len(p) = Len(x) + Len(c)
    <3>1. x \in Seq(Int) /\ p = x \o c
      BY <1>4, <1>5
    <3> QED BY <3>1
  <2>2. q \in Seq(Int) /\ Len(q) = Len(a) + Len(y)
    <3>1. y \in Seq(Int) /\ q = a \o y
      BY <1>4, <1>5
    <3> QED BY <3>1
  <2>3. Len(x) + Len(c) = k + m + n /\ Len(a) + Len(y) = k + m + n
    BY <1>1, <1>2, <1>4
  <2> QED BY <2>1, <2>2, <2>3
<1>7. ASSUME NEW i \in 1 .. k + m + n
      PROVE  p[i] = q[i]
  <2>1. CASE i <= k
    <3>1. p[i] = x[i] /\ x[i] = a[i] /\ q[i] = a[i]
      BY <1>1, <1>2, <1>3, <1>4, <1>5, <2>1
    <3> QED BY <3>1
  <2>2. CASE i > k /\ i <= k + m
    <3>1. p[i] = x[i]
      BY <1>1, <1>2, <1>4, <1>5, <2>2
    <3>2. x[i] = b[i - k]
      BY <1>1, <1>2, <1>3, <2>2
    <3>3. q[i] = y[i - k]
      BY <1>1, <1>2, <1>4, <1>5, <2>2
    <3>4. y[i - k] = b[i - k]
      BY <1>1, <1>2, <1>3, <2>2
    <3> QED BY <3>1, <3>2, <3>3, <3>4
  <2>3. CASE i > k + m
    <3>1. p[i] = c[i - (k + m)]
      <4>1. i > Len(x) /\ i <= Len(x) + Len(c) /\ Len(x) \in Nat /\ Len(c) \in Nat
        BY <1>1, <1>2, <1>4, <2>3
      <4>2. p[i] = c[i - Len(x)]
        <5>1. x \in Seq(Int) /\ p = x \o c
          BY <1>4, <1>5
        <5> QED BY <4>1, <5>1
      <4> QED BY <1>4, <4>2
    <3>2. q[i] = y[i - k]
      BY <1>1, <1>2, <1>4, <1>5, <2>3
    <3>3. y[i - k] = c[(i - k) - m]
      BY <1>1, <1>2, <1>3, <2>3
    <3>4. (i - k) - m = i - (k + m)
      BY <1>2
    <3> QED BY <3>1, <3>2, <3>3, <3>4
  <2> QED BY <1>2, <2>1, <2>2, <2>3
<1>8. p = [i \in 1 .. k + m + n |-> p[i]] /\ q = [i \in 1 .. k + m + n |-> q[i]]
  BY <1>6
<1>9. p = q
  BY <1>7, <1>8
<1> QED BY <1>3, <1>5, <1>9

(* _r: what is read is given, what is left can still be.                   *)
LEMMA RKeeps ==
    ASSUME NEW e, NEW w, Fine(e, w), e.given \in Seq(Int), NEW c \in Calls, NEW r, r = _r(e, c)
    PROVE  Fine(r, w) /\ Passes(e, r)
<1>1. PICK records : records = Readable(e.incoming)
  OBVIOUS
<1>2. e.incoming \in Seq(Int)
  BY FineShape DEF Plain
<1>3. PICK z : Begins(e.incoming, records, z)
  BY <1>1, <1>2, ReadableBegins
<1>4. PICK t : t = Take(e, records)
  OBVIOUS
<1>5. PICK d : d = <<>>
  OBVIOUS
<1>6. Sound(t) /\ Flow(t, w, d) /\ (Parked(e) => Parked(t)) /\ Same(e, t) /\ t.incoming = z
  BY <1>3, <1>4, <1>5, TakeKeeps DEF Fine
<1>7. Fine(t, w)
  BY <1>5, <1>6 DEF Fine
<1>8. PICK g : g = t.given \o Data(records)
  OBVIOUS
<1>9. PICK b : b = (t.broken \/ (t.incoming # <<>> /\ Head(t.incoming) = Bad))
  OBVIOUS
<1>10. PICK m : m = [t EXCEPT !.given = g, !.broken = b]
  OBVIOUS
<1>11. Fine(m, w) /\ (Parked(t) => Parked(m)) /\ m.given = g /\ m.incoming = z /\ m.raw = t.raw
  <2>1. Shape(t) /\ t.incoming = z
    BY <1>6, <1>7, FineShape
  <2>2. m.broken = b /\ m.given = g
    BY <1>10, <2>1 DEF Shape
  <2>3. t.broken => m.broken
    BY <1>9, <2>2
  <2>4. Gives(t, m)
    BY <1>10, <2>1, <2>3 DEF Shape, Gives
  <2>5. Fine(m, w) /\ (Parked(t) => Parked(m))
    BY <1>7, <2>4, GivesKeeps
  <2> QED BY <2>1, <2>2, <2>4, <2>5 DEF Gives
<1>12. Passes(e, m)
  <2>1. Data(e.incoming) = Data(records) \o Data(z)
    BY <1>3, DataBegins
  <2>2. Data(records) \in Seq(Int) /\ Data(z) \in Seq(Int)
    BY <1>3, DataType DEF Begins
  <2>3. PICK x, y : x = Data(records) /\ y = Data(z)
    OBVIOUS
  <2>4. x \in Seq(Int) /\ y \in Seq(Int) /\ t.given = e.given
    BY <1>6, <2>2, <2>3 DEF Same
  <2>5. (e.given \o x) \o y = e.given \o (x \o y) /\ e.given \o x \in Seq(Int)
    <3>1. (e.given \o x) \o y = e.given \o (x \o y)
      BY <2>4, Assoc
    <3>2. e.given \o x \in Seq(Int)
      BY <2>4
    <3> QED BY <3>1, <3>2
  <2>6. m.given \in Seq(Int) /\ m.given \o Data(m.incoming) = e.given \o Data(e.incoming)
    BY <1>8, <1>11, <2>1, <2>3, <2>4, <2>5
  <2>7. (e.raw = "lost" => m.raw = "lost") /\ (Parked(e) => Parked(m))
    BY <1>6, <1>11 DEF Same
  <2> QED BY <2>6, <2>7 DEF Passes
<1>13. \/ r = e
       \/ r = m
       \/ r = App(m, c)
       \/ r = _start_shutdown(App(m, c))
  BY <1>1, <1>4, <1>8, <1>9, <1>10 DEF _r
<1>14. CASE r = e
  <2>1. Keeps(e, e)
    BY DEF Keeps, Reads
  <2> QED BY <1>14, <2>1, KeepsPasses
<1>15. CASE r = m
  BY <1>11, <1>12, <1>15
<1>16. PICK a : a = App(m, c)
  OBVIOUS
<1>17. Fine(a, w) /\ Keeps(m, a)
  BY <1>11, <1>16, AppKeeps
<1>18. Passes(e, a)
  BY <1>12, <1>17, PassesTrans
<1>19. CASE r = App(m, c)
  BY <1>16, <1>17, <1>18, <1>19
<1>20. CASE r = _start_shutdown(App(m, c))
  <2>1. r = _start_shutdown(a)
    BY <1>16, <1>20
  <2>2. Fine(r, w) /\ Reads(a, r) /\ Parked(r)
    BY <1>17, <2>1, StartShutdownKeeps
  <2>3. Keeps(a, r)
    BY <2>2 DEF Keeps
  <2> QED BY <1>18, <2>2, <2>3, PassesTrans
<1> QED BY <1>13, <1>14, <1>15, <1>19, <1>20

(* buffer_updated: what the peer sent is read.                             *)
LEMMA UpdatedKeeps ==
    ASSUME NEW e, NEW w, Fine(e, w), e.given \in Seq(Int), NEW records \in Seq(Int),
           NEW c \in Calls, NEW r, r = buffer_updated(e, records, c)
    PROVE  /\ Fine(r, w) /\ (Parked(e) => Parked(r)) /\ r.given \in Seq(Int)
           /\ r.given \o Data(r.incoming) = e.given \o (Data(e.incoming) \o Data(records))
<1>1. PICK y : y = e.incoming \o records
  OBVIOUS
<1>2. PICK t : t = [e EXCEPT !.incoming = y]
  OBVIOUS
<1>3. Shape(e) /\ Sound(e) /\ e.incoming \in Seq(Int) /\ e.outgoing \in Seq(Int)
  BY FineShape DEF Fine, Plain
<1>4. Same(e, t) /\ t.incoming = y /\ t.outgoing = e.outgoing
  BY <1>2, <1>3 DEF Shape, Same
<1>5. y \in Seq(Int) /\ Data(y) = Data(e.incoming) \o Data(records)
  <2>1. y \in Seq(Int)
    BY <1>1, <1>3
  <2>2. Data(e.incoming \o records) = Data(e.incoming) \o Data(records)
    BY <1>3, DataConcat
  <2> QED BY <1>1, <2>1, <2>2
<1>6. PICK d : d = <<>>
  OBVIOUS
<1>7. Sound(t) /\ Flow(t, w, d) /\ (Parked(e) => Parked(t))
  BY <1>3, <1>4, <1>5, <1>6, SameFlow DEF Fine
<1>8. Fine(t, w) /\ t.given = e.given /\ t.hs = e.hs
  BY <1>4, <1>6, <1>7 DEF Fine, Same
<1>9. Fine(r, w) /\ Passes(t, r)
  <2>1. \/ r = _start_shutdown(t)
        \/ ~e.hs /\ r = _h(t, c)
        \/ r = _r(t, c)
    BY <1>1, <1>2 DEF buffer_updated
  <2>2. CASE r = _start_shutdown(t)
    <3>1. Fine(r, w) /\ Keeps(t, r)
      BY <1>8, <2>2, StartShutdownKeeps DEF Keeps
    <3> QED BY <1>8, <3>1, KeepsPasses
  <2>3. CASE ~e.hs /\ r = _h(t, c)
    <3>1. Fine(r, w) /\ Keeps(t, r)
      BY <1>8, <2>3, HKeeps
    <3> QED BY <1>8, <3>1, KeepsPasses
  <2>4. CASE r = _r(t, c)
    BY <1>8, <2>4, RKeeps
  <2> QED BY <2>1, <2>2, <2>3, <2>4
<1> QED BY <1>4, <1>5, <1>7, <1>8, <1>9 DEF Passes

(* eof_received: the application is called, and the raw transport closed.  *)
LEMMA EofKeeps ==
    ASSUME NEW e, NEW w, Fine(e, w), NEW c \in Calls, NEW keep, NEW r, r = eof_received(e, c, keep)
    PROVE  Fine(r, w) /\ Keeps(e, r)
<1>1. PICK a : a = App(e, c)
  OBVIOUS
<1>2. Fine(a, w) /\ Keeps(e, a)
  BY <1>1, AppKeeps
<1>3. r = a \/ r = RawClose(a)
  BY <1>1 DEF eof_received
<1>4. CASE r = a
  BY <1>2, <1>4
<1>5. CASE r = RawClose(a)
  <2>1. Fine(r, w) /\ Keeps(a, r)
    BY <1>2, <1>5, RawCloseKeeps
  <2> QED BY <1>2, <2>1, KeepsTrans
<1> QED BY <1>3, <1>4, <1>5

(* connection_lost: nothing is promised of a lost connection.              *)
LEMMA LostKeeps ==
    ASSUME NEW e, NEW w, Fine(e, w), NEW r, r = connection_lost(e)
    PROVE  Fine(r, w) /\ Keeps(e, r) /\ r.raw = "lost"
<1>1. PICK t : t = IF Class[e.kind].wakes THEN Finish(e, "failed") ELSE e
  OBVIOUS
<1>2. Fine(t, w) /\ Keeps(e, t)
  <2>1. Fine(e, w) /\ Keeps(e, e)
    BY DEF Keeps, Reads
  <2>2. CASE t = e
    BY <2>1, <2>2
  <2>3. CASE t = Finish(e, "failed")
    BY <2>3, FinishKeeps
  <2> QED BY <1>1, <2>2, <2>3
<1>3. PICK x : x = Class[e.kind].releases
  OBVIOUS
<1>4. r = [t EXCEPT !.raw = "lost", !.running = FALSE, !.released = x]
  BY <1>1, <1>3 DEF connection_lost
<1>5. Shape(t)
  BY <1>2, FineShape
<1>6. /\ r.buf = t.buf /\ r.outgoing = t.outgoing /\ Shape(r) /\ r.stalled = t.stalled
      /\ r.kind = t.kind /\ r.started = t.started /\ r.hs = t.hs
      /\ r.shut = t.shut /\ r.broken = t.broken /\ r.kept = t.kept /\ r.bytes = t.bytes
      /\ r.given = t.given /\ r.incoming = t.incoming /\ r.queue = t.queue /\ r.full = t.full
      /\ r.paused = t.paused /\ r.raw = "lost"
  BY <1>4, <1>5 DEF Shape
<1>7. Sound(r)
  BY <1>2, <1>6 DEF Fine, Sound, Plain
<1>8. \A b : Held(r, <<>>, b) = Held(t, <<>>, b) /\ Sent(r, w, b) = Sent(t, w, b)
  BY <1>6 DEF Held, Sent
<1>9. Flow(r, w, <<>>)
  BY <1>2, <1>6, <1>8 DEF Fine, Flow
<1>10. Keeps(t, r)
  BY <1>6 DEF Keeps, Reads, Parked
<1> QED BY <1>2, <1>6, <1>7, <1>9, <1>10, KeepsTrans DEF Fine

-----------------------------------------------------------------------------
(* resume_writing                                                          *)

(* The kernel has taken the first record of the queue.                     *)
Drains(e, r) ==
    /\ Shape(r) /\ r.queue = Tail(e.queue)
    /\ r.buf = e.buf /\ r.outgoing = e.outgoing /\ r.stalled = e.stalled
    /\ r.kind = e.kind /\ r.started = e.started /\ r.hs = e.hs /\ r.released = e.released
    /\ r.shut = e.shut /\ r.broken = e.broken /\ r.kept = e.kept /\ r.bytes = e.bytes
    /\ r.given = e.given /\ r.incoming = e.incoming /\ r.raw = e.raw

(* The record has moved to the peer, and is where it was in the stream.    *)
LEMMA DrainFlow ==
    ASSUME NEW e, NEW w, Fine(e, w), e.queue # <<>>, NEW r, Drains(e, r),
           r.paused => Class[r.kind].pauses,
           r.raw = "open" /\ r.paused => r.full,
           r.raw = "open" /\ r.full => Len(r.queue) > Low,
           NEW v, v = Append(w, Head(e.queue))
    PROVE  Fine(r, v) /\ Reads(e, r)
<1>1. Plain(e) /\ Sound(e) /\ Flow(e, w, <<>>) /\ w \in Seq(Int) /\ e.queue \in Seq(Int)
  BY FineShape DEF Fine, Flow, Plain
<1>2. PICK x, z : x = Head(e.queue) /\ z = Tail(e.queue)
  OBVIOUS
<1>3. x \in Int /\ z \in Seq(Int) /\ e.queue = <<x>> \o z
      /\ \A b : Count(b, e.queue) = (IF b = x THEN 1 ELSE 0) + Count(b, z)
  BY <1>1, <1>2, CountHead
<1>4. r.queue = z /\ v = Append(w, x)
  BY <1>2 DEF Drains
<1>5. Sound(r)
  BY <1>1, <1>3, <1>4 DEF Sound, Plain, Drains
<1>6. v \in Seq(Int) /\ \A b : Count(b, v) = Count(b, w) + IF b = x THEN 1 ELSE 0
  BY <1>1, <1>3, <1>4, CountAppend
<1>7. ASSUME NEW b PROVE Held(r, <<>>, b) = Held(e, <<>>, b) /\ Sent(r, v, b) = Sent(e, w, b)
  <2>1. Held(r, <<>>, b) = Held(e, <<>>, b)
    BY DEF Held, Drains
  <2>2. Count(b, w) \in Nat /\ Count(b, z) \in Nat
    BY <1>1, <1>3, CountNat
  <2>3. Count(b, e.queue) = (IF b = x THEN 1 ELSE 0) + Count(b, z)
    BY <1>3
  <2>4. Count(b, v) = Count(b, w) + IF b = x THEN 1 ELSE 0
    BY <1>6
  <2>5. Sent(r, v, b) = Sent(e, w, b)
    BY <1>4, <2>2, <2>3, <2>4 DEF Sent
  <2> QED BY <2>1, <2>5
<1>8. v \o r.queue = w \o e.queue
  <2>1. PICK y : y = <<x>>
    OBVIOUS
  <2>2. y \in Seq(Int) /\ v = w \o y
    BY <1>1, <1>3, <1>4, <2>1
  <2>3. (w \o y) \o z = w \o (y \o z)
    BY <1>1, <1>3, <2>2, Assoc
  <2> QED BY <1>3, <1>4, <2>1, <2>2, <2>3
<1>9. r.outgoing = e.outgoing /\ r.kept = e.kept /\ r.bytes = e.bytes
      /\ r.shut = e.shut /\ r.broken = e.broken /\ r.raw = e.raw
  BY DEF Drains
<1>10. Flow(r, v, <<>>)
  BY <1>1, <1>6, <1>7, <1>8, <1>9 DEF Flow
<1> QED BY <1>5, <1>10 DEF Fine, Reads, Drains

(* A record leaves the queue; below the low-water mark writing resumes,    *)
(* and what was buffered is written.                                       *)
Drained(e, c) ==
    LET t == [e EXCEPT !.queue = Tail(@)]
    IN  IF t.full /\ Len(t.queue) <= Low /\ t.raw = "open"
        THEN resume_writing([t EXCEPT !.full = FALSE], c)
        ELSE t

(* When writing resumes, _flush_write_buffer leaves nothing that could be  *)
(* written.                                                                *)
LEMMA DrainKeeps ==
    ASSUME NEW e, NEW w, Fine(e, w), e.queue # <<>>, NEW c \in Calls, NEW r, r = Drained(e, c),
           NEW v, v = Append(w, Head(e.queue))
    PROVE  Fine(r, v) /\ Keeps(e, r)
<1>0. PICK t : t = [e EXCEPT !.queue = Tail(@)]
  OBVIOUS
<1>1. Shape(e) /\ Plain(e) /\ e.queue \in Seq(Int)
  BY FineShape DEF Plain
<1>2. Tail(e.queue) \in Seq(Int)
  BY <1>1, CountHead
<1>3. Drains(e, t) /\ t.full = e.full /\ t.paused = e.paused
  BY <1>0, <1>1 DEF Shape, Drains
<1>4. Len(t.queue) \in Nat /\ Low \in Nat
  BY <1>2, <1>3, TlsAssumption DEF Drains
<1>5. CASE ~(t.full /\ Len(t.queue) <= Low /\ t.raw = "open")
  <2>1. r = t
    BY <1>0, <1>5 DEF Drained
  <2>2. t.paused => Class[t.kind].pauses
    BY <1>1, <1>3 DEF Drains, Plain
  <2>3. t.raw = "open" /\ t.paused => t.full
    BY <1>1, <1>3 DEF Drains, Plain
  <2>4. t.raw = "open" /\ t.full => Len(t.queue) > Low
    BY <1>4, <1>5
  <2>5. Fine(t, v) /\ Reads(e, t)
    BY <1>3, <2>2, <2>3, <2>4, DrainFlow
  <2>6. Parked(e) => Parked(t)
    BY <1>3 DEF Parked, Drains
  <2> QED BY <2>1, <2>5, <2>6 DEF Keeps
<1>6. CASE t.full /\ Len(t.queue) <= Low /\ t.raw = "open"
  <2>1. PICK m : m = [t EXCEPT !.full = FALSE]
    OBVIOUS
  <2>2. r = resume_writing(m, c)
    BY <1>0, <1>6, <2>1 DEF Drained
  <2>3. Shape(t)
    BY <1>3 DEF Drains
  <2>4. Drains(e, m) /\ ~m.full /\ m.paused = e.paused
    BY <1>3, <2>1, <2>3 DEF Shape, Drains
  <2>5. CASE ~Class[m.kind].pauses
    <3>1. r = m
      BY <2>2, <2>5 DEF resume_writing
    <3>2. ~m.paused
      BY <1>1, <2>4, <2>5 DEF Drains, Plain
    <3>3. Fine(m, v) /\ Reads(e, m)
      BY <2>4, <3>2, DrainFlow
    <3>4. Parked(e) => Parked(m)
      BY <2>4 DEF Parked, Drains
    <3> QED BY <3>1, <3>3, <3>4 DEF Keeps
  <2>6. CASE Class[m.kind].pauses
    <3>1. PICK n : n = [m EXCEPT !.paused = FALSE]
      OBVIOUS
    <3>2. r = _f(_flush_write_buffer(App(n, c)))
      BY <2>2, <2>6, <3>1 DEF resume_writing
    <3>3. Shape(m)
      BY <2>4 DEF Drains
    <3>4. Drains(e, n) /\ ~n.full /\ ~n.paused
      BY <2>4, <3>1, <3>3 DEF Shape, Drains
    <3>5. Fine(n, v) /\ Reads(e, n)
      BY <3>4, DrainFlow
    <3>6. PICK a : a = App(n, c)
      OBVIOUS
    <3>7. Fine(a, v) /\ Keeps(n, a)
      BY <3>5, <3>6, AppKeeps
    <3>8. PICK b : b = _flush_write_buffer(a)
      OBVIOUS
    <3>9. Fine(b, v) /\ Reads(a, b) /\ Parked(b)
      BY <3>7, <3>8, FlushKeeps
    <3>10. r = _f(b)
      BY <3>2, <3>6, <3>8
    <3>11. Fine(r, v) /\ Keeps(b, r)
      BY <3>9, <3>10, FFine
    <3>12. Reads(e, a)
      BY <3>5, <3>7, ReadsTrans DEF Keeps
    <3>13. Reads(e, b)
      BY <3>9, <3>12, ReadsTrans
    <3> QED BY <3>9, <3>11, <3>13, ReadsTrans DEF Keeps
  <2> QED BY <2>5, <2>6
<1> QED BY <1>5, <1>6

-----------------------------------------------------------------------------
(* The invariant of the whole.                                             *)

Upto(n) == [i \in 1 .. n |-> i]

(* What the peer has sent: the application was given the beginning of it,  *)
(* and as long as the connection is there the rest is in incoming or in n. *)
Arrives(e, n, p) ==
    /\ {"data", "ended"} \subseteq DOMAIN p /\ p.data \in Nat
    /\ n \in Seq(Int) /\ e.given \in Seq(Int)
    /\ e.given = Upto(Len(e.given))
    /\ e.raw # "lost" => (e.given \o Data(e.incoming)) \o Data(n) = Upto(p.data)
    /\ \A i \in DOMAIN n : n[i] = Fin => i = Len(n) /\ p.ended = "fin"

TlsInv == Fine(s, wire) /\ Parked(s) /\ Arrives(s, net, peer)

(* A step that gives nothing keeps the order of what arrives.              *)
LEMMA KeepsArrives ==
    ASSUME NEW e, NEW r, NEW n, NEW p, Arrives(e, n, p), Keeps(e, r)
    PROVE  Arrives(r, n, p)
BY DEF Arrives, Keeps, Reads

(* Most steps change the endpoint only.                                    *)
LEMMA KeepsInv ==
    ASSUME TlsInv, Fine(s', wire), Keeps(s, s'), UNCHANGED <<net, wire, peer>>
    PROVE  TlsInv'
<1>1. Fine(s', wire') /\ Parked(s')
  BY DEF TlsInv, Keeps
<1>2. Arrives(s', net, peer)
  BY KeepsArrives DEF TlsInv
<1>3. Arrives(s', net', peer')
  BY <1>2
<1> QED BY <1>1, <1>3 DEF TlsInv

(* At first nothing is under way.                                          *)
LEMMA InitTls ==
    ASSUME Init PROVE TlsInv
<1> DEFINE First(k, side, w, early) ==
        /\ s = [kind |-> k, side |-> side, wait |-> w,
                started |-> FALSE, hs |-> FALSE, running |-> TRUE,
                paused |-> FALSE, released |-> FALSE,
                incoming |-> [i \in 1 .. early |-> Flight], outgoing |-> <<>>,
                flights |-> 0, needs |-> FALSE, shut |-> FALSE, broken |-> FALSE,
                closing |-> FALSE, timer |-> FALSE, buf |-> <<>>,
                raw |-> "open", queue |-> <<>>, full |-> FALSE,
                given |-> <<>>,
                waiter |-> IF w = "nobody" THEN "done" ELSE "pending",
                opener |-> IF w = "nobody" THEN "none" ELSE "waiting",
                bytes |-> 0, kept |-> {}, stalled |-> FALSE]
        /\ net = <<>>
        /\ wire = <<>>
        /\ peer = [flights |-> early, data |-> 0, asked |-> FALSE,
                   answered |-> FALSE, ended |-> "no"]
<1>0. PICK k, side, w, early : early \in EarlyFlights(k, side) /\ First(k, side, w, early)
  <2>1. \E k \in Kinds : \E side \in Class[k].sides, w \in Class[k].wait :
           \E early \in EarlyFlights(k, side) : First(k, side, w, early)
    BY Zenon DEF Init
  <2> HIDE DEF First
  <2> QED BY <2>1, Zenon
<1>1. early \in 0 .. 1 /\ First(k, side, w, early)
  BY <1>0 DEF EarlyFlights
<1>2. /\ Shape(s) /\ s.incoming = [i \in 1 .. early |-> Flight] /\ s.outgoing = <<>>
      /\ s.queue = <<>> /\ s.buf = <<>> /\ s.bytes = 0 /\ s.kept = {} /\ s.given = <<>>
      /\ ~s.released /\ ~s.shut /\ ~s.hs /\ ~s.paused /\ ~s.full /\ s.raw = "open"
  BY <1>1 DEF Shape
<1>3. s.incoming \in Seq(Int) /\ Data(s.incoming) = <<>>
  <2>1. CASE early = 0
    <3>1. s.incoming = <<>>
      BY <1>2, <2>1
    <3> QED BY <3>1, DataEmpty
  <2>2. CASE early = 1
    <3>1. PICK x : x = <<>>
      OBVIOUS
    <3>2. s.incoming = Append(x, Flight)
      BY <1>2, <2>2, <3>1
    <3>3. x \in Seq(Int) /\ Flight \in Int /\ ~IsData(Flight)
      BY <3>1 DEF Flight, IsData
    <3>4. Data(Append(x, Flight)) = Data(x)
      BY <3>3, DataAppend
    <3>5. Append(x, Flight) \in Seq(Int)
      BY <3>3
    <3> QED BY <3>1, <3>2, <3>4, <3>5, DataEmpty
  <2> QED BY <1>1, <2>1, <2>2
<1>4. Sound(s)
  <2>1. s.outgoing \in Seq(Int) /\ s.queue \in Seq(Int) /\ s.buf \in Seq(Seq(Int))
        /\ s.bytes \in Nat /\ s.kept \subseteq 1 .. s.bytes
    BY <1>2
  <2> QED BY <1>2, <1>3, <2>1 DEF Sound, Plain
<1>5. \A b : Held(s, <<>>, b) = 0 /\ Sent(s, wire, b) = 0 /\ Count(b, s.outgoing) = 0
  BY <1>1, <1>2, FlattenEmpty, CountEmpty DEF Held, Sent
<1>6. Ended(wire \o s.queue)
  <2>1. wire \o s.queue = <<>>
    BY <1>1, <1>2
  <2> QED BY <2>1 DEF Ended
<1>7. Flow(s, wire, <<>>)
  <2>1. wire \in Seq(Int) /\ <<>> \in Seq(Int)
    BY <1>1
  <2> QED BY <1>2, <1>5, <1>6, <2>1 DEF Flow
<1>8. Parked(s)
  BY <1>2 DEF Parked
<1>9. Arrives(s, net, peer)
  <2>1. Data(net) = <<>> /\ Upto(0) = <<>> /\ (<<>> \o <<>>) \o <<>> = <<>> /\ Len(<<>>) = 0
    BY <1>1, DataEmpty DEF Upto
  <2>2. {"data", "ended"} \subseteq DOMAIN peer /\ peer.data = 0
    BY <1>1
  <2>3. net \in Seq(Int) /\ s.given \in Seq(Int) /\ DOMAIN net = {}
    BY <1>1, <1>2
  <2> QED BY <1>2, <1>3, <2>1, <2>2, <2>3 DEF Arrives
<1> QED BY <1>4, <1>7, <1>8, <1>9 DEF TlsInv, Fine

(* The parts of a concatenation.                                           *)
LEMMA Parts ==
    ASSUME NEW g \in Seq(Int), NEW z \in Seq(Int), NEW u, u = g \o z
    PROVE  /\ u \in Seq(Int) /\ Len(g) \in Nat /\ Len(z) \in Nat /\ Len(u) = Len(g) + Len(z)
           /\ \A i \in 1 .. Len(g) : u[i] = g[i]
OBVIOUS

(* The beginning of Upto is an Upto.                                       *)
LEMMA UptoPrefix ==
    ASSUME NEW g \in Seq(Int), NEW z \in Seq(Int), NEW n \in Nat, g \o z = Upto(n)
    PROVE  g = Upto(Len(g))
<1>1. PICK u : u = g \o z
  OBVIOUS
<1>2. PICK k : k = Len(g)
  OBVIOUS
<1>3. k \in Nat /\ u \in Seq(Int) /\ Len(u) = k + Len(z) /\ Len(z) \in Nat
  BY <1>1, <1>2, Parts
<1>4. \A i \in 1 .. k : u[i] = g[i]
  BY <1>1, <1>2, Parts
<1>5. DOMAIN u = 1 .. n /\ \A i \in 1 .. n : u[i] = i
  BY <1>1 DEF Upto
<1>6. Len(u) = n
  BY <1>3, <1>5
<1>7. \A i \in 1 .. k : g[i] = i
  BY <1>3, <1>4, <1>5, <1>6
<1>8. g = [i \in 1 .. k |-> g[i]]
  BY <1>2
<1>9. g = [i \in 1 .. k |-> i]
  BY <1>7, <1>8
<1> QED BY <1>2, <1>9 DEF Upto

(* The peer sends one chunk more.                                          *)
LEMMA UptoNext ==
    ASSUME NEW n \in Nat
    PROVE  Append(Upto(n), n + 1) = Upto(n + 1) /\ Upto(n) \in Seq(Int)
BY DEF Upto

-----------------------------------------------------------------------------
(* The actions of the loop thread.                                         *)

Four(g, i, r, z) == (g \o (i \o r)) \o z = (g \o i) \o (r \o z)

(* Four sequences, grouped differently.                                    *)
LEMMA Regroup4 ==
    ASSUME NEW g \in Seq(Int), NEW i \in Seq(Int), NEW r \in Seq(Int), NEW z \in Seq(Int)
    PROVE  Four(g, i, r, z)
<1>1. PICK x, y : x = g \o i /\ y = i \o r
  OBVIOUS
<1>2. x \in Seq(Int)
  BY <1>1, Parts
<1>3. (g \o i) \o r = g \o (i \o r)
  BY Assoc
<1>4. (x \o r) \o z = x \o (r \o z)
  BY <1>2, Assoc
<1> QED BY <1>1, <1>3, <1>4 DEF Four

(* connection_made of the raw transport.                                   *)
LEMMA ConnectInv ==
    ASSUME TlsInv, NEW c \in Calls, Connect(c) PROVE TlsInv'
<1>1. Fine(s, wire) /\ ~s.hs
  BY FineShape DEF TlsInv, Connect, Plain
<1>2. Fine(s', wire) /\ Keeps(s, s')
  BY <1>1, HKeeps DEF Connect
<1> QED BY <1>2, KeepsInv DEF Connect

(* A read: what is delivered leaves the network, and is given or kept, in  *)
(* order.                                                                  *)
LEMMA DeliverInv ==
    ASSUME TlsInv, NEW c \in Calls, Deliver(c) PROVE TlsInv'
<1>1. PICK n \in 1 .. Len(net) : /\ s' = buffer_updated(s, SubSeq(net, 1, n), c)
                                 /\ net' = SubSeq(net, n + 1, Len(net))
  BY DEF Deliver
<1>2. s.raw # "lost" /\ wire' = wire /\ peer' = peer
  BY DEF Deliver
<1>3. Fine(s, wire) /\ Parked(s) /\ Arrives(s, net, peer)
  BY DEF TlsInv
<1>4. net \in Seq(Int) /\ s.given \in Seq(Int) /\ peer.data \in Nat
      /\ (s.given \o Data(s.incoming)) \o Data(net) = Upto(peer.data)
      /\ \A i \in DOMAIN net : net[i] = Fin => i = Len(net) /\ peer.ended = "fin"
  BY <1>2, <1>3 DEF Arrives
<1>5. PICK records : records = SubSeq(net, 1, n)
  OBVIOUS
<1>6. PICK z : z = SubSeq(net, n + 1, Len(net))
  OBVIOUS
<1>7. Begins(net, records, z)
  <2>1. n \in 0 .. Len(net)
    BY <1>4
  <2> QED BY <1>4, <1>5, <1>6, <2>1, CutBegins
<1>8. records \in Seq(Int) /\ z \in Seq(Int) /\ net' = z
  BY <1>1, <1>6, <1>7 DEF Begins
<1>9. /\ Fine(s', wire) /\ Parked(s') /\ s'.given \in Seq(Int)
      /\ s'.given \o Data(s'.incoming) = s.given \o (Data(s.incoming) \o Data(records))
  <2>1. s' = buffer_updated(s, records, c)
    BY <1>1, <1>5
  <2> QED BY <1>3, <1>4, <1>8, <2>1, UpdatedKeeps
<1>10. Data(net) = Data(records) \o Data(z)
  BY <1>7, DataBegins
<1>11. s.incoming \in Seq(Int) /\ s'.incoming \in Seq(Int)
  BY <1>3, <1>9, FineShape DEF Plain
<1>12. /\ Data(s.incoming) \in Seq(Int) /\ Data(s'.incoming) \in Seq(Int)
       /\ Data(records) \in Seq(Int) /\ Data(z) \in Seq(Int)
  BY <1>8, <1>11, DataType
<1>13. (s'.given \o Data(s'.incoming)) \o Data(z) = Upto(peer.data)
  <2>1. (s.given \o (Data(s.incoming) \o Data(records))) \o Data(z)
          = (s.given \o Data(s.incoming)) \o (Data(records) \o Data(z))
    <3>1. Four(s.given, Data(s.incoming), Data(records), Data(z))
      BY <1>4, <1>12, Regroup4
    <3> QED BY <3>1 DEF Four
  <2> QED BY <1>4, <1>9, <1>10, <2>1
<1>14. s'.given = Upto(Len(s'.given))
  <2>1. PICK g, a, b : g = s'.given /\ a = Data(s'.incoming) /\ b = Data(z)
    OBVIOUS
  <2>2. g \in Seq(Int) /\ a \in Seq(Int) /\ b \in Seq(Int)
    BY <1>9, <1>12, <2>1
  <2>3. (g \o a) \o b = g \o (a \o b)
    BY <2>2, Assoc
  <2>4. PICK u : u = a \o b
    OBVIOUS
  <2>5. u \in Seq(Int)
    BY <2>2, <2>4, Parts
  <2>6. g \o u = Upto(peer.data)
    BY <1>13, <2>1, <2>3, <2>4
  <2>7. g = Upto(Len(g))
    BY <1>4, <2>2, <2>5, <2>6, UptoPrefix
  <2> QED BY <2>1, <2>7
<1>15. \A i \in DOMAIN z : z[i] = Fin => i = Len(z) /\ peer.ended = "fin"
  <2>1. SUFFICES ASSUME NEW i \in DOMAIN z, z[i] = Fin
                 PROVE  i = Len(z) /\ peer.ended = "fin"
    OBVIOUS
  <2>2. PICK m, k : m = Len(net) /\ k = Len(z)
    OBVIOUS
  <2>3. m \in Nat /\ n \in 1 .. m /\ k \in Nat /\ m = n + k /\ i \in 1 .. k
    <3>1. m \in Nat /\ n \in 1 .. m /\ i \in 1 .. k /\ k \in Nat
      BY <1>4, <1>8, <2>1, <2>2
    <3>2. Len(records) = n
      BY <1>4, <1>5, <2>2, <3>1
    <3>3. m = Len(records) + k
      BY <1>7, <2>2, Parts DEF Begins
    <3> QED BY <3>1, <3>2, <3>3
  <2>4. z[i] = net[n + i]
    <3>1. net = records \o z /\ records \in Seq(Int) /\ z \in Seq(Int)
      BY <1>7 DEF Begins
    <3>2. Len(records) = n
      BY <1>4, <1>5, <2>2, <2>3
    <3>3. (records \o z)[Len(records) + i] = z[i]
      BY <2>2, <2>3, <3>1
    <3> QED BY <3>1, <3>2, <3>3
  <2>5. n + i \in DOMAIN net /\ net[n + i] = Fin
    <3>1. DOMAIN net = 1 .. m
      BY <1>4, <2>2
    <3>2. n + i \in 1 .. m
      BY <2>3
    <3> QED BY <2>1, <2>4, <3>1, <3>2
  <2>6. n + i = m /\ peer.ended = "fin"
    BY <1>4, <2>2, <2>5
  <2> QED BY <2>2, <2>3, <2>6
<1>16. Arrives(s', net', peer')
  BY <1>2, <1>3, <1>8, <1>9, <1>13, <1>14, <1>15 DEF Arrives
<1> QED BY <1>2, <1>9, <1>16 DEF TlsInv

(* The end of the stream: nothing follows it.                              *)
LEMMA DeliverEofInv ==
    ASSUME TlsInv, NEW c \in Calls, NEW keep, DeliverEof(c, keep) PROVE TlsInv'
<1>1. /\ s' = eof_received(s, c, keep) /\ net' = <<>> /\ net # <<>> /\ Head(net) = Fin
      /\ wire' = wire /\ peer' = peer
  BY DEF DeliverEof
<1>2. Fine(s', wire) /\ Keeps(s, s')
  BY <1>1, EofKeeps DEF TlsInv
<1>3. Arrives(s', net, peer) /\ Parked(s')
  BY <1>2, KeepsArrives DEF TlsInv, Keeps
<1>4. Data(net) = <<>>
  <2>1. net \in Seq(Int) /\ \A i \in DOMAIN net : net[i] = Fin => i = Len(net)
    BY <1>3 DEF Arrives
  <2>2. 1 \in DOMAIN net /\ net[1] = Fin
    BY <1>1, <2>1
  <2>3. Len(net) = 1
    BY <2>1, <2>2
  <2>4. PICK x : x = <<>>
    OBVIOUS
  <2>5. Fin \in Int /\ ~IsData(Fin) /\ x \in Seq(Int)
    BY <2>4 DEF Fin, IsData
  <2>6. net = Append(x, Fin)
    BY <2>1, <2>2, <2>3, <2>4
  <2>7. Data(Append(x, Fin)) = Data(x)
    BY <2>5, DataAppend
  <2> QED BY <2>4, <2>6, <2>7, DataEmpty
<1>5. net' \in Seq(Int) /\ DOMAIN net' = {} /\ Data(net') = <<>>
  BY <1>1, DataEmpty
<1>6. Arrives(s', net', peer')
  BY <1>1, <1>3, <1>4, <1>5 DEF Arrives
<1> QED BY <1>1, <1>2, <1>3, <1>6 DEF TlsInv

(* The kernel takes a record.                                              *)
LEMMA DrainInv ==
    ASSUME TlsInv, NEW c \in Calls, Drain(c) PROVE TlsInv'
<1>1. /\ s.queue # <<>> /\ wire' = Append(wire, Head(s.queue)) /\ net' = net /\ peer' = peer
      /\ s' = Drained(s, c)
  BY DEF Drain, Drained
<1>2. Fine(s, wire)
  BY DEF TlsInv
<1>3. Fine(s', wire') /\ Keeps(s, s')
  BY <1>1, <1>2, DrainKeeps
<1>4. Arrives(s', net, peer) /\ Parked(s')
  BY <1>3, KeepsArrives DEF TlsInv, Keeps
<1> QED BY <1>1, <1>3, <1>4 DEF TlsInv

(* The connection is reset.                                                *)
LEMMA ResetInv ==
    ASSUME TlsInv, Reset PROVE TlsInv'
<1>1. Fine(s', wire) /\ Keeps(s, s')
  BY EmptyKeeps DEF TlsInv, Reset
<1> QED BY <1>1, KeepsInv DEF Reset

(* The connection is lost: what is under way will not be read.             *)
LEMMA LostInv ==
    ASSUME TlsInv, Lost PROVE TlsInv'
<1>1. s' = connection_lost(s) /\ net' = <<>> /\ wire' = wire /\ peer' = peer
  BY DEF Lost
<1>2. Fine(s', wire) /\ Keeps(s, s') /\ s'.raw = "lost"
  BY <1>1, LostKeeps DEF TlsInv
<1>3. Arrives(s', net, peer) /\ Parked(s')
  BY <1>2, KeepsArrives DEF TlsInv, Keeps
<1>4. net' \in Seq(Int) /\ DOMAIN net' = {}
  BY <1>1
<1>5. Arrives(s', net', peer')
  BY <1>1, <1>2, <1>3, <1>4 DEF Arrives
<1> QED BY <1>1, <1>2, <1>3, <1>5 DEF TlsInv

(* The application uses the transport.                                     *)
LEMMA UseInv ==
    ASSUME TlsInv, NEW c \in Calls, Use(c) PROVE TlsInv'
<1>1. Fine(s', wire) /\ Keeps(s, s')
  BY AppKeeps DEF TlsInv, Use
<1> QED BY <1>1, KeepsInv DEF Use

(* The peer did not answer close_notify in time.                           *)
LEMMA TimeoutInv ==
    ASSUME TlsInv, ShutdownTimeout PROVE TlsInv'
<1>1. Fine(s', wire) /\ Keeps(s, s')
  BY ForceCloseKeeps DEF TlsInv, ShutdownTimeout
<1> QED BY <1>1, KeepsInv DEF ShutdownTimeout

(* The opener gives up.                                                    *)
LEMMA OpenFailsKeeps ==
    ASSUME NEW e, NEW w, Fine(e, w), NEW r, r = OpenFails(e)
    PROVE  Fine(r, w) /\ Keeps(e, r)
<1>1. PICK m : m = [e EXCEPT !.waiter = "done", !.opener = "failed"]
  OBVIOUS
<1>2. Shape(e)
  BY FineShape
<1>3. Rests(e, m) /\ m.hs = e.hs /\ m.started = e.started
  BY <1>1, <1>2 DEF Shape, Rests
<1>4. Fine(m, w) /\ Keeps(e, m)
  BY <1>3, RestsKeeps
<1>5. r = RawClose(m)
  BY <1>1 DEF OpenFails
<1> QED BY <1>4, <1>5, RawCloseKeeps, KeepsTrans

(* The steps of the coroutine that opens.                                  *)
LEMMA OpenerInv ==
    ASSUME TlsInv, OpenerWakes \/ OpenerCancelled \/ OpenerTimesOut PROVE TlsInv'
<1>1. Fine(s, wire) /\ Shape(s)
  BY FineShape DEF TlsInv
<1>2. UNCHANGED <<net, wire, peer>>
  BY DEF OpenerWakes, OpenerCancelled, OpenerTimesOut
<1>3. PICK f : f = Finish(s, "failed")
  OBVIOUS
<1>4. s' = [s EXCEPT !.opener = "ok"] \/ s' = OpenFails(s) \/ s' = RawClose(f)
  BY <1>3 DEF OpenerWakes, OpenerCancelled, OpenerTimesOut
<1>5. CASE s' = [s EXCEPT !.opener = "ok"]
  <2>1. Rests(s, s') /\ s'.hs = s.hs /\ s'.started = s.started
    BY <1>1, <1>5 DEF Shape, Rests
  <2>2. Fine(s', wire) /\ Keeps(s, s')
    BY <1>1, <2>1, RestsKeeps
  <2> QED BY <1>2, <2>2, KeepsInv
<1>6. CASE s' = OpenFails(s)
  <2>1. Fine(s', wire) /\ Keeps(s, s')
    BY <1>1, <1>6, OpenFailsKeeps
  <2> QED BY <1>2, <2>1, KeepsInv
<1>7. CASE s' = RawClose(f)
  <2>1. Fine(f, wire) /\ Keeps(s, f)
    BY <1>1, <1>3, FinishKeeps
  <2>2. Fine(s', wire) /\ Keeps(f, s')
    BY <1>7, <2>1, RawCloseKeeps
  <2>3. Keeps(s, s')
    BY <2>1, <2>2, KeepsTrans
  <2> QED BY <1>2, <2>2, <2>3, KeepsInv
<1> QED BY <1>4, <1>5, <1>6, <1>7

-----------------------------------------------------------------------------
(* The peer, and all steps.                                                *)

(* The peer sends a chunk, or something else.                              *)
LEMMA SendInv ==
    ASSUME TlsInv, NEW x \in Int, NEW p, Send(x, p), {"data", "ended"} \subseteq DOMAIN p,
           \/ ~IsData(x) /\ p.data = peer.data
           \/ IsData(x) /\ x = peer.data + 1 /\ p.data = peer.data + 1,
           x = Fin => p.ended = "fin"
    PROVE  TlsInv'
<1>1. /\ peer.ended # "fin" /\ s.raw # "lost" /\ net' = Append(net, x) /\ peer' = p
      /\ s' = s /\ wire' = wire
  BY DEF Send
<1>2. /\ net \in Seq(Int) /\ s.given \in Seq(Int) /\ peer.data \in Nat
      /\ s.given = Upto(Len(s.given))
      /\ (s.given \o Data(s.incoming)) \o Data(net) = Upto(peer.data)
      /\ \A i \in DOMAIN net : net[i] # Fin
  BY <1>1 DEF TlsInv, Arrives
<1>3. s.incoming \in Seq(Int)
  BY FineShape DEF TlsInv, Plain
<1>4. Data(s.incoming) \in Seq(Int) /\ Data(net) \in Seq(Int)
  BY <1>2, <1>3, DataType
<1>5. p.data \in Nat
  BY <1>2
<1>6. (s.given \o Data(s.incoming)) \o Data(Append(net, x)) = Upto(p.data)
  <2>1. CASE ~IsData(x) /\ p.data = peer.data
    <3>1. Data(Append(net, x)) = Data(net)
      BY <1>2, <2>1, DataAppend
    <3> QED BY <1>2, <2>1, <3>1
  <2>2. CASE IsData(x) /\ x = peer.data + 1 /\ p.data = peer.data + 1
    <3>1. Data(Append(net, x)) = Append(Data(net), x)
      BY <1>2, <2>2, DataAppend
    <3>2. PICK a, b : a = s.given \o Data(s.incoming) /\ b = Data(net)
      OBVIOUS
    <3>3. a \in Seq(Int) /\ b \in Seq(Int)
      BY <1>2, <1>4, <3>2, Parts
    <3>4. a \o Append(b, x) = Append(a \o b, x)
      BY <3>3, ConcatAppend
    <3>5. Append(Upto(peer.data), peer.data + 1) = Upto(peer.data + 1)
      BY <1>2, UptoNext
    <3> QED BY <1>2, <2>2, <3>1, <3>2, <3>4, <3>5
  <2> QED BY <2>1, <2>2
<1>7. Append(net, x) \in Seq(Int)
      /\ \A i \in DOMAIN Append(net, x) :
            Append(net, x)[i] = Fin => i = Len(Append(net, x)) /\ p.ended = "fin"
  <2>1. PICK q : q = Append(net, x)
    OBVIOUS
  <2>2. PICK n : n = Len(net)
    OBVIOUS
  <2>3. n \in Nat /\ q \in Seq(Int) /\ Len(q) = n + 1 /\ q[n + 1] = x /\ \A i \in 1 .. n : q[i] = net[i]
    BY <1>2, <2>1, <2>2
  <2>4. DOMAIN net = 1 .. n /\ DOMAIN q = 1 .. n + 1
    BY <1>2, <2>2, <2>3
  <2>5. ASSUME NEW i \in DOMAIN q, q[i] = Fin
        PROVE  i = Len(q) /\ p.ended = "fin"
    <3>1. i \in 1 .. n + 1 /\ i \notin 1 .. n
      BY <1>2, <2>3, <2>4, <2>5
    <3>2. i = n + 1
      BY <2>3, <3>1
    <3>3. x = Fin
      BY <2>3, <2>5, <3>2
    <3> QED BY <2>3, <3>2, <3>3
  <2> QED BY <2>1, <2>3, <2>5
<1>8. Arrives(s', net', peer')
  BY <1>1, <1>2, <1>5, <1>6, <1>7 DEF Arrives
<1> QED BY <1>1, <1>8 DEF TlsInv

(* The steps of the peer.                                                  *)
LEMMA PeerInv ==
    ASSUME TlsInv,
           \/ PeerFlight \/ PeerData \/ PeerRenegotiates \/ PeerAnswers
           \/ PeerCloses \/ PeerBreaks \/ PeerEnds
    PROVE  TlsInv'
<1>1. {"data", "ended"} \subseteq DOMAIN peer /\ peer.data \in Nat
  BY DEF TlsInv, Arrives
<1>2. Flight = 0 /\ Reneg = -1 /\ CloseNotify = -2 /\ Bad = -3 /\ Fin = -4
  BY DEF Flight, Reneg, CloseNotify, Bad, Fin
<1>3. ASSUME NEW x, NEW p, Send(x, p), x \in {0, -1, -2, -3, -4}, p.data = peer.data,
             {"data", "ended"} \subseteq DOMAIN p, x = -4 => p.ended = "fin"
      PROVE  TlsInv'
  <2>1. x \in Int /\ ~IsData(x) /\ (x = Fin => p.ended = "fin")
    BY <1>2, <1>3 DEF IsData
  <2> QED BY <1>3, <2>1, SendInv
<1>4. CASE PeerFlight
  <2>1. PICK p : p = [peer EXCEPT !.flights = @ + 1]
    OBVIOUS
  <2>2. p.data = peer.data /\ {"data", "ended"} \subseteq DOMAIN p
    BY <1>1, <2>1
  <2>3. Send(0, p)
    BY <1>2, <1>4, <2>1 DEF PeerFlight
  <2> QED BY <1>3, <2>2, <2>3
<1>5. CASE PeerData
  <2>1. PICK p : p = [peer EXCEPT !.data = @ + 1]
    OBVIOUS
  <2>2. p.data = peer.data + 1 /\ {"data", "ended"} \subseteq DOMAIN p
    BY <1>1, <2>1
  <2>3. PICK x : x = peer.data + 1
    OBVIOUS
  <2>4. Send(x, p)
    BY <1>5, <2>1, <2>3 DEF PeerData
  <2>5. x \in Int /\ IsData(x) /\ x # Fin
    BY <1>1, <1>2, <2>3 DEF IsData
  <2> QED BY <2>2, <2>3, <2>4, <2>5, SendInv
<1>6. CASE PeerRenegotiates
  <2>1. PICK p : p = [peer EXCEPT !.asked = TRUE]
    OBVIOUS
  <2>2. p.data = peer.data /\ {"data", "ended"} \subseteq DOMAIN p
    BY <1>1, <2>1
  <2>3. Send(-1, p)
    BY <1>2, <1>6, <2>1 DEF PeerRenegotiates
  <2> QED BY <1>3, <2>2, <2>3
<1>7. CASE PeerAnswers
  <2>1. PICK p : p = [peer EXCEPT !.answered = TRUE]
    OBVIOUS
  <2>2. p.data = peer.data /\ {"data", "ended"} \subseteq DOMAIN p
    BY <1>1, <2>1
  <2>3. Send(0, p)
    BY <1>2, <1>7, <2>1 DEF PeerAnswers
  <2> QED BY <1>3, <2>2, <2>3
<1>8. CASE PeerCloses
  <2>1. PICK p : p = [peer EXCEPT !.ended = "cn"]
    OBVIOUS
  <2>2. p.data = peer.data /\ {"data", "ended"} \subseteq DOMAIN p
    BY <1>1, <2>1
  <2>3. Send(-2, p)
    BY <1>2, <1>8, <2>1 DEF PeerCloses
  <2> QED BY <1>3, <2>2, <2>3
<1>9. CASE PeerBreaks
  <2>1. PICK p : p = [peer EXCEPT !.ended = "cn"]
    OBVIOUS
  <2>2. p.data = peer.data /\ {"data", "ended"} \subseteq DOMAIN p
    BY <1>1, <2>1
  <2>3. Send(-3, p)
    BY <1>2, <1>9, <2>1 DEF PeerBreaks
  <2> QED BY <1>3, <2>2, <2>3
<1>10. CASE PeerEnds
  <2>1. PICK p : p = [peer EXCEPT !.ended = "fin"]
    OBVIOUS
  <2>2. p.data = peer.data /\ {"data", "ended"} \subseteq DOMAIN p /\ p.ended = "fin"
    BY <1>1, <2>1
  <2>3. Send(-4, p)
    BY <1>2, <1>10, <2>1 DEF PeerEnds
  <2> QED BY <1>3, <2>2, <2>3
<1> QED BY <1>4, <1>5, <1>6, <1>7, <1>8, <1>9, <1>10

(* Every step preserves the invariant.                                     *)
LEMMA StepTls ==
    ASSUME TlsInv, [Next]_vars PROVE TlsInv'
<1>1. ASSUME NEW c \in Calls, Connect(c) PROVE TlsInv'
  BY <1>1, ConnectInv
<1>2. ASSUME NEW c \in Calls, Deliver(c) PROVE TlsInv'
  BY <1>2, DeliverInv
<1>3. ASSUME NEW c \in Calls, NEW keep \in BOOLEAN, DeliverEof(c, keep) PROVE TlsInv'
  BY <1>3, DeliverEofInv
<1>4. ASSUME NEW c \in Calls, Drain(c) PROVE TlsInv'
  BY <1>4, DrainInv
<1>5. CASE Reset
  BY <1>5, ResetInv
<1>6. CASE Lost
  BY <1>6, LostInv
<1>7. ASSUME NEW c \in Calls \ {"return"}, Use(c) PROVE TlsInv'
  BY <1>7, UseInv
<1>8. CASE ShutdownTimeout
  BY <1>8, TimeoutInv
<1>9. CASE OpenerWakes \/ OpenerCancelled \/ OpenerTimesOut
  BY <1>9, OpenerInv
<1>10. CASE \/ PeerFlight \/ PeerData \/ PeerRenegotiates \/ PeerAnswers
            \/ PeerCloses \/ PeerBreaks \/ PeerEnds
  BY <1>10, PeerInv
<1>11. CASE UNCHANGED vars
  <2>1. s' = s /\ net' = net /\ wire' = wire /\ peer' = peer
    BY <1>11 DEF vars
  <2> QED BY <2>1 DEF TlsInv
<1> QED BY <1>1, <1>2, <1>3, <1>4, <1>5, <1>6, <1>7, <1>8, <1>9, <1>10, <1>11, Zenon DEF Next

(* The invariant holds throughout.                                         *)
LEMMA TlsAlways == Spec => []TlsInv
<1>1. Init => TlsInv
  BY InitTls
<1>2. TlsInv /\ [Next]_vars => TlsInv'
  BY StepTls
<1> QED BY <1>1, <1>2, PTL DEF Spec

-----------------------------------------------------------------------------
(* The properties.                                                         *)

(* What the invariant says of the bytes that were written.                 *)
LEMMA ImpliesNothingDropped ==
    ASSUME TlsInv PROVE NothingDropped
<1>1. SUFFICES ASSUME s.raw = "open", ~s.broken, NEW b \in s.kept
               PROVE  Count(b, ((FlattenSeq(s.buf) \o s.outgoing) \o s.queue) \o wire) = 1
  BY DEF NothingDropped
<1>2. Plain(s) /\ Flow(s, wire, <<>>) /\ wire \in Seq(Int)
  BY FineShape DEF TlsInv, Fine, Flow
<1>3. PICK f, o, q : f = FlattenSeq(s.buf) /\ o = s.outgoing /\ q = s.queue
  OBVIOUS
<1>4. f \in Seq(Int) /\ o \in Seq(Int) /\ q \in Seq(Int)
  BY <1>2, <1>3, FlattenType DEF Plain
<1>5. PICK x : x = f \o o
  OBVIOUS
<1>6. x \in Seq(Int) /\ Count(b, x) = Count(b, f) + Count(b, o)
  BY <1>4, <1>5, CountConcat
<1>7. PICK y : y = x \o q
  OBVIOUS
<1>8. y \in Seq(Int) /\ Count(b, y) = Count(b, x) + Count(b, q)
  BY <1>4, <1>6, <1>7, CountConcat
<1>9. Count(b, y \o wire) = Count(b, y) + Count(b, wire)
  BY <1>2, <1>8, CountConcat
<1>10. Held(s, <<>>, b) + Count(b, s.outgoing) + Sent(s, wire, b) = 1
  BY <1>1, <1>2 DEF Flow
<1>11. Count(b, <<>>) = 0
  BY CountEmpty
<1>12. Count(b, f) \in Nat /\ Count(b, o) \in Nat /\ Count(b, q) \in Nat /\ Count(b, wire) \in Nat
  BY <1>2, <1>4, CountNat
<1>13. Count(b, y \o wire) = 1
  BY <1>3, <1>6, <1>8, <1>9, <1>10, <1>11, <1>12 DEF Held, Sent
<1> QED BY <1>3, <1>5, <1>7, <1>13

(* What it says of close_notify.                                           *)
LEMMA ImpliesCloseNotifyIsLast ==
    ASSUME TlsInv PROVE CloseNotifyIsLast
<1>1. PICK x : x = wire \o s.queue
  OBVIOUS
<1>2. PICK o : o = s.outgoing
  OBVIOUS
<1>3. SUFFICES ASSUME NEW i \in DOMAIN (x \o o), (x \o o)[i] = CloseNotify
               PROVE  i = Len(x \o o) /\ (s.kept \subseteq Range(x \o o) \/ s.broken)
  BY <1>1, <1>2 DEF CloseNotifyIsLast
<1>4. Plain(s) /\ Sound(s) /\ Flow(s, wire, <<>>) /\ wire \in Seq(Int) /\ s.queue \in Seq(Int)
      /\ o \in Seq(Int)
  BY <1>2, FineShape DEF TlsInv, Fine, Flow, Plain
<1>5. x \in Seq(Int) /\ \A b : Count(b, x) = Count(b, wire) + Count(b, s.queue)
  BY <1>1, <1>4, CountConcat
<1>6. \A b : Count(b, x) = Sent(s, wire, b) /\ Count(b, x) \in Nat
  <2>1. \A b : Count(b, wire) \in Nat /\ Count(b, s.queue) \in Nat
    BY <1>4, CountNat
  <2> QED BY <1>5, <2>1 DEF Sent
<1>7. Count(CloseNotify, x) # 0
  <2>1. SUFFICES ASSUME Count(CloseNotify, x) = 0 PROVE FALSE
    OBVIOUS
  <2>2. Count(CloseNotify, o) = 0
    BY <1>2, <1>4 DEF Flow
  <2>3. PICK y : y = x \o o
    OBVIOUS
  <2>4. y \in Seq(Int) /\ Count(CloseNotify, y) = 0
    BY <1>4, <1>5, <2>1, <2>2, <2>3, CountConcat
  <2>5. \A j \in DOMAIN y : y[j] # CloseNotify
    BY <2>4, CountNat
  <2> QED BY <1>3, <2>3, <2>5
<1>8. Sent(s, wire, CloseNotify) > 0
  BY <1>6, <1>7
<1>9. s.shut
  BY <1>4, <1>8 DEF Flow
<1>10. o = <<>>
  BY <1>2, <1>4, <1>9 DEF Sound
<1>11. x \o o = x
  BY <1>5, <1>10
<1>12. i = Len(x)
  <2>1. Ended(x)
    BY <1>1, <1>4 DEF Flow
  <2> QED BY <1>3, <1>11, <2>1 DEF Ended
<1>13. s.broken \/ s.kept \subseteq Range(x)
  <2>1. SUFFICES ASSUME ~s.broken, NEW b \in s.kept PROVE b \in Range(x)
    OBVIOUS
  <2>2. Sent(s, wire, b) > 0
    BY <1>4, <1>8, <2>1 DEF Flow
  <2>3. Count(b, x) # 0
    BY <1>6, <2>2
  <2>4. \E j \in DOMAIN x : x[j] = b
    BY <1>5, <2>3, CountNat
  <2> QED BY <2>4 DEF Range
<1> QED BY <1>11, <1>12, <1>13

(* What it says of _write_buffer.                                          *)
LEMMA ImpliesBufferedWaitsForResume ==
    ASSUME TlsInv PROVE BufferedWaitsForResume
BY FineShape DEF TlsInv, Plain, Parked, BufferedWaitsForResume

(* What it says of what was received.                                      *)
LEMMA ImpliesReceivedInOrder ==
    ASSUME TlsInv PROVE ReceivedInOrder
BY DEF TlsInv, Arrives, Upto, ReceivedInOrder

(* write, _flush_write_buffer and _f, for any limits and any history of    *)
(* renegotiation, pauses and calls from inside a handler: while the raw    *)
(* transport is open and the SSL object sound, every byte that was written *)
(* before close_notify is in exactly one place.                            *)
THEOREM NothingIsDropped == Spec => []NothingDropped
<1>1. TlsInv => NothingDropped
  BY ImpliesNothingDropped
<1> QED BY <1>1, TlsAlways, PTL

(* _start_shutdown and unwrap: close_notify is the last record of the      *)
(* stream, after all the plaintext, whoever starts the shutdown and        *)
(* whenever.                                                               *)
THEOREM NotifyComesLast == Spec => []CloseNotifyIsLast
<1>1. TlsInv => CloseNotifyIsLast
  BY ImpliesCloseNotifyIsLast
<1> QED BY <1>1, TlsAlways, PTL

(* write, resume_writing and _flush_write_buffer: plaintext that was       *)
(* buffered because the raw transport was full waits for a resume_writing  *)
(* that will come.                                                         *)
THEOREM BufferWaitsForResume == Spec => []BufferedWaitsForResume
<1>1. TlsInv => BufferedWaitsForResume
  BY ImpliesBufferedWaitsForResume
<1> QED BY <1>1, TlsAlways, PTL

(* buffer_updated, _h and _r: the application is given what the peer sent, *)
(* in order and once, however the reads are cut.                           *)
THEOREM ArrivesInOrder == Spec => []ReceivedInOrder
<1>1. TlsInv => ReceivedInOrder
  BY ImpliesReceivedInOrder
<1> QED BY <1>1, TlsAlways, PTL
==============================================================================
