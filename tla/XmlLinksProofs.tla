---------------------------- MODULE XmlLinksProofs ----------------------------
(***************************************************************************)
(* Whatever the heap: a node that is inserted is taken from the place where *)
(* it was, among the children of a node or in the list of its document,    *)
(* and comes to the place it is meant for; all others stay where they are. *)
(***************************************************************************)
EXTENDS XmlLinks, LeastElements, SequenceTheorems, TLAPS

(* A piece of a sequence, of length d.                                     *)
LEMMA PieceOf ==
  ASSUME NEW S, NEW s \in Seq(S), NEW m \in Nat, NEW k \in Nat, NEW d \in Nat,
         1 <= m, k <= Len(s), k + 1 = m + d
  PROVE  /\ SubSeq(s, m, k) \in Seq(S) /\ Len(SubSeq(s, m, k)) = d
         /\ \A j \in 1 .. d : SubSeq(s, m, k)[j] = s[m + j - 1]
<1>1. m \in Int /\ k \in Int /\ k - m + 1 = d /\ (m <= k <=> d # 0)
  OBVIOUS
<1>2. ASSUME NEW j \in m .. k PROVE s[j] \in S
  <2>1. j \in 1 .. Len(s)
    OBVIOUS
  <2> QED BY <2>1, ElementOfSeq
<1>3. /\ SubSeq(s, m, k) \in Seq(S)
      /\ Len(SubSeq(s, m, k)) = IF m <= k THEN k - m + 1 ELSE 0
      /\ \A j \in 1 .. k - m + 1 : SubSeq(s, m, k)[j] = s[m + j - 1]
  BY <1>1, <1>2, SubSeqProperties
<1>4. Len(SubSeq(s, m, k)) = d
  BY <1>1, <1>3
<1> QED BY <1>1, <1>3, <1>4

(* A sequence without one of its elements, and with one more.              *)
IsRemoved(S, s, i, r) ==
  /\ r \in Seq(S) /\ DOMAIN r = 1 .. Len(s) - 1 /\ Len(r) = Len(s) - 1
  /\ \A j \in 1 .. Len(s) - 1 : r[j] = IF j < i THEN s[j] ELSE s[j + 1]

LEMMA RemovedFrom ==
  ASSUME NEW S, NEW s \in Seq(S), NEW i \in DOMAIN s
  PROVE  IsRemoved(S, s, i, RemoveAt(s, i))
<1> DEFINE l == Len(s)
<1>0. l \in Nat /\ i \in 1 .. l /\ i \in Nat /\ 1 <= i /\ i <= l /\ l = Len(s)
  OBVIOUS
<1> HIDE DEF l
<1> DEFINE k == i - 1  d == l - i  m == i + 1  a == SubSeq(s, 1, k)  b == SubSeq(s, m, l)
            c == a \o b
<1>1. m \in Nat /\ i \in Nat /\ 1 <= m /\ k \in Nat /\ k <= l /\ k + 1 = 1 + k /\ d \in Nat
      /\ l + 1 = m + d /\ k + d \in Nat /\ k + d = l - 1
  BY <1>0
<1>2. RemoveAt(s, i) = c
  BY Zenon DEF l, RemoveAt
<1> HIDE DEF k, d, m, c
<1>3. a \in Seq(S) /\ Len(a) = k /\ \A j \in 1 .. k : a[j] = s[1 + j - 1]
  BY <1>0, <1>1, PieceOf
<1>4. l <= Len(s)
  BY <1>0
<1>5. b \in Seq(S) /\ Len(b) = d /\ \A j \in 1 .. d : b[j] = s[m + j - 1]
  BY <1>0, <1>1, <1>4, PieceOf
<1> HIDE DEF a, b
<1>6. /\ c \in Seq(S) /\ Len(c) = k + d /\ DOMAIN c = 1 .. k + d
      /\ \A j \in 1 .. k + d : c[j] = IF j <= k THEN a[j] ELSE b[j - k]
  <2>1. /\ a \o b \in Seq(S) /\ Len(a \o b) = Len(a) + Len(b)
        /\ \A j \in 1 .. Len(a) + Len(b) :
             (a \o b)[j] = IF j <= Len(a) THEN a[j] ELSE b[j - Len(a)]
    BY <1>3, <1>5, ConcatProperties
  <2>2. DOMAIN (a \o b) = 1 .. Len(a \o b)
    BY <2>1, LenProperties
  <2> QED BY <1>1, <1>3, <1>5, <2>1, <2>2 DEF c
<1>7. ASSUME NEW j \in 1 .. l - 1 PROVE c[j] = IF j < i THEN s[j] ELSE s[j + 1]
  <2> USE <1>0
  <2>1. j \in 1 .. k + d /\ j \in Int
    BY <1>1
  <2>2. CASE j < i
    <3>1. j \in 1 .. k /\ 1 + j - 1 = j /\ j <= k
      BY <2>2 DEF k
    <3> QED BY <1>3, <1>6, <2>1, <2>2, <3>1
  <2>3. CASE ~ (j < i)
    <3>1. j - k \in 1 .. d /\ m + (j - k) - 1 = j + 1 /\ ~ (j <= k)
      BY <2>3 DEF k, d, m
    <3> QED BY <1>5, <1>6, <2>1, <2>3, <3>1
  <2> QED BY <2>2, <2>3
<1> QED BY <1>0, <1>1, <1>2, <1>6, <1>7 DEF IsRemoved

IsInserted(S, s, i, x, r) ==
  /\ r \in Seq(S) /\ DOMAIN r = 1 .. Len(s) + 1 /\ Len(r) = Len(s) + 1
  /\ \A j \in 1 .. Len(s) + 1 : r[j] = IF j < i THEN s[j] ELSE IF j = i THEN x ELSE s[j - 1]

LEMMA InsertedTo ==
  ASSUME NEW S, NEW s \in Seq(S), NEW i \in 1 .. Len(s) + 1, NEW x \in S
  PROVE  IsInserted(S, s, i, x, InsertAt(s, i, x))
<1> DEFINE l == Len(s)
<1>0. l \in Nat /\ i \in 1 .. l + 1 /\ i \in Nat /\ 1 <= i /\ i <= l + 1 /\ l = Len(s)
  OBVIOUS
<1> HIDE DEF l
<1> DEFINE k == i - 1  d == l + 1 - i  a == SubSeq(s, 1, k)  b == SubSeq(s, i, l)
           o == <<x>>  c == a \o o  e == c \o b
<1>1. i \in Nat /\ 1 <= i /\ k \in Nat /\ k <= l /\ k + 1 = 1 + k /\ d \in Nat /\ l + 1 = i + d
      /\ i = k + 1 /\ l + 1 \in Nat
  BY <1>0
<1>2. InsertAt(s, i, x) = e
  BY Zenon DEF l, InsertAt
<1>3. o \in Seq(S) /\ Len(o) = 1 /\ o[1] = x
  OBVIOUS
<1> HIDE DEF k, d, c, e, o
<1>4. a \in Seq(S) /\ Len(a) = k /\ \A j \in 1 .. k : a[j] = s[1 + j - 1]
  BY <1>0, <1>1, PieceOf
<1>5. b \in Seq(S) /\ Len(b) = d /\ \A j \in 1 .. d : b[j] = s[i + j - 1]
  BY <1>0, <1>1, PieceOf
<1> HIDE DEF a, b
<1>6. c \in Seq(S) /\ Len(c) = i /\ \A j \in 1 .. i : c[j] = IF j <= k THEN a[j] ELSE o[j - k]
  <2>1. /\ a \o o \in Seq(S) /\ Len(a \o o) = Len(a) + Len(o)
        /\ \A j \in 1 .. Len(a) + Len(o) :
             (a \o o)[j] = IF j <= Len(a) THEN a[j] ELSE o[j - Len(a)]
    BY <1>3, <1>4, ConcatProperties
  <2>2. DOMAIN (a \o o) = 1 .. Len(a \o o)
    BY <2>1, LenProperties
  <2> QED BY <1>1, <1>3, <1>4, <2>1, <2>2 DEF c
<1>7. /\ e \in Seq(S) /\ Len(e) = l + 1 /\ DOMAIN e = 1 .. l + 1
      /\ \A j \in 1 .. l + 1 : e[j] = IF j <= i THEN c[j] ELSE b[j - i]
  <2>1. /\ c \o b \in Seq(S) /\ Len(c \o b) = Len(c) + Len(b)
        /\ \A j \in 1 .. Len(c) + Len(b) :
             (c \o b)[j] = IF j <= Len(c) THEN c[j] ELSE b[j - Len(c)]
    BY <1>5, <1>6, ConcatProperties
  <2>2. DOMAIN (c \o b) = 1 .. Len(c \o b)
    BY <2>1, LenProperties
  <2> QED BY <1>1, <1>5, <1>6, <2>1, <2>2 DEF e
<1>8. ASSUME NEW j \in 1 .. l + 1
      PROVE  e[j] = IF j < i THEN s[j] ELSE IF j = i THEN x ELSE s[j - 1]
  <2> USE <1>0
  <2>1. j \in Int
    OBVIOUS
  <2>2. CASE j < i
    <3>1. j \in 1 .. k /\ j \in 1 .. i /\ 1 + j - 1 = j /\ j <= k /\ j <= i
      BY <2>2 DEF k
    <3> QED BY <1>4, <1>6, <1>7, <2>2, <3>1
  <2>3. CASE j = i
    <3>1. i \in 1 .. i /\ i <= i /\ ~ (i <= k) /\ i - k = 1 /\ ~ (i < i)
      BY DEF k
    <3> QED BY <1>3, <1>6, <1>7, <2>3, <3>1
  <2>4. CASE j > i
    <3>1. j - i \in 1 .. d /\ i + (j - i) - 1 = j - 1 /\ ~ (j <= i) /\ ~ (j < i) /\ j # i
      BY <2>4 DEF d
    <3> QED BY <1>5, <1>7, <3>1
  <2> QED BY <1>1, <2>1, <2>2, <2>3, <2>4
<1> QED BY <1>0, <1>1, <1>2, <1>7, <1>8 DEF IsInserted

(* The same of a sequence without repetitions.                             *)
LEMMA TakenOut ==
  ASSUME NEW S, NEW s \in Seq(S), IsInjective(s), NEW i \in DOMAIN s
  PROVE  IsInjective(RemoveAt(s, i)) /\ ToSet(RemoveAt(s, i)) = ToSet(s) \ {s[i]}
<1> DEFINE r == RemoveAt(s, i)
<1>1. PICK l \in Nat : l = Len(s) /\ DOMAIN s = 1 .. l
  OBVIOUS
<1>2. DOMAIN r = 1 .. l - 1 /\ \A j \in 1 .. l - 1 : r[j] = IF j < i THEN s[j] ELSE s[j + 1]
  <2>1. IsRemoved(S, s, i, r)
    BY RemovedFrom, Zenon
  <2> QED BY <1>1, <2>1 DEF IsRemoved
<1> HIDE DEF r
<1>3. \A a, b \in 1 .. l : s[a] = s[b] => a = b
  BY <1>1 DEF IsInjective
<1>4. IsInjective(r)
  <2> SUFFICES ASSUME NEW a \in 1 .. l - 1, NEW b \in 1 .. l - 1, r[a] = r[b] PROVE a = b
    BY <1>2 DEF IsInjective
  <2>1. \A j \in 1 .. l - 1 : \/ j < i /\ j \in 1 .. l /\ r[j] = s[j]
                              \/ ~ (j < i) /\ j + 1 \in 1 .. l /\ r[j] = s[j + 1]
    BY <1>1, <1>2
  <2>2. i \in Int /\ a \in Int /\ b \in Int
    BY <1>1
  <2>3. CASE a < i
    <3>1. CASE b < i
      BY <1>3, <2>1, <2>3, <3>1
    <3>2. CASE ~ (b < i)
      BY <1>3, <2>1, <2>2, <2>3, <3>2
    <3> QED BY <3>1, <3>2
  <2>4. CASE ~ (a < i)
    <3>1. CASE b < i
      BY <1>3, <2>1, <2>2, <2>4, <3>1
    <3>2. CASE ~ (b < i)
      <4>1. a + 1 = b + 1
        BY <1>3, <2>1, <2>4, <3>2
      <4> QED BY <2>2, <4>1
    <3> QED BY <3>1, <3>2
  <2> QED BY <2>3, <2>4
<1>5. ASSUME NEW x \in ToSet(r) PROVE x \in ToSet(s) \ {s[i]}
  <2>1. PICK j \in 1 .. l - 1 : r[j] = x
    BY <1>2, <1>5 DEF ToSet
  <2>2. j \in 1 .. l /\ j + 1 \in 1 .. l /\ i \in 1 .. l /\ j \in Int
    BY <1>1
  <2>3. CASE j < i
    BY <1>1, <1>2, <1>3, <2>1, <2>2, <2>3 DEF ToSet
  <2>4. CASE ~ (j < i)
    <3>1. j + 1 # i
      BY <2>2, <2>4
    <3> QED BY <1>1, <1>2, <1>3, <2>1, <2>2, <2>4, <3>1 DEF ToSet
  <2> QED BY <2>3, <2>4
<1>6. ASSUME NEW x \in ToSet(s) \ {s[i]} PROVE x \in ToSet(r)
  <2>1. PICK j \in 1 .. l : s[j] = x /\ j # i
    BY <1>1, <1>6 DEF ToSet
  <2>2. CASE j < i
    <3>1. j \in 1 .. l - 1
      BY <1>1, <2>2
    <3> QED BY <1>2, <2>1, <2>2, <3>1 DEF ToSet
  <2>3. CASE ~ (j < i)
    <3>1. j - 1 \in 1 .. l - 1 /\ ~ (j - 1 < i) /\ j - 1 + 1 = j
      BY <1>1, <2>1, <2>3
    <3> QED BY <1>2, <2>1, <3>1 DEF ToSet
  <2> QED BY <2>2, <2>3
<1> QED BY <1>4, <1>5, <1>6, Zenon DEF r

LEMMA PutIn ==
  ASSUME NEW S, NEW s \in Seq(S), IsInjective(s), NEW i \in 1 .. Len(s) + 1,
         NEW x \in S, x \notin ToSet(s)
  PROVE  IsInjective(InsertAt(s, i, x)) /\ ToSet(InsertAt(s, i, x)) = ToSet(s) \cup {x}
<1> DEFINE r == InsertAt(s, i, x)
<1>1. PICK l \in Nat : l = Len(s) /\ DOMAIN s = 1 .. l /\ i \in 1 .. l + 1
  OBVIOUS
<1>2. /\ DOMAIN r = 1 .. l + 1
      /\ \A j \in 1 .. l + 1 : r[j] = IF j < i THEN s[j] ELSE IF j = i THEN x ELSE s[j - 1]
  <2>1. IsInserted(S, s, i, x, r)
    BY InsertedTo, Zenon
  <2> QED BY <1>1, <2>1 DEF IsInserted
<1> HIDE DEF r
<1>3. (\A a, b \in 1 .. l : s[a] = s[b] => a = b) /\ \A a \in 1 .. l : s[a] # x
  BY <1>1 DEF IsInjective, ToSet
<1>4. ASSUME NEW a \in 1 .. l + 1
      PROVE  \/ a < i /\ a \in 1 .. l /\ r[a] = s[a]
             \/ a = i /\ r[a] = x
             \/ a > i /\ a - 1 \in 1 .. l /\ r[a] = s[a - 1]
  BY <1>1, <1>2
<1>5. IsInjective(r)
  <2> SUFFICES ASSUME NEW a \in 1 .. l + 1, NEW b \in 1 .. l + 1, r[a] = r[b] PROVE a = b
    BY <1>2 DEF IsInjective
  <2> QED BY <1>1, <1>3, <1>4
<1>6. ASSUME NEW y \in ToSet(r) PROVE y \in ToSet(s) \cup {x}
  BY <1>1, <1>2, <1>4, <1>6 DEF ToSet
<1>7. ASSUME NEW y \in ToSet(s) PROVE y \in ToSet(r)
  <2>1. PICK j \in 1 .. l : s[j] = y
    BY <1>1, <1>7 DEF ToSet
  <2>2. CASE j < i
    <3>1. j \in 1 .. l + 1 /\ r[j] = s[j]
      BY <1>2, <2>2
    <3> QED BY <1>2, <2>1, <3>1 DEF ToSet
  <2>3. CASE ~ (j < i)
    <3>1. j + 1 \in 1 .. l + 1 /\ ~ (j + 1 < i) /\ j + 1 # i /\ j + 1 - 1 = j
      BY <1>1, <2>3
    <3>2. r[j + 1] = s[j]
      BY <1>2, <3>1
    <3> QED BY <1>2, <2>1, <3>1, <3>2 DEF ToSet
  <2> QED BY <2>2, <2>3
<1>8. x \in ToSet(r)
  <2>1. r[i] = x
    BY <1>1, <1>2
  <2> QED BY <1>1, <1>2, <2>1 DEF ToSet
<1> QED BY <1>5, <1>6, <1>7, <1>8, Zenon DEF r

(* What comes at a place, and Null beyond the ends.                        *)
LEMMA NthRemoved ==
  ASSUME NEW S, NEW s \in Seq(S), NEW i \in DOMAIN s, NEW j \in 0 .. Len(s)
  PROVE  Nth(RemoveAt(s, i), j) = IF j < i THEN Nth(s, j) ELSE Nth(s, j + 1)
<1> DEFINE r == RemoveAt(s, i)
<1>1. PICK l \in Nat : l = Len(s) /\ DOMAIN s = 1 .. l /\ i \in 1 .. l /\ j \in 0 .. l
  OBVIOUS
<1>2. DOMAIN r = 1 .. l - 1 /\ \A k \in 1 .. l - 1 : r[k] = IF k < i THEN s[k] ELSE s[k + 1]
  <2>1. IsRemoved(S, s, i, r)
    BY RemovedFrom, Zenon
  <2> QED BY <1>1, <2>1 DEF IsRemoved
<1> SUFFICES Nth(r, j) = IF j < i THEN Nth(s, j) ELSE Nth(s, j + 1)
  OBVIOUS
<1> HIDE DEF r
<1>3. CASE j < i
  <2>1. j \in DOMAIN r <=> j \in DOMAIN s
    BY <1>1, <1>2, <1>3
  <2> QED BY <1>2, <1>3, <2>1 DEF Nth
<1>4. CASE ~ (j < i)
  <2>1. j \in DOMAIN r <=> j + 1 \in DOMAIN s
    BY <1>1, <1>2, <1>4
  <2> QED BY <1>2, <1>4, <2>1 DEF Nth
<1> QED BY <1>3, <1>4

LEMMA NthInserted ==
  ASSUME NEW S, NEW s \in Seq(S), NEW i \in 1 .. Len(s) + 1, NEW x \in S, NEW j \in 0 .. Len(s) + 2
  PROVE  Nth(InsertAt(s, i, x), j)
           = IF j < i THEN Nth(s, j) ELSE IF j = i THEN x ELSE Nth(s, j - 1)
<1> DEFINE r == InsertAt(s, i, x)
<1>1. PICK l \in Nat : l = Len(s) /\ DOMAIN s = 1 .. l /\ i \in 1 .. l + 1 /\ j \in 0 .. l + 2
  OBVIOUS
<1>2. /\ DOMAIN r = 1 .. l + 1
      /\ \A k \in 1 .. l + 1 : r[k] = IF k < i THEN s[k] ELSE IF k = i THEN x ELSE s[k - 1]
  <2>1. IsInserted(S, s, i, x, r)
    BY InsertedTo, Zenon
  <2> QED BY <1>1, <2>1 DEF IsInserted
<1> SUFFICES Nth(r, j) = IF j < i THEN Nth(s, j) ELSE IF j = i THEN x ELSE Nth(s, j - 1)
  OBVIOUS
<1> HIDE DEF r
<1>3. CASE j < i
  <2>1. j \in DOMAIN r <=> j \in DOMAIN s
    BY <1>1, <1>2, <1>3
  <2> QED BY <1>2, <1>3, <2>1 DEF Nth
<1>4. CASE j = i
  <2>1. j \in DOMAIN r /\ ~ (i < i)
    BY <1>1, <1>2, <1>4
  <2> QED BY <1>2, <1>4, <2>1 DEF Nth
<1>5. CASE j > i
  <2>1. (j \in DOMAIN r <=> j - 1 \in DOMAIN s) /\ ~ (j < i) /\ j # i
    BY <1>1, <1>2, <1>5
  <2> QED BY <1>2, <1>5, <2>1 DEF Nth
<1>6. j < i \/ j = i \/ j > i
  BY <1>1
<1> QED BY <1>3, <1>4, <1>5, <1>6

(* The last element moves to the place of the one that goes.               *)
LEMMA SwapRemoved ==
  ASSUME NEW S, NEW s \in Seq(S), IsInjective(s), NEW i \in DOMAIN s
  PROVE  /\ SwapRemove(s, i) \in Seq(S) /\ IsInjective(SwapRemove(s, i))
         /\ ToSet(SwapRemove(s, i)) = ToSet(s) \ {s[i]}
<1> DEFINE t == [s EXCEPT ![i] = s[Len(s)]]
           r == SubSeq(t, 1, Len(s) - 1)
<1>1. PICK l \in Nat : l = Len(s) /\ DOMAIN s = 1 .. l /\ i \in 1 .. l
  OBVIOUS
<1>2. i \in Nat /\ 1 <= i /\ i <= l /\ l \in 1 .. l /\ l - 1 \in Nat /\ 1 \in Nat /\ l - 1 <= l
      /\ l - 1 + 1 = 1 + (l - 1)
  BY <1>1
<1>3. t \in Seq(S) /\ Len(t) = l /\ \A j \in 1 .. l : t[j] = IF j = i THEN s[l] ELSE s[j]
  <2>1. s[Len(s)] \in S /\ i \in 1 .. Len(s)
    BY <1>1, <1>2, ElementOfSeq
  <2>2. /\ t \in Seq(S) /\ Len(t) = Len(s)
        /\ \A j \in 1 .. Len(s) : t[j] = IF j = i THEN s[Len(s)] ELSE s[j]
    BY <2>1, ExceptSeq
  <2> HIDE DEF t
  <2> QED BY <1>1, <2>2
<1>4. SwapRemove(s, i) = r
  <2>1. SwapRemove(s, i) = SubSeq(t, 1, Len(t) - 1)
    BY DEF SwapRemove, Front, Last
  <2> HIDE DEF t
  <2> QED BY <1>1, <1>3, <2>1
<1> HIDE DEF t
<1>5. r \in Seq(S) /\ DOMAIN r = 1 .. l - 1 /\ \A j \in 1 .. l - 1 : r[j] = IF j = i THEN s[l] ELSE s[j]
  <2>1. /\ SubSeq(t, 1, l - 1) \in Seq(S) /\ Len(SubSeq(t, 1, l - 1)) = l - 1
        /\ \A j \in 1 .. l - 1 : SubSeq(t, 1, l - 1)[j] = t[1 + j - 1]
    BY <1>2, <1>3, PieceOf
  <2>2. DOMAIN SubSeq(t, 1, l - 1) = 1 .. l - 1
    BY <2>1, LenProperties
  <2>3. ASSUME NEW j \in 1 .. l - 1 PROVE 1 + j - 1 = j /\ j \in 1 .. l
    BY <1>1
  <2>4. r = SubSeq(t, 1, l - 1)
    BY <1>1
  <2> HIDE DEF r
  <2> QED BY <1>3, <2>1, <2>2, <2>3, <2>4
<1> HIDE DEF r
<1>6. \A a, b \in 1 .. l : s[a] = s[b] => a = b
  BY <1>1 DEF IsInjective
<1>7. \A j \in 1 .. l - 1 : j \in 1 .. l /\ j # l
  BY <1>1
<1>8. IsInjective(r)
  BY <1>2, <1>5, <1>6, <1>7 DEF IsInjective
<1>9. ASSUME NEW x \in ToSet(r) PROVE x \in ToSet(s) \ {s[i]}
  <2>1. PICK j \in 1 .. l - 1 : r[j] = x
    BY <1>5 DEF ToSet
  <2>2. PICK k \in 1 .. l : s[k] = x /\ k # i
    <3>1. r[j] = IF j = i THEN s[l] ELSE s[j]
      BY <1>5, <2>1
    <3>2. j \in 1 .. l /\ j # l /\ l \in 1 .. l
      BY <1>2, <1>7, <2>1
    <3> QED BY <2>1, <3>1, <3>2
  <2>3. s[k] # s[i]
    BY <1>1, <1>6, <2>2, Zenon
  <2> QED BY <1>1, <2>2, <2>3, Zenon DEF ToSet
<1>10. ASSUME NEW x \in ToSet(s) \ {s[i]} PROVE x \in ToSet(r)
  <2>1. PICK j \in 1 .. l : s[j] = x /\ j # i
    BY <1>1 DEF ToSet
  <2>2. CASE j = l
    <3>1. i \in 1 .. l - 1
      BY <1>1, <2>1, <2>2
    <3> QED BY <1>5, <2>1, <2>2, <3>1 DEF ToSet
  <2>3. CASE j # l
    <3>1. j \in 1 .. l - 1
      BY <1>1, <2>3
    <3> QED BY <1>5, <2>1, <3>1 DEF ToSet
  <2> QED BY <2>2, <2>3
<1> QED BY <1>4, <1>5, <1>8, <1>9, <1>10, Zenon

-----------------------------------------------------------------------------
(* What Unlink and LinkBetween leave of each node.                         *)
IsUnlinked(h, p, n, g) ==
  /\ IsHeap(g) /\ g.unlinked = h.unlinked /\ DOMAIN g.node = DOMAIN h.node
  /\ \A m \in DOMAIN h.node :
       /\ g.node[m].document = h.node[m].document
       /\ g.node[m].firstChild
            = IF m = p /\ h.node[m].firstChild = n THEN h.node[n].next ELSE h.node[m].firstChild
       /\ g.node[m].lastChild
            = IF m = p /\ h.node[m].lastChild = n THEN h.node[n].prev ELSE h.node[m].lastChild
       /\ g.node[m].parent = IF m = n THEN Null ELSE h.node[m].parent
       /\ g.node[m].prev = IF m = n THEN Null
                           ELSE IF m = h.node[n].next THEN h.node[n].prev ELSE h.node[m].prev
       /\ g.node[m].next = IF m = n THEN Null
                           ELSE IF m = h.node[n].prev THEN h.node[n].next ELSE h.node[m].next

LEMMA UnlinkFields ==
  ASSUME NEW h, IsHeap(h), NEW p \in DOMAIN h.node, NEW n \in DOMAIN h.node, p # n,
         h.node[n].prev \notin {p, n}, h.node[n].next \notin {p, n},
         h.node[n].prev = h.node[n].next => h.node[n].prev \notin DOMAIN h.node,
         NEW g, g = Unlink(h, p, n)
  PROVE  IsUnlinked(h, p, n, g)
<1> DEFINE F(m) ==
      CASE m = p ->
             [h.node[m] EXCEPT
                !.firstChild = IF h.node[m].firstChild = n THEN h.node[n].next ELSE h.node[m].firstChild,
                !.lastChild = IF h.node[m].lastChild = n THEN h.node[n].prev ELSE h.node[m].lastChild]
        [] m = n -> [h.node[m] EXCEPT !.parent = Null, !.prev = Null, !.next = Null]
        [] m = h.node[n].prev -> [h.node[m] EXCEPT !.next = h.node[n].next]
        [] m = h.node[n].next -> [h.node[m] EXCEPT !.prev = h.node[n].prev]
        [] OTHER -> h.node[m]
<1>1. /\ g = [node |-> [m \in DOMAIN h.node |-> F(m)], unlinked |-> h.unlinked]
      /\ g.node = [m \in DOMAIN h.node |-> F(m)] /\ g.unlinked = h.unlinked
  <2>1. g = [h EXCEPT !.node = [m \in DOMAIN h.node |-> F(m)]]
    BY DEF Unlink
  <2>2. h = [node |-> h.node, unlinked |-> h.unlinked]
    BY Zenon DEF IsHeap
  <2> HIDE DEF F
  <2>3. g = [node |-> [m \in DOMAIN h.node |-> F(m)], unlinked |-> h.unlinked]
    BY <2>1, <2>2
  <2> QED BY <2>3
<1>2. DOMAIN g.node = DOMAIN h.node /\ \A m \in DOMAIN h.node : g.node[m] = F(m)
  <2> HIDE DEF F
  <2> QED BY <1>1, Zenon
<1>3. ASSUME NEW m \in DOMAIN h.node
      PROVE  /\ IsNode(F(m))
             /\ F(m).document = h.node[m].document
             /\ F(m).firstChild
                  = IF m = p /\ h.node[m].firstChild = n THEN h.node[n].next ELSE h.node[m].firstChild
             /\ F(m).lastChild
                  = IF m = p /\ h.node[m].lastChild = n THEN h.node[n].prev ELSE h.node[m].lastChild
             /\ F(m).parent = IF m = n THEN Null ELSE h.node[m].parent
             /\ F(m).prev = IF m = n THEN Null
                            ELSE IF m = h.node[n].next THEN h.node[n].prev ELSE h.node[m].prev
             /\ F(m).next = IF m = n THEN Null
                            ELSE IF m = h.node[n].prev THEN h.node[n].next ELSE h.node[m].next
  <2> DEFINE e == h.node[m]
  <2>1. IsNode(e)
    BY DEF IsHeap
  <2>2. CASE m = p
    <3>1. F(m) = [e EXCEPT !.firstChild = IF e.firstChild = n THEN h.node[n].next ELSE e.firstChild,
                           !.lastChild = IF e.lastChild = n THEN h.node[n].prev ELSE e.lastChild]
      BY <2>2
    <3> HIDE DEF F, e
    <3>2. /\ IsNode(F(m)) /\ F(m).document = e.document
          /\ F(m).firstChild = IF e.firstChild = n THEN h.node[n].next ELSE e.firstChild
          /\ F(m).lastChild = IF e.lastChild = n THEN h.node[n].prev ELSE e.lastChild
          /\ F(m).parent = e.parent /\ F(m).prev = e.prev /\ F(m).next = e.next
      BY <2>1, <3>1 DEF IsNode
    <3> QED BY <2>2, <3>2 DEF e
  <2>3. CASE m = n
    <3>1. F(m) = [e EXCEPT !.parent = Null, !.prev = Null, !.next = Null]
      BY <2>3
    <3> HIDE DEF F, e
    <3>2. /\ IsNode(F(m)) /\ F(m).document = e.document /\ F(m).firstChild = e.firstChild
          /\ F(m).lastChild = e.lastChild /\ F(m).parent = Null /\ F(m).prev = Null /\ F(m).next = Null
      BY <2>1, <3>1 DEF IsNode
    <3> QED BY <2>3, <3>2 DEF e
  <2>4. CASE m \notin {p, n} /\ m = h.node[n].prev
    <3>1. F(m) = [e EXCEPT !.next = h.node[n].next] /\ m # h.node[n].next
      BY <2>4
    <3> HIDE DEF F, e
    <3>2. /\ IsNode(F(m)) /\ F(m).document = e.document /\ F(m).firstChild = e.firstChild
          /\ F(m).lastChild = e.lastChild /\ F(m).parent = e.parent /\ F(m).prev = e.prev
          /\ F(m).next = h.node[n].next
      BY <2>1, <3>1 DEF IsNode
    <3> QED BY <2>4, <3>1, <3>2 DEF e
  <2>5. CASE m \notin {p, n, h.node[n].prev} /\ m = h.node[n].next
    <3>1. F(m) = [e EXCEPT !.prev = h.node[n].prev]
      BY <2>5
    <3> HIDE DEF F, e
    <3>2. /\ IsNode(F(m)) /\ F(m).document = e.document /\ F(m).firstChild = e.firstChild
          /\ F(m).lastChild = e.lastChild /\ F(m).parent = e.parent /\ F(m).prev = h.node[n].prev
          /\ F(m).next = e.next
      BY <2>1, <3>1 DEF IsNode
    <3> QED BY <2>5, <3>2 DEF e
  <2>6. CASE m \notin {p, n, h.node[n].prev, h.node[n].next}
    <3>1. F(m) = e
      BY <2>6
    <3> QED BY <2>1, <2>6, <3>1
  <2> QED BY <2>2, <2>3, <2>4, <2>5, <2>6, Zenon
<1> HIDE DEF F
<1>4. IsHeap(g)
  <2>1. g = [node |-> g.node, unlinked |-> g.unlinked]
    BY <1>1
  <2>2. g.node = [m \in DOMAIN g.node |-> g.node[m]]
    BY <1>1, <1>2
  <2>3. /\ g.unlinked = [d \in Doc |-> g.unlinked[d]]
        /\ Doc \subseteq DOMAIN g.node /\ DOMAIN g.node \subseteq Doc \cup Node
    BY <1>1, <1>2, Zenon DEF IsHeap
  <2>4. \A m \in DOMAIN g.node : IsNode(g.node[m]) /\ g.node[m].document \in Doc
    BY <1>2, <1>3 DEF IsHeap
  <2> QED BY <2>1, <2>2, <2>3, <2>4, Zenon DEF IsHeap
<1> QED BY <1>1, <1>2, <1>3, <1>4 DEF IsUnlinked

IsLinked(h, p, n, left, right, g) ==
  /\ IsHeap(g) /\ g.unlinked = h.unlinked /\ DOMAIN g.node = DOMAIN h.node
  /\ \A m \in DOMAIN h.node :
       /\ g.node[m].document = h.node[m].document
       /\ g.node[m].firstChild = IF m = p /\ left = Null THEN n ELSE h.node[m].firstChild
       /\ g.node[m].lastChild = IF m = p /\ right = Null THEN n ELSE h.node[m].lastChild
       /\ g.node[m].parent = IF m = n THEN p ELSE h.node[m].parent
       /\ g.node[m].prev = IF m = n THEN left ELSE IF m = right THEN n ELSE h.node[m].prev
       /\ g.node[m].next = IF m = n THEN right ELSE IF m = left THEN n ELSE h.node[m].next

LEMMA LinkFields ==
  ASSUME NEW h, IsHeap(h), NEW p \in DOMAIN h.node, NEW n \in DOMAIN h.node, p # n,
         NEW left, left \notin {p, n}, NEW right, right \notin {p, n},
         left = right => left \notin DOMAIN h.node,
         NEW g, g = LinkBetween(h, p, n, left, right)
  PROVE  IsLinked(h, p, n, left, right, g)
<1> DEFINE F(m) ==
      CASE m = n -> [h.node[m] EXCEPT !.parent = p, !.prev = left, !.next = right]
        [] m = p -> [h.node[m] EXCEPT
                       !.firstChild = IF left = Null THEN n ELSE h.node[m].firstChild,
                       !.lastChild = IF right = Null THEN n ELSE h.node[m].lastChild]
        [] m = left -> [h.node[m] EXCEPT !.next = n]
        [] m = right -> [h.node[m] EXCEPT !.prev = n]
        [] OTHER -> h.node[m]
<1>1. /\ g = [node |-> [m \in DOMAIN h.node |-> F(m)], unlinked |-> h.unlinked]
      /\ g.node = [m \in DOMAIN h.node |-> F(m)] /\ g.unlinked = h.unlinked
  <2>1. g = [h EXCEPT !.node = [m \in DOMAIN h.node |-> F(m)]]
    BY DEF LinkBetween
  <2>2. h = [node |-> h.node, unlinked |-> h.unlinked]
    BY Zenon DEF IsHeap
  <2> HIDE DEF F
  <2>3. g = [node |-> [m \in DOMAIN h.node |-> F(m)], unlinked |-> h.unlinked]
    BY <2>1, <2>2
  <2> QED BY <2>3
<1>2. DOMAIN g.node = DOMAIN h.node /\ \A m \in DOMAIN h.node : g.node[m] = F(m)
  <2> HIDE DEF F
  <2> QED BY <1>1, Zenon
<1>3. ASSUME NEW m \in DOMAIN h.node
      PROVE  /\ IsNode(F(m))
             /\ F(m).document = h.node[m].document
             /\ F(m).firstChild = IF m = p /\ left = Null THEN n ELSE h.node[m].firstChild
             /\ F(m).lastChild = IF m = p /\ right = Null THEN n ELSE h.node[m].lastChild
             /\ F(m).parent = IF m = n THEN p ELSE h.node[m].parent
             /\ F(m).prev = IF m = n THEN left ELSE IF m = right THEN n ELSE h.node[m].prev
             /\ F(m).next = IF m = n THEN right ELSE IF m = left THEN n ELSE h.node[m].next
  <2> DEFINE e == h.node[m]
  <2>1. IsNode(e)
    BY DEF IsHeap
  <2>2. CASE m = p
    <3>1. F(m) = [e EXCEPT !.firstChild = IF left = Null THEN n ELSE e.firstChild,
                           !.lastChild = IF right = Null THEN n ELSE e.lastChild]
      BY <2>2
    <3> HIDE DEF F, e
    <3>2. /\ IsNode(F(m)) /\ F(m).document = e.document
          /\ F(m).firstChild = IF left = Null THEN n ELSE e.firstChild
          /\ F(m).lastChild = IF right = Null THEN n ELSE e.lastChild
          /\ F(m).parent = e.parent /\ F(m).prev = e.prev /\ F(m).next = e.next
      BY <2>1, <3>1 DEF IsNode
    <3> QED BY <2>2, <3>2 DEF e
  <2>3. CASE m = n
    <3>1. F(m) = [e EXCEPT !.parent = p, !.prev = left, !.next = right]
      BY <2>3
    <3> HIDE DEF F, e
    <3>2. /\ IsNode(F(m)) /\ F(m).document = e.document /\ F(m).firstChild = e.firstChild
          /\ F(m).lastChild = e.lastChild /\ F(m).parent = p /\ F(m).prev = left /\ F(m).next = right
      BY <2>1, <3>1 DEF IsNode
    <3> QED BY <2>3, <3>2 DEF e
  <2>4. CASE m \notin {p, n} /\ m = left
    <3>1. F(m) = [e EXCEPT !.next = n] /\ m # right
      BY <2>4
    <3> HIDE DEF F, e
    <3>2. /\ IsNode(F(m)) /\ F(m).document = e.document /\ F(m).firstChild = e.firstChild
          /\ F(m).lastChild = e.lastChild /\ F(m).parent = e.parent /\ F(m).prev = e.prev
          /\ F(m).next = n
      BY <2>1, <3>1 DEF IsNode
    <3> QED BY <2>4, <3>1, <3>2 DEF e
  <2>5. CASE m \notin {p, n, left} /\ m = right
    <3>1. F(m) = [e EXCEPT !.prev = n]
      BY <2>5
    <3> HIDE DEF F, e
    <3>2. /\ IsNode(F(m)) /\ F(m).document = e.document /\ F(m).firstChild = e.firstChild
          /\ F(m).lastChild = e.lastChild /\ F(m).parent = e.parent /\ F(m).prev = n
          /\ F(m).next = e.next
      BY <2>1, <3>1 DEF IsNode
    <3> QED BY <2>5, <3>2 DEF e
  <2>6. CASE m \notin {p, n, left, right}
    <3>1. F(m) = e
      BY <2>6
    <3> QED BY <2>1, <2>6, <3>1
  <2> QED BY <2>2, <2>3, <2>4, <2>5, <2>6, Zenon
<1> HIDE DEF F
<1>4. IsHeap(g)
  <2>1. g = [node |-> g.node, unlinked |-> g.unlinked]
    BY <1>1
  <2>2. g.node = [m \in DOMAIN g.node |-> g.node[m]]
    BY <1>1, <1>2
  <2>3. /\ g.unlinked = [d \in Doc |-> g.unlinked[d]]
        /\ Doc \subseteq DOMAIN g.node /\ DOMAIN g.node \subseteq Doc \cup Node
    BY <1>1, <1>2, Zenon DEF IsHeap
  <2>4. \A m \in DOMAIN g.node : IsNode(g.node[m]) /\ g.node[m].document \in Doc
    BY <1>2, <1>3 DEF IsHeap
  <2> QED BY <2>1, <2>2, <2>3, <2>4, Zenon DEF IsHeap
<1> QED BY <1>1, <1>2, <1>3, <1>4 DEF IsLinked

-----------------------------------------------------------------------------
(* What the links of a node say of its place.                              *)
LEMMA NoNull ==
  ASSUME NEW h, IsHeap(h)
  PROVE  Null \notin DOMAIN h.node
BY NodesAssumption, Zenon DEF IsHeap

LEMMA PlaceOf ==
  ASSUME NEW h, IsHeap(h), NEW kids, Trees(h, kids), NEW q \in DOMAIN h.node, NEW j \in DOMAIN kids[q]
  PROVE  /\ kids[q][j] \in DOMAIN h.node \ Doc /\ kids[q][j] # q /\ kids[q][j] # Null
         /\ h.node[kids[q][j]].parent = q /\ h.node[kids[q][j]].document = h.node[q].document
         /\ h.node[kids[q][j]].prev = Nth(kids[q], j - 1)
         /\ h.node[kids[q][j]].next = Nth(kids[q], j + 1)
         /\ \A k \in DOMAIN kids[q] : kids[q][k] = kids[q][j] => k = j
<1>1. kids[q] \in Seq(DOMAIN h.node \ Doc) /\ IsInjective(kids[q]) /\ LinkedInOrder(h, q, kids[q])
  BY Zenon DEF Trees
<1>2. kids[q][j] \in DOMAIN h.node \ Doc
  <2>1. j \in 1 .. Len(kids[q])
    BY <1>1
  <2> QED BY <1>1, <2>1, ElementOfSeq
<1>3. kids[q][j] # Null
  BY <1>2, NoNull
<1> QED BY <1>1, <1>2, <1>3, Zenon DEF LinkedInOrder, IsInjective

LEMMA NthIs ==
  ASSUME NEW s, NEW j
  PROVE  (j \in DOMAIN s /\ Nth(s, j) = s[j]) \/ (j \notin DOMAIN s /\ Nth(s, j) = Null)
BY DEF Nth

(* n at place i among the children of p: the nodes beside it are two       *)
(* others, or none.                                                        *)
LEMMA Beside ==
  ASSUME NEW h, IsHeap(h), NEW kids, Trees(h, kids), NEW p \in DOMAIN h.node, NEW i \in DOMAIN kids[p],
         NEW n, n = kids[p][i]
  PROVE  /\ Nth(kids[p], i - 1) \notin {p, n} /\ Nth(kids[p], i + 1) \notin {p, n}
         /\ Nth(kids[p], i - 1) = Nth(kids[p], i + 1) => Nth(kids[p], i - 1) \notin DOMAIN h.node
<1> DEFINE s == kids[p]
<1>1. i \in Int /\ i - 1 # i /\ i + 1 # i /\ i - 1 # i + 1
  <2>1. s \in Seq(DOMAIN h.node \ Doc)
    BY DEF Trees
  <2> QED BY <2>1
<1>2. /\ n \in DOMAIN h.node \ Doc /\ n # p /\ n # Null /\ p # Null
      /\ \A k \in DOMAIN s : s[k] = n => k = i
  BY PlaceOf, NoNull
<1>3. ASSUME NEW j, j # i PROVE Nth(s, j) \notin {p, n}
  <2>1. CASE j \in DOMAIN s
    <3>1. s[j] # p
      BY <2>1, PlaceOf
    <3> QED BY <1>2, <1>3, <2>1, <3>1 DEF Nth
  <2>2. CASE j \notin DOMAIN s
    BY <1>2, <2>2 DEF Nth
  <2> QED BY <2>1, <2>2
<1>4. ASSUME Nth(s, i - 1) = Nth(s, i + 1), Nth(s, i - 1) \in DOMAIN h.node PROVE FALSE
  <2>1. i - 1 \in DOMAIN s /\ i + 1 \in DOMAIN s /\ s[i - 1] = s[i + 1]
    BY <1>4, NoNull, NthIs
  <2>2. i - 1 = i + 1
    BY <2>1, PlaceOf
  <2> QED BY <1>1, <2>2
<1> QED BY <1>1, <1>3, <1>4

(* The links that are left when n has been unlinked from its parent.       *)
LEMMA TreesUnlinked ==
  ASSUME NEW h, IsHeap(h), NEW kids, Trees(h, kids), NEW n \in DOMAIN h.node \ Doc,
         h.node[n].parent # Null,
         NEW g, g = Unlink(h, h.node[n].parent, n)
  PROVE  /\ IsHeap(g) /\ g.unlinked = h.unlinked /\ DOMAIN g.node = DOMAIN h.node
         /\ \A m \in DOMAIN h.node :
              /\ g.node[m].document = h.node[m].document
              /\ g.node[m].parent = IF m = n THEN Null ELSE h.node[m].parent
              /\ h.node[m].next = Null => g.node[m].next = Null
         /\ Trees(g, RestOf(kids, n))
<1> DEFINE p == h.node[n].parent
           s == kids[p]
           r == RestOf(kids, n)
<1>1. p \in DOMAIN h.node /\ n \in ToSet(s)
  BY Zenon DEF Trees
<1>2. PICK i \in DOMAIN s : n = s[i]
  BY <1>1, Zenon DEF ToSet
<1>3. PICK l \in Nat : l = Len(s) /\ DOMAIN s = 1 .. l /\ i \in 1 .. l /\ s \in Seq(DOMAIN h.node \ Doc)
  <2>1. s \in Seq(DOMAIN h.node \ Doc)
    BY <1>1, Zenon DEF Trees
  <2>2. Len(s) \in Nat /\ DOMAIN s = 1 .. Len(s)
    BY <2>1, LenProperties
  <2> QED BY <1>2, <2>1, <2>2
<1>4. /\ n # p /\ n # Null /\ h.node[n].prev = Nth(s, i - 1) /\ h.node[n].next = Nth(s, i + 1)
      /\ \A k \in DOMAIN s : s[k] = n => k = i
  BY <1>1, <1>2, PlaceOf
<1>5. /\ Nth(s, i - 1) \notin {p, n} /\ Nth(s, i + 1) \notin {p, n}
      /\ Nth(s, i - 1) = Nth(s, i + 1) => Nth(s, i - 1) \notin DOMAIN h.node
  BY <1>1, <1>2, Beside
<1>6. /\ IsHeap(g) /\ g.unlinked = h.unlinked /\ DOMAIN g.node = DOMAIN h.node
      /\ \A m \in DOMAIN h.node :
           /\ g.node[m].document = h.node[m].document
           /\ g.node[m].firstChild
                = IF m = p /\ h.node[m].firstChild = n THEN h.node[n].next ELSE h.node[m].firstChild
           /\ g.node[m].lastChild
                = IF m = p /\ h.node[m].lastChild = n THEN h.node[n].prev ELSE h.node[m].lastChild
           /\ g.node[m].parent = IF m = n THEN Null ELSE h.node[m].parent
           /\ g.node[m].prev
                = IF m = n THEN Null ELSE IF m = h.node[n].next THEN h.node[n].prev ELSE h.node[m].prev
           /\ g.node[m].next
                = IF m = n THEN Null ELSE IF m = h.node[n].prev THEN h.node[n].next ELSE h.node[m].next
  <2>1. /\ h.node[n].prev \notin {p, n} /\ h.node[n].next \notin {p, n}
        /\ h.node[n].prev = h.node[n].next => h.node[n].prev \notin DOMAIN h.node
    BY <1>4, <1>5
  <2>2. p # n /\ g = Unlink(h, p, n)
    BY <1>4
  <2> HIDE DEF p
  <2>3. IsUnlinked(h, p, n, g)
    BY <1>1, <2>1, <2>2, UnlinkFields, Zenon
  <2> QED BY <2>3, Zenon DEF IsUnlinked
<1>7. DOMAIN kids = DOMAIN h.node /\ DOMAIN r = DOMAIN h.node
  BY DEF Trees, RestOf
<1>8. ASSUME NEW q \in DOMAIN h.node, q # p PROVE n \notin ToSet(kids[q]) /\ r[q] = kids[q]
  <2>1. n \notin ToSet(kids[q])
    BY <1>8, PlaceOf DEF ToSet
  <2> QED BY <1>7, <2>1 DEF RestOf
<1>9. r[p] = RemoveAt(s, i)
  <2>1. (CHOOSE k \in DOMAIN s : s[k] = n) = i
    BY <1>2, <1>4
  <2>2. r[p] = RemoveAt(s, CHOOSE k \in DOMAIN s : s[k] = n)
    BY <1>1, <1>7 DEF RestOf
  <2> QED BY <2>1, <2>2
<1> HIDE DEF r, s, p
<1>10. /\ r[p] \in Seq(DOMAIN h.node \ Doc) /\ IsInjective(r[p]) /\ ToSet(r[p]) = ToSet(s) \ {n}
       /\ DOMAIN r[p] = 1 .. l - 1 /\ Len(r[p]) = l - 1
       /\ \A j \in 1 .. l - 1 : r[p][j] = IF j < i THEN s[j] ELSE s[j + 1]
       /\ \A j \in 0 .. l : Nth(r[p], j) = IF j < i THEN Nth(s, j) ELSE Nth(s, j + 1)
  <2>1. IsRemoved(DOMAIN h.node \ Doc, s, i, RemoveAt(s, i))
    BY <1>3, RemovedFrom, Zenon
  <2>2. IsInjective(s)
    BY <1>1, Zenon DEF Trees, s
  <2>3. IsInjective(RemoveAt(s, i)) /\ ToSet(RemoveAt(s, i)) = ToSet(s) \ {s[i]}
    BY <1>3, <2>2, TakenOut
  <2>4. ASSUME NEW j \in 0 .. Len(s)
        PROVE  Nth(RemoveAt(s, i), j) = IF j < i THEN Nth(s, j) ELSE Nth(s, j + 1)
    BY <1>3, NthRemoved
  <2> QED BY <1>2, <1>3, <1>9, <2>1, <2>3, <2>4, Zenon DEF IsRemoved
<1>11. r \in [DOMAIN h.node -> Seq(DOMAIN h.node \ Doc)] /\ \A q \in DOMAIN h.node : IsInjective(r[q])
  <2>1. r = [q \in DOMAIN h.node |-> r[q]]
    BY <1>7 DEF r, RestOf
  <2>2. ASSUME NEW q \in DOMAIN h.node PROVE r[q] \in Seq(DOMAIN h.node \ Doc) /\ IsInjective(r[q])
    BY <1>8, <1>10, Zenon DEF Trees
  <2> QED BY <2>1, <2>2
<1>12. ASSUME NEW q \in DOMAIN h.node, q # p PROVE LinkedInOrder(g, q, r[q])
  <2>1. LinkedInOrder(h, q, kids[q])
    BY Zenon DEF Trees
  <2>2. ASSUME NEW j \in DOMAIN kids[q]
        PROVE  kids[q][j] \in DOMAIN h.node /\ kids[q][j] \notin {n, h.node[n].prev, h.node[n].next}
    <3>1. kids[q][j] \in DOMAIN h.node /\ kids[q][j] # Null /\ h.node[kids[q][j]].parent = q
      BY PlaceOf
    <3>2. ASSUME NEW k \in DOMAIN s PROVE kids[q][j] # s[k]
      BY <1>1, <1>12, <3>1, PlaceOf DEF s
    <3> QED BY <1>2, <1>4, <3>1, <3>2 DEF Nth
  <2>3. r[q] = kids[q]
    BY <1>8, <1>12
  <2>4. /\ g.node[q].firstChild = Nth(kids[q], 1)
        /\ g.node[q].lastChild = Nth(kids[q], Len(kids[q]))
    BY <1>6, <1>12, <2>1, Zenon DEF LinkedInOrder
  <2>5. ASSUME NEW j \in DOMAIN kids[q]
        PROVE  LET e == g.node[kids[q][j]]
               IN /\ kids[q][j] # q /\ e.parent = q /\ e.document = g.node[q].document
                  /\ e.prev = Nth(kids[q], j - 1) /\ e.next = Nth(kids[q], j + 1)
    <3> DEFINE m == kids[q][j]
    <3>1. /\ g.node[m].document = h.node[m].document /\ g.node[m].parent = h.node[m].parent
          /\ g.node[m].prev = h.node[m].prev /\ g.node[m].next = h.node[m].next
          /\ g.node[q].document = h.node[q].document
      BY <1>6, <2>2, Zenon
    <3>2. /\ m # q /\ h.node[m].parent = q /\ h.node[m].document = h.node[q].document
          /\ h.node[m].prev = Nth(kids[q], j - 1) /\ h.node[m].next = Nth(kids[q], j + 1)
      BY PlaceOf
    <3> QED BY <3>1, <3>2, Zenon
  <2> QED BY <2>3, <2>4, <2>5, Zenon DEF LinkedInOrder
<1>13. LinkedInOrder(g, p, r[p])
  <2>1. g.node[p].firstChild = Nth(r[p], 1)
    <3>1. h.node[p].firstChild = Nth(s, 1)
      BY <1>1, Zenon DEF Trees, LinkedInOrder, s
    <3>2. g.node[p].firstChild = IF Nth(s, 1) = n THEN Nth(s, i + 1) ELSE Nth(s, 1)
      <4>1. g.node[p].firstChild
              = IF h.node[p].firstChild = n THEN h.node[n].next ELSE h.node[p].firstChild
        BY <1>1, <1>6, Zenon
      <4> QED BY <1>4, <3>1, <4>1, Zenon
    <3>3. Nth(s, 1) = n <=> i = 1
      BY <1>2, <1>3, <1>4, NthIs
    <3>4. Nth(r[p], 1) = IF 1 < i THEN Nth(s, 1) ELSE Nth(s, 1 + 1)
      BY <1>3, <1>10
    <3> QED BY <1>3, <3>2, <3>3, <3>4
  <2>2. g.node[p].lastChild = Nth(r[p], Len(r[p]))
    <3>1. h.node[p].lastChild = Nth(s, l)
      BY <1>1, <1>3, Zenon DEF Trees, LinkedInOrder, s
    <3>2. g.node[p].lastChild = IF Nth(s, l) = n THEN Nth(s, i - 1) ELSE Nth(s, l)
      <4>1. g.node[p].lastChild = IF h.node[p].lastChild = n THEN h.node[n].prev ELSE h.node[p].lastChild
        BY <1>1, <1>6, Zenon
      <4> QED BY <1>4, <3>1, <4>1, Zenon
    <3>3. Nth(s, l) = n <=> i = l
      BY <1>2, <1>3, <1>4, NthIs
    <3>4. Nth(r[p], l - 1) = IF l - 1 < i THEN Nth(s, l - 1) ELSE Nth(s, l - 1 + 1)
      BY <1>3, <1>10
    <3> QED BY <1>3, <1>10, <3>2, <3>3, <3>4
  <2>3. ASSUME NEW j \in DOMAIN r[p]
        PROVE  LET e == g.node[r[p][j]]
               IN /\ r[p][j] # p /\ e.parent = p /\ e.document = g.node[p].document
                  /\ e.prev = Nth(r[p], j - 1) /\ e.next = Nth(r[p], j + 1)
    <3>1. PICK k \in DOMAIN s : k = (IF j < i THEN j ELSE j + 1) /\ k # i /\ r[p][j] = s[k]
      BY <1>3, <1>10
    <3>2. j \in Int /\ k \in Int /\ i \in Int /\ j - 1 \in 0 .. l /\ j + 1 \in 0 .. l
      BY <1>3, <1>10, <3>1
    <3>3. /\ s[k] \in DOMAIN h.node /\ s[k] # p /\ s[k] # Null
          /\ h.node[s[k]].parent = p /\ h.node[s[k]].document = h.node[p].document
          /\ h.node[s[k]].prev = Nth(s, k - 1) /\ h.node[s[k]].next = Nth(s, k + 1)
          /\ \A o \in DOMAIN s : s[o] = s[k] => o = k
      BY <1>1, PlaceOf DEF s
    <3>4. s[k] # n /\ (s[k] = Nth(s, i - 1) <=> k = i - 1) /\ (s[k] = Nth(s, i + 1) <=> k = i + 1)
      <4>1. ASSUME NEW o \in Int PROVE s[k] = Nth(s, o) <=> k = o
        BY <3>3, NthIs
      <4>2. s[k] # n /\ i - 1 \in Int /\ i + 1 \in Int
        BY <1>2, <3>1, <3>2, <3>3
      <4> QED BY <4>1, <4>2
    <3>5. g.node[s[k]].prev = Nth(r[p], j - 1)
      <4>1. g.node[s[k]].prev = IF k = i + 1 THEN Nth(s, i - 1) ELSE Nth(s, k - 1)
        <5>1. g.node[s[k]].prev = IF s[k] = n THEN Null ELSE IF s[k] = h.node[n].next
                                THEN h.node[n].prev ELSE h.node[s[k]].prev
          BY <1>6, <3>3, Zenon
        <5>2. g.node[s[k]].prev = IF s[k] = Nth(s, i + 1) THEN Nth(s, i - 1) ELSE Nth(s, k - 1)
          BY <1>4, <3>3, <3>4, <5>1, Zenon
        <5> QED BY <3>4, <5>2, Zenon
      <4>2. Nth(r[p], j - 1) = IF j - 1 < i THEN Nth(s, j - 1) ELSE Nth(s, j - 1 + 1)
        BY <1>10, <3>2
      <4> QED BY <3>1, <3>2, <4>1, <4>2
    <3>6. g.node[s[k]].next = Nth(r[p], j + 1)
      <4>1. g.node[s[k]].next = IF k = i - 1 THEN Nth(s, i + 1) ELSE Nth(s, k + 1)
        <5>1. g.node[s[k]].next = IF s[k] = n THEN Null ELSE IF s[k] = h.node[n].prev
                                THEN h.node[n].next ELSE h.node[s[k]].next
          BY <1>6, <3>3, Zenon
        <5>2. g.node[s[k]].next = IF s[k] = Nth(s, i - 1) THEN Nth(s, i + 1) ELSE Nth(s, k + 1)
          BY <1>4, <3>3, <3>4, <5>1, Zenon
        <5> QED BY <3>4, <5>2, Zenon
      <4>2. Nth(r[p], j + 1) = IF j + 1 < i THEN Nth(s, j + 1) ELSE Nth(s, j + 1 + 1)
        BY <1>10, <3>2
      <4> QED BY <3>1, <3>2, <4>1, <4>2
    <3>7. g.node[s[k]].parent = p /\ g.node[s[k]].document = g.node[p].document
      BY <1>1, <1>6, <3>3, <3>4
    <3> QED BY <3>1, <3>3, <3>5, <3>6, <3>7
  <2> QED BY <2>1, <2>2, <2>3, Zenon DEF LinkedInOrder
<1>14. ASSUME NEW m \in DOMAIN h.node
       PROVE  \/ g.node[m].parent \in DOMAIN h.node /\ m \in ToSet(r[g.node[m].parent])
              \/ g.node[m].parent = Null /\ g.node[m].prev = Null /\ g.node[m].next = Null
  <2>1. CASE m = n
    BY <1>6, <2>1
  <2>2. CASE m # n /\ h.node[m].parent # Null
    <3>1. h.node[m].parent \in DOMAIN h.node /\ m \in ToSet(kids[h.node[m].parent])
      BY <2>2, Zenon DEF Trees
    <3>2. g.node[m].parent = h.node[m].parent
      BY <1>6, <2>2
    <3> QED BY <1>8, <1>10, <2>2, <3>1, <3>2 DEF s
  <2>3. CASE m # n /\ h.node[m].parent = Null
    <3>1. h.node[m].prev = Null /\ h.node[m].next = Null
      BY <2>3, NoNull, Zenon DEF Trees
    <3>2. ASSUME NEW j PROVE m # Nth(s, j)
      BY <1>1, <2>3, NoNull, PlaceOf DEF Nth, s
    <3>3. m # h.node[n].prev /\ m # h.node[n].next
      BY <1>4, <3>2, Zenon
    <3> QED BY <1>6, <2>3, <3>1, <3>3, Zenon
  <2> QED BY <2>1, <2>2, <2>3, Zenon
<1>15. Trees(g, r)
  <2>1. \A q \in DOMAIN g.node : IsInjective(r[q]) /\ LinkedInOrder(g, q, r[q])
    BY <1>6, <1>11, <1>12, <1>13, Zenon
  <2>2. r \in [DOMAIN g.node -> Seq(DOMAIN g.node \ Doc)]
    BY <1>6, <1>11, Zenon
  <2>3. \A m \in DOMAIN g.node :
          \/ g.node[m].parent \in DOMAIN g.node /\ m \in ToSet(r[g.node[m].parent])
          \/ g.node[m].parent = Null /\ g.node[m].prev = Null /\ g.node[m].next = Null
    BY <1>6, <1>14, Zenon
  <2> QED BY <2>1, <2>2, <2>3, Zenon DEF Trees
<1>16. ASSUME NEW m \in DOMAIN h.node, h.node[m].next = Null PROVE g.node[m].next = Null
  <2>1. CASE m = n
    BY <1>6, <2>1
  <2>2. CASE m # n /\ m = h.node[n].prev
    <3>1. m = Nth(s, i - 1) /\ m # Null
      BY <1>4, <2>2, NoNull
    <3>2. i - 1 \in DOMAIN s /\ m = s[i - 1] /\ i - 1 + 1 = i
      BY <1>3, <3>1, NthIs
    <3>3. h.node[m].next = Nth(s, i - 1 + 1)
      BY <1>1, <3>2, PlaceOf DEF s
    <3> QED BY <1>2, <1>4, <1>16, <3>2, <3>3 DEF Nth
  <2>3. CASE m # n /\ m # h.node[n].prev
    BY <1>6, <1>16, <2>3
  <2> QED BY <2>1, <2>2, <2>3
<1> QED BY <1>6, <1>15, <1>16, Zenon DEF r, p

(* The links when n, that was in no tree, has become the i-th child of p.   *)
LEMMA TreesLinked ==
  ASSUME NEW h, IsHeap(h), NEW kids, Trees(h, kids), NEW n \in DOMAIN h.node \ Doc,
         h.node[n].parent = Null,
         NEW p \in DOMAIN h.node, p # n, h.node[n].document = h.node[p].document,
         NEW i \in 1 .. Len(kids[p]) + 1,
         NEW g, g = LinkBetween(h, p, n, Nth(kids[p], i - 1), Nth(kids[p], i))
  PROVE  /\ IsHeap(g) /\ g.unlinked = h.unlinked /\ DOMAIN g.node = DOMAIN h.node
         /\ \A m \in DOMAIN h.node :
              /\ g.node[m].document = h.node[m].document
              /\ g.node[m].parent = IF m = n THEN p ELSE h.node[m].parent
         /\ Trees(g, [kids EXCEPT ![p] = InsertAt(kids[p], i, n)])
<1> DEFINE s == kids[p]
           left == Nth(s, i - 1)
           right == Nth(s, i)
           r == [kids EXCEPT ![p] = InsertAt(kids[p], i, n)]
<1>1. s \in Seq(DOMAIN h.node \ Doc) /\ IsInjective(s) /\ Null \notin DOMAIN h.node
  BY NoNull DEF Trees
<1>2. PICK l \in Nat : l = Len(s) /\ DOMAIN s = 1 .. l /\ i \in 1 .. l + 1
  <2>1. Len(s) \in Nat /\ DOMAIN s = 1 .. Len(s)
    BY <1>1, LenProperties
  <2> QED BY <2>1
<1>3. ASSUME NEW q \in DOMAIN h.node PROVE n \notin ToSet(kids[q])
  BY <1>1, PlaceOf DEF ToSet
<1>4. ASSUME NEW k \in DOMAIN s
      PROVE  /\ s[k] \in DOMAIN h.node /\ s[k] # p /\ s[k] # Null /\ s[k] # n
             /\ h.node[s[k]].parent = p /\ h.node[s[k]].document = h.node[p].document
             /\ h.node[s[k]].prev = Nth(s, k - 1) /\ h.node[s[k]].next = Nth(s, k + 1)
             /\ \A o \in DOMAIN s : s[o] = s[k] => o = k
  <2>1. s[k] # n
    BY <1>3 DEF ToSet
  <2> QED BY <2>1, PlaceOf
<1>5. left \notin {p, n} /\ right \notin {p, n} /\ (left = right => left \notin DOMAIN h.node)
  <2>1. ASSUME NEW j PROVE Nth(s, j) \notin {p, n}
    <3> HIDE DEF s
    <3> QED BY <1>1, <1>4 DEF Nth
  <2>2. ASSUME left = right, left \in DOMAIN h.node PROVE FALSE
    <3> HIDE DEF s
    <3>1. i - 1 \in DOMAIN s /\ i \in DOMAIN s /\ s[i - 1] = s[i] /\ i - 1 # i
      BY <1>1, <1>2, <2>2, NthIs
    <3> QED BY <1>4, <3>1
  <2> QED BY <2>1, <2>2
<1>6. /\ IsHeap(g) /\ g.unlinked = h.unlinked /\ DOMAIN g.node = DOMAIN h.node
      /\ \A m \in DOMAIN h.node :
           /\ g.node[m].document = h.node[m].document
           /\ g.node[m].firstChild = IF m = p /\ left = Null THEN n ELSE h.node[m].firstChild
           /\ g.node[m].lastChild = IF m = p /\ right = Null THEN n ELSE h.node[m].lastChild
           /\ g.node[m].parent = IF m = n THEN p ELSE h.node[m].parent
           /\ g.node[m].prev = IF m = n THEN left ELSE IF m = right THEN n ELSE h.node[m].prev
           /\ g.node[m].next = IF m = n THEN right ELSE IF m = left THEN n ELSE h.node[m].next
  <2>1. g = LinkBetween(h, p, n, left, right)
    OBVIOUS
  <2> HIDE DEF left, right
  <2>2. left \notin {p, n} /\ right \notin {p, n} /\ (left = right => left \notin DOMAIN h.node)
    BY <1>5
  <2>3. IsLinked(h, p, n, left, right, g)
    BY <2>1, <2>2, LinkFields, Zenon
  <2> QED BY <2>3, Zenon DEF IsLinked
<1>7. /\ DOMAIN kids = DOMAIN h.node /\ DOMAIN r = DOMAIN h.node /\ r[p] = InsertAt(s, i, n)
      /\ \A q \in DOMAIN h.node : q # p => r[q] = kids[q]
  BY DEF Trees
<1> HIDE DEF r, s, left, right
<1>8. /\ r[p] \in Seq(DOMAIN h.node \ Doc) /\ IsInjective(r[p]) /\ ToSet(r[p]) = ToSet(s) \cup {n}
      /\ DOMAIN r[p] = 1 .. l + 1 /\ Len(r[p]) = l + 1
      /\ \A j \in 1 .. l + 1 : r[p][j] = IF j < i THEN s[j] ELSE IF j = i THEN n ELSE s[j - 1]
      /\ \A j \in 0 .. l + 2 :
           Nth(r[p], j) = IF j < i THEN Nth(s, j) ELSE IF j = i THEN n ELSE Nth(s, j - 1)
  <2>1. i \in 1 .. Len(s) + 1
    BY <1>2
  <2>2. /\ InsertAt(s, i, n) \in Seq(DOMAIN h.node \ Doc)
        /\ DOMAIN InsertAt(s, i, n) = 1 .. Len(s) + 1 /\ Len(InsertAt(s, i, n)) = Len(s) + 1
        /\ \A j \in 1 .. Len(s) + 1 :
             InsertAt(s, i, n)[j] = IF j < i THEN s[j] ELSE IF j = i THEN n ELSE s[j - 1]
    <3>1. IsInserted(DOMAIN h.node \ Doc, s, i, n, InsertAt(s, i, n))
      BY <1>1, <2>1, InsertedTo, Zenon
    <3> QED BY <3>1, Zenon DEF IsInserted
  <2>3. n \notin ToSet(s)
    BY <1>3 DEF s
  <2>4. IsInjective(InsertAt(s, i, n)) /\ ToSet(InsertAt(s, i, n)) = ToSet(s) \cup {n}
    BY <1>1, <2>1, <2>3, PutIn
  <2>5. ASSUME NEW j \in 0 .. Len(s) + 2
        PROVE  Nth(InsertAt(s, i, n), j)
                 = IF j < i THEN Nth(s, j) ELSE IF j = i THEN n ELSE Nth(s, j - 1)
    <3> DEFINE S == DOMAIN h.node \ Doc
    <3>1. s \in Seq(S) /\ n \in S
      BY <1>1
    <3> HIDE DEF S
    <3> QED BY <2>1, <3>1, NthInserted
  <2> QED BY <1>2, <1>7, <2>2, <2>4, <2>5, Zenon
<1>9. r \in [DOMAIN h.node -> Seq(DOMAIN h.node \ Doc)] /\ \A q \in DOMAIN h.node : IsInjective(r[q])
  <2>1. r = [q \in DOMAIN h.node |-> r[q]]
    BY <1>7 DEF r
  <2>2. ASSUME NEW q \in DOMAIN h.node PROVE r[q] \in Seq(DOMAIN h.node \ Doc) /\ IsInjective(r[q])
    BY <1>7, <1>8, Zenon DEF Trees
  <2> QED BY <2>1, <2>2
<1>10. ASSUME NEW q \in DOMAIN h.node, q # p PROVE LinkedInOrder(g, q, r[q])
  <2>1. LinkedInOrder(h, q, kids[q])
    BY Zenon DEF Trees
  <2>2. ASSUME NEW j \in DOMAIN kids[q]
        PROVE  kids[q][j] \in DOMAIN h.node /\ kids[q][j] \notin {n, left, right}
    <3>1. /\ kids[q][j] \in DOMAIN h.node /\ kids[q][j] # Null /\ h.node[kids[q][j]].parent = q
          /\ kids[q][j] # n
      BY <1>1, PlaceOf
    <3>2. ASSUME NEW k \in DOMAIN s PROVE kids[q][j] # s[k]
      BY <1>4, <1>10, <3>1
    <3> QED BY <3>1, <3>2 DEF Nth, left, right
  <2>3. r[q] = kids[q]
    BY <1>7, <1>10
  <2>4. /\ g.node[q].firstChild = Nth(kids[q], 1)
        /\ g.node[q].lastChild = Nth(kids[q], Len(kids[q]))
    BY <1>6, <1>10, <2>1, Zenon DEF LinkedInOrder
  <2>5. ASSUME NEW j \in DOMAIN kids[q]
        PROVE  LET e == g.node[kids[q][j]]
               IN /\ kids[q][j] # q /\ e.parent = q /\ e.document = g.node[q].document
                  /\ e.prev = Nth(kids[q], j - 1) /\ e.next = Nth(kids[q], j + 1)
    <3> DEFINE m == kids[q][j]
    <3>1. /\ g.node[m].document = h.node[m].document /\ g.node[m].parent = h.node[m].parent
          /\ g.node[m].prev = h.node[m].prev /\ g.node[m].next = h.node[m].next
          /\ g.node[q].document = h.node[q].document
      BY <1>6, <2>2, Zenon
    <3>2. /\ m # q /\ h.node[m].parent = q /\ h.node[m].document = h.node[q].document
          /\ h.node[m].prev = Nth(kids[q], j - 1) /\ h.node[m].next = Nth(kids[q], j + 1)
      BY PlaceOf
    <3> QED BY <3>1, <3>2, Zenon
  <2> QED BY <2>3, <2>4, <2>5, Zenon DEF LinkedInOrder
<1>11. LinkedInOrder(g, p, r[p])
  <2>0. i \in Int /\ l \in Nat /\ 1 <= i /\ i <= l + 1
    BY <1>2
  <2>1. g.node[p].firstChild = Nth(r[p], 1)
    <3>1. g.node[p].firstChild = IF left = Null THEN n ELSE Nth(s, 1)
      <4>1. h.node[p].firstChild = Nth(s, 1)
        BY Zenon DEF Trees, LinkedInOrder, s
      <4> QED BY <1>6, <4>1, Zenon
    <3>2. left = Null <=> i = 1
      <4>1. i - 1 \in DOMAIN s <=> i # 1
        BY <1>2, <2>0
      <4> QED BY <1>4, <4>1, NthIs DEF left
    <3>3. Nth(r[p], 1) = IF 1 < i THEN Nth(s, 1) ELSE IF 1 = i THEN n ELSE Nth(s, 1 - 1)
      BY <1>2, <1>8
    <3> QED BY <2>0, <3>1, <3>2, <3>3
  <2>2. g.node[p].lastChild = Nth(r[p], Len(r[p]))
    <3>1. g.node[p].lastChild = IF right = Null THEN n ELSE Nth(s, l)
      <4>1. h.node[p].lastChild = Nth(s, l)
        BY <1>2, Zenon DEF Trees, LinkedInOrder, s
      <4> QED BY <1>6, <4>1, Zenon
    <3>2. right = Null <=> i = l + 1
      <4>1. i \in DOMAIN s <=> i # l + 1
        BY <1>2, <2>0
      <4> QED BY <1>4, <4>1, NthIs DEF right
    <3>3. Nth(r[p], l + 1) = IF l + 1 < i THEN Nth(s, l + 1)
                             ELSE IF l + 1 = i THEN n ELSE Nth(s, l + 1 - 1)
      BY <1>2, <1>8
    <3> QED BY <1>8, <2>0, <3>1, <3>2, <3>3
  <2>3. ASSUME NEW j \in DOMAIN r[p]
        PROVE  LET e == g.node[r[p][j]]
               IN /\ r[p][j] # p /\ e.parent = p /\ e.document = g.node[p].document
                  /\ e.prev = Nth(r[p], j - 1) /\ e.next = Nth(r[p], j + 1)
    <3>1. j \in Int /\ j - 1 \in 0 .. l + 2 /\ j + 1 \in 0 .. l + 2 /\ j \in 1 .. l + 1
      BY <1>2, <1>8
    <3>2. /\ Nth(r[p], j - 1)
               = IF j - 1 < i THEN Nth(s, j - 1) ELSE IF j - 1 = i THEN n ELSE Nth(s, j - 1 - 1)
          /\ Nth(r[p], j + 1)
               = IF j + 1 < i THEN Nth(s, j + 1) ELSE IF j + 1 = i THEN n ELSE Nth(s, j + 1 - 1)
      BY <1>8, <3>1
    <3>3. CASE j = i
      <4>1. r[p][j] = n
        BY <1>8, <2>0, <3>1, <3>3
      <4>2. /\ g.node[n].parent = p /\ g.node[n].document = g.node[p].document
            /\ g.node[n].prev = Nth(s, i - 1) /\ g.node[n].next = Nth(s, i)
        BY <1>6 DEF left, right
      <4>3. Nth(r[p], j - 1) = Nth(s, i - 1) /\ Nth(r[p], j + 1) = Nth(s, i)
        BY <2>0, <3>2, <3>3
      <4> QED BY <4>1, <4>2, <4>3
    <3>4. CASE j # i
      <4>1. PICK k \in DOMAIN s : k = (IF j < i THEN j ELSE j - 1) /\ r[p][j] = s[k] /\ k \in Int
        BY <1>2, <1>8, <3>1, <3>4
      <4>2. /\ s[k] \in DOMAIN h.node /\ s[k] # p /\ s[k] # Null /\ s[k] # n
            /\ h.node[s[k]].parent = p /\ h.node[s[k]].document = h.node[p].document
            /\ h.node[s[k]].prev = Nth(s, k - 1) /\ h.node[s[k]].next = Nth(s, k + 1)
            /\ \A o \in DOMAIN s : s[o] = s[k] => o = k
        BY <1>4
      <4>3. (s[k] = left <=> k = i - 1) /\ (s[k] = right <=> k = i)
        <5>1. ASSUME NEW o \in Int PROVE s[k] = Nth(s, o) <=> k = o
          BY <4>2, NthIs
        <5>2. i - 1 \in Int
          BY <2>0
        <5> QED BY <2>0, <5>1, <5>2 DEF left, right
      <4>4. g.node[s[k]].prev = IF k = i THEN n ELSE Nth(s, k - 1)
        BY <1>6, <4>2, <4>3, Zenon
      <4>5. g.node[s[k]].next = IF k = i - 1 THEN n ELSE Nth(s, k + 1)
        BY <1>6, <4>2, <4>3, Zenon
      <4>6. g.node[s[k]].parent = p /\ g.node[s[k]].document = g.node[p].document
        BY <1>6, <4>2, Zenon
      <4>7. g.node[s[k]].prev = Nth(r[p], j - 1)
        BY <2>0, <3>1, <3>2, <3>4, <4>1, <4>4
      <4>8. g.node[s[k]].next = Nth(r[p], j + 1)
        BY <2>0, <3>1, <3>2, <3>4, <4>1, <4>5
      <4> QED BY <4>1, <4>2, <4>6, <4>7, <4>8
    <3> QED BY <3>3, <3>4
  <2> QED BY <2>1, <2>2, <2>3, Zenon DEF LinkedInOrder
<1>12. ASSUME NEW m \in DOMAIN h.node
       PROVE  \/ g.node[m].parent \in DOMAIN h.node /\ m \in ToSet(r[g.node[m].parent])
              \/ g.node[m].parent = Null /\ g.node[m].prev = Null /\ g.node[m].next = Null
  <2>1. CASE m = n
    BY <1>6, <1>8, <2>1
  <2>2. CASE m # n /\ h.node[m].parent # Null
    <3>1. h.node[m].parent \in DOMAIN h.node /\ m \in ToSet(kids[h.node[m].parent])
      BY <2>2, Zenon DEF Trees
    <3>2. g.node[m].parent = h.node[m].parent
      BY <1>6, <2>2
    <3> QED BY <1>7, <1>8, <2>2, <3>1, <3>2 DEF s
  <2>3. CASE m # n /\ h.node[m].parent = Null
    <3>1. h.node[m].prev = Null /\ h.node[m].next = Null
      BY <1>1, <2>3, Zenon DEF Trees
    <3>2. m # left /\ m # right
      BY <1>1, <1>4, <2>3 DEF Nth, left, right
    <3> QED BY <1>6, <2>3, <3>1, <3>2
  <2> QED BY <2>1, <2>2, <2>3, Zenon
<1>13. Trees(g, r)
  <2>1. \A q \in DOMAIN g.node : IsInjective(r[q]) /\ LinkedInOrder(g, q, r[q])
    BY <1>6, <1>9, <1>10, <1>11, Zenon
  <2>2. r \in [DOMAIN g.node -> Seq(DOMAIN g.node \ Doc)]
    BY <1>6, <1>9, Zenon
  <2>3. \A m \in DOMAIN g.node :
          \/ g.node[m].parent \in DOMAIN g.node /\ m \in ToSet(r[g.node[m].parent])
          \/ g.node[m].parent = Null /\ g.node[m].prev = Null /\ g.node[m].next = Null
    BY <1>6, <1>12, Zenon
  <2> QED BY <2>1, <2>2, <2>3, Zenon DEF Trees
<1> QED BY <1>6, <1>13, Zenon DEF r

-----------------------------------------------------------------------------
(* A node that is in no tree is taken from the list of its document.       *)
LEMMA Unlisted ==
  ASSUME NEW h, IsHeap(h), Listed(h, {}), NEW n \in DOMAIN h.node \ Doc, h.node[n].parent = Null,
         NEW g, g = MarkInUse(h, n)
  PROVE  IsHeap(g) /\ g.node = h.node /\ Listed(g, {n})
<1> DEFINE d == h.node[n].document
           s == h.unlinked[d]
           i == CHOOSE k \in DOMAIN s : s[k] = n
           r == SwapRemove(s, i)
<1>1. d \in Doc
  BY Zenon DEF IsHeap
<1>2. /\ s \in Seq(DOMAIN h.node) /\ IsInjective(s)
      /\ ToSet(s) = {m \in DOMAIN h.node \ Doc : h.node[m].document = d /\ h.node[m].parent = Null}
  BY <1>1 DEF Listed
<1>3. n \in ToSet(s)
  BY <1>2
<1>4. i \in DOMAIN s /\ s[i] = n
  BY <1>3, Zenon DEF ToSet
<1>5. Contains(s, n)
  <2>1. DOMAIN s = 1 .. Len(s)
    BY <1>2, LenProperties
  <2> HIDE DEF i
  <2> QED BY <1>4, <2>1, Zenon DEF Contains
<1>6. r \in Seq(DOMAIN h.node) /\ IsInjective(r) /\ ToSet(r) = ToSet(s) \ {n}
  <2> HIDE DEF i
  <2> QED BY <1>2, <1>4, SwapRemoved
<1>7. g = [h EXCEPT !.unlinked[d] = r]
  BY <1>5, Zenon DEF MarkInUse
<1> HIDE DEF r, s, d
<1>8. /\ h = [node |-> h.node, unlinked |-> h.unlinked]
      /\ h.unlinked = [e \in Doc |-> h.unlinked[e]]
  BY Zenon DEF IsHeap
<1>9. g = [node |-> h.node, unlinked |-> [h.unlinked EXCEPT ![d] = r]]
  BY <1>7, <1>8
<1>10. g.node = h.node /\ g.unlinked = [h.unlinked EXCEPT ![d] = r]
  BY <1>9
<1>11. /\ g.unlinked = [e \in Doc |-> g.unlinked[e]]
       /\ \A e \in Doc : g.unlinked[e] = IF e = d THEN r ELSE h.unlinked[e]
  BY <1>1, <1>8, <1>10
<1>12. IsHeap(g)
  <2>1. g = [node |-> g.node, unlinked |-> g.unlinked]
    BY <1>9, <1>10
  <2> QED BY <1>10, <1>11, <2>1, Zenon DEF IsHeap
<1>13. ASSUME NEW e \in Doc
       PROVE  /\ g.unlinked[e] \in Seq(DOMAIN g.node) /\ IsInjective(g.unlinked[e])
              /\ ToSet(g.unlinked[e]) = {m \in DOMAIN g.node \ Doc :
                                           g.node[m].document = e /\ g.node[m].parent = Null} \ {n}
  <2>1. /\ h.unlinked[e] \in Seq(DOMAIN h.node) /\ IsInjective(h.unlinked[e])
        /\ ToSet(h.unlinked[e])
             = {m \in DOMAIN h.node \ Doc : h.node[m].document = e /\ h.node[m].parent = Null}
    BY DEF Listed
  <2>2. CASE e = d
    BY <1>2, <1>6, <1>10, <1>11, <2>2
  <2>3. CASE e # d
    <3>1. n \notin ToSet(h.unlinked[e]) /\ g.unlinked[e] = h.unlinked[e]
      BY <1>11, <2>1, <2>3 DEF d
    <3> QED BY <1>10, <2>1, <3>1
  <2> QED BY <2>2, <2>3
<1> QED BY <1>10, <1>12, <1>13, Zenon DEF Listed

(* InsertChildPreamble takes n from the place where it is.                 *)
LEMMA Taken ==
  ASSUME NEW h, NEW kids, InOnePlace(h, kids), NEW n \in DOMAIN h.node \ Doc,
         NEW g, g = InsertChildPreamble(h, n)
  PROVE  /\ IsHeap(g) /\ Trees(g, RestOf(kids, n)) /\ Listed(g, {n}) /\ DOMAIN g.node = DOMAIN h.node
         /\ \A m \in DOMAIN h.node :
              /\ g.node[m].document = h.node[m].document
              /\ g.node[m].parent = IF m = n THEN Null ELSE h.node[m].parent
              /\ h.node[m].next = Null => g.node[m].next = Null
<1>1. IsHeap(h) /\ Trees(h, kids) /\ Listed(h, {})
  BY Zenon DEF InOnePlace
<1>2. CASE h.node[n].parent # Null
  <2>1. g = Unlink(h, h.node[n].parent, n)
    BY <1>2, Zenon DEF InsertChildPreamble
  <2>2. /\ IsHeap(g) /\ g.unlinked = h.unlinked /\ DOMAIN g.node = DOMAIN h.node
        /\ \A m \in DOMAIN h.node :
             /\ g.node[m].document = h.node[m].document
             /\ g.node[m].parent = IF m = n THEN Null ELSE h.node[m].parent
             /\ h.node[m].next = Null => g.node[m].next = Null
        /\ Trees(g, RestOf(kids, n))
    BY <1>1, <1>2, <2>1, TreesUnlinked
  <2>3. ASSUME NEW e \in Doc
        PROVE  /\ g.unlinked[e] \in Seq(DOMAIN g.node) /\ IsInjective(g.unlinked[e])
               /\ ToSet(g.unlinked[e]) = {m \in DOMAIN g.node \ Doc :
                                            g.node[m].document = e /\ g.node[m].parent = Null} \ {n}
    <3>1. /\ h.unlinked[e] \in Seq(DOMAIN h.node) /\ IsInjective(h.unlinked[e])
          /\ ToSet(h.unlinked[e])
               = {m \in DOMAIN h.node \ Doc : h.node[m].document = e /\ h.node[m].parent = Null}
      BY <1>1 DEF Listed
    <3> QED BY <1>2, <2>2, <3>1
  <2>4. Listed(g, {n})
    BY <2>3, Zenon DEF Listed
  <2> QED BY <2>2, <2>4, Zenon
<1>3. CASE h.node[n].parent = Null
  <2>1. g = MarkInUse(h, n)
    BY <1>3, Zenon DEF InsertChildPreamble
  <2>2. IsHeap(g) /\ g.node = h.node /\ Listed(g, {n})
    BY <1>1, <1>3, <2>1, Unlisted
  <2>3. ASSUME NEW q \in DOMAIN kids PROVE n \notin ToSet(kids[q])
    <3>1. q \in DOMAIN h.node
      BY <1>1 DEF Trees
    <3> QED BY <1>1, <1>3, <3>1, NoNull, PlaceOf DEF ToSet
  <2>4. RestOf(kids, n) = kids
    BY <1>1, <2>3 DEF RestOf, Trees
  <2>5. Trees(g, kids)
    <3>1. ASSUME NEW q \in DOMAIN h.node PROVE LinkedInOrder(g, q, kids[q])
      <4>1. LinkedInOrder(h, q, kids[q])
        BY <1>1, Zenon DEF Trees
      <4> QED BY <2>2, <4>1 DEF LinkedInOrder
    <3> QED BY <1>1, <2>2, <3>1 DEF Trees
  <2> QED BY <1>3, <2>2, <2>4, <2>5
<1> QED BY <1>2, <1>3

(* Between two children that follow each other a node that is held comes   *)
(* to its place.                                                           *)
LEMMA Placed ==
  ASSUME NEW h, IsHeap(h), NEW kids, Trees(h, kids), NEW n \in DOMAIN h.node \ Doc, Listed(h, {n}),
         h.node[n].parent = Null,
         NEW p \in DOMAIN h.node, p # n, h.node[n].document = h.node[p].document,
         NEW i \in 1 .. Len(kids[p]) + 1,
         NEW g, g = LinkBetween(h, p, n, Nth(kids[p], i - 1), Nth(kids[p], i))
  PROVE  InOnePlace(g, [kids EXCEPT ![p] = InsertAt(kids[p], i, n)])
<1>1. /\ IsHeap(g) /\ g.unlinked = h.unlinked /\ DOMAIN g.node = DOMAIN h.node
      /\ \A m \in DOMAIN h.node :
           /\ g.node[m].document = h.node[m].document
           /\ g.node[m].parent = IF m = n THEN p ELSE h.node[m].parent
      /\ Trees(g, [kids EXCEPT ![p] = InsertAt(kids[p], i, n)])
  BY TreesLinked
<1>2. p # Null
  BY NoNull
<1>3. ASSUME NEW e \in Doc
      PROVE  /\ g.unlinked[e] \in Seq(DOMAIN g.node) /\ IsInjective(g.unlinked[e])
             /\ ToSet(g.unlinked[e]) = {m \in DOMAIN g.node \ Doc :
                                          g.node[m].document = e /\ g.node[m].parent = Null} \ {}
  <2>1. /\ h.unlinked[e] \in Seq(DOMAIN h.node) /\ IsInjective(h.unlinked[e])
        /\ ToSet(h.unlinked[e])
             = {m \in DOMAIN h.node \ Doc : h.node[m].document = e /\ h.node[m].parent = Null} \ {n}
    BY DEF Listed
  <2> QED BY <1>1, <1>2, <2>1
<1> QED BY <1>1, <1>3, Zenon DEF InOnePlace, Listed

-----------------------------------------------------------------------------
(* InsertEndChild, whatever the trees and lists were: n, a node of the      *)
(* same document, leaves the children it was among or the list of its      *)
(* document, and comes after the last child of p.  Nothing else changes.   *)
THEOREM InsertedLast ==
  ASSUME NEW h, NEW kids, InOnePlace(h, kids), NEW p \in DOMAIN h.node,
         NEW n \in DOMAIN h.node \ Doc, n # p, h.node[n].document = h.node[p].document
  PROVE  LET rest == RestOf(kids, n)
         IN InOnePlace(InsertEndChild(h, p, n),
                       [rest EXCEPT ![p] = InsertAt(rest[p], Len(rest[p]) + 1, n)])
<1> DEFINE g == InsertChildPreamble(h, n)
           rest == RestOf(kids, n)
<1>1. /\ IsHeap(g) /\ Trees(g, rest) /\ Listed(g, {n}) /\ DOMAIN g.node = DOMAIN h.node
      /\ \A m \in DOMAIN h.node :
           /\ g.node[m].document = h.node[m].document
           /\ g.node[m].parent = IF m = n THEN Null ELSE h.node[m].parent
           /\ h.node[m].next = Null => g.node[m].next = Null
  BY Taken
<1>2. /\ g.node[n].parent = Null /\ g.node[n].document = g.node[p].document
      /\ p \in DOMAIN g.node /\ n \in DOMAIN g.node \ Doc
  BY <1>1
<1> HIDE DEF g, rest
<1>3. /\ rest[p] \in Seq(DOMAIN g.node \ Doc) /\ Len(rest[p]) \in Nat
      /\ DOMAIN rest[p] = 1 .. Len(rest[p]) /\ LinkedInOrder(g, p, rest[p])
  <2>1. rest[p] \in Seq(DOMAIN g.node \ Doc) /\ LinkedInOrder(g, p, rest[p])
    BY <1>1, <1>2, Zenon DEF Trees
  <2> QED BY <2>1, LenProperties
<1> DEFINE i == Len(rest[p]) + 1
<1>4. InsertEndChild(h, p, n) = LinkBetween(g, p, n, g.node[p].lastChild, Null)
  BY Zenon DEF InsertEndChild, g
<1>5. /\ i \in 1 .. Len(rest[p]) + 1 /\ g.node[p].lastChild = Nth(rest[p], i - 1)
      /\ Null = Nth(rest[p], i)
  <2>1. i \in 1 .. Len(rest[p]) + 1 /\ i - 1 = Len(rest[p]) /\ i \notin DOMAIN rest[p]
    BY <1>3
  <2> QED BY <1>3, <2>1 DEF Nth, LinkedInOrder
<1> HIDE DEF i
<1>6. InsertEndChild(h, p, n) = LinkBetween(g, p, n, Nth(rest[p], i - 1), Nth(rest[p], i))
  BY <1>4, <1>5, Zenon
<1> DEFINE k == InsertEndChild(h, p, n)
<1> HIDE DEF k
<1>7. InOnePlace(k, [rest EXCEPT ![p] = InsertAt(rest[p], i, n)])
  BY <1>1, <1>2, <1>5, <1>6, Placed, Zenon DEF k
<1> QED BY <1>7, Zenon DEF k, i, rest

(* InsertFirstChild: n comes before the first child of p.                  *)
THEOREM InsertedFirst ==
  ASSUME NEW h, NEW kids, InOnePlace(h, kids), NEW p \in DOMAIN h.node,
         NEW n \in DOMAIN h.node \ Doc, n # p, h.node[n].document = h.node[p].document
  PROVE  LET rest == RestOf(kids, n)
         IN InOnePlace(InsertFirstChild(h, p, n), [rest EXCEPT ![p] = InsertAt(rest[p], 1, n)])
<1> DEFINE g == InsertChildPreamble(h, n)
           rest == RestOf(kids, n)
<1>1. /\ IsHeap(g) /\ Trees(g, rest) /\ Listed(g, {n}) /\ DOMAIN g.node = DOMAIN h.node
      /\ \A m \in DOMAIN h.node :
           /\ g.node[m].document = h.node[m].document
           /\ g.node[m].parent = IF m = n THEN Null ELSE h.node[m].parent
           /\ h.node[m].next = Null => g.node[m].next = Null
  BY Taken
<1>2. /\ g.node[n].parent = Null /\ g.node[n].document = g.node[p].document
      /\ p \in DOMAIN g.node /\ n \in DOMAIN g.node \ Doc
  BY <1>1
<1> HIDE DEF g, rest
<1>3. /\ rest[p] \in Seq(DOMAIN g.node \ Doc) /\ Len(rest[p]) \in Nat
      /\ DOMAIN rest[p] = 1 .. Len(rest[p]) /\ LinkedInOrder(g, p, rest[p])
  <2>1. rest[p] \in Seq(DOMAIN g.node \ Doc) /\ LinkedInOrder(g, p, rest[p])
    BY <1>1, <1>2, Zenon DEF Trees
  <2> QED BY <2>1, LenProperties
<1>4. InsertFirstChild(h, p, n) = LinkBetween(g, p, n, Null, g.node[p].firstChild)
  BY Zenon DEF InsertFirstChild, g
<1>5. /\ 1 \in 1 .. Len(rest[p]) + 1 /\ Null = Nth(rest[p], 1 - 1)
      /\ g.node[p].firstChild = Nth(rest[p], 1)
  <2>1. 1 \in 1 .. Len(rest[p]) + 1 /\ 1 - 1 \notin DOMAIN rest[p]
    BY <1>3
  <2> QED BY <1>3, <2>1 DEF Nth, LinkedInOrder
<1>6. InsertFirstChild(h, p, n) = LinkBetween(g, p, n, Nth(rest[p], 1 - 1), Nth(rest[p], 1))
  BY <1>4, <1>5, Zenon
<1> DEFINE k == InsertFirstChild(h, p, n)
<1> HIDE DEF k
<1>7. InOnePlace(k, [rest EXCEPT ![p] = InsertAt(rest[p], 1, n)])
  BY <1>1, <1>2, <1>5, <1>6, Placed, Zenon DEF k
<1> QED BY <1>7, Zenon DEF k, rest

(* InsertAfterChild: n comes right after a, a child of p other than n.  The *)
(* case that the code leaves undefined is left out: n is the last child    *)
(* and already comes right after a.                                        *)
THEOREM InsertedAfter ==
  ASSUME NEW h, NEW kids, InOnePlace(h, kids), NEW p \in DOMAIN h.node,
         NEW n \in DOMAIN h.node \ Doc, n # p, h.node[n].document = h.node[p].document,
         NEW a \in DOMAIN h.node, h.node[a].parent = p, a # n,
         ~ (h.node[a].next = n /\ h.node[n].next = Null)
  PROVE  LET rest == RestOf(kids, n)
         IN \E i \in DOMAIN rest[p] :
              /\ rest[p][i] = a
              /\ InOnePlace(InsertAfterChild(h, p, a, n),
                            [rest EXCEPT ![p] = InsertAt(rest[p], i + 1, n)])
<1> DEFINE g == InsertChildPreamble(h, n)
           rest == RestOf(kids, n)
<1>1. /\ IsHeap(g) /\ Trees(g, rest) /\ Listed(g, {n}) /\ DOMAIN g.node = DOMAIN h.node
      /\ \A m \in DOMAIN h.node :
           /\ g.node[m].document = h.node[m].document
           /\ g.node[m].parent = IF m = n THEN Null ELSE h.node[m].parent
           /\ h.node[m].next = Null => g.node[m].next = Null
  BY Taken
<1>2. /\ g.node[n].parent = Null /\ g.node[n].document = g.node[p].document
      /\ p \in DOMAIN g.node /\ n \in DOMAIN g.node \ Doc
  BY <1>1
<1> HIDE DEF g, rest
<1>3. /\ rest[p] \in Seq(DOMAIN g.node \ Doc) /\ Len(rest[p]) \in Nat
      /\ DOMAIN rest[p] = 1 .. Len(rest[p]) /\ LinkedInOrder(g, p, rest[p])
  <2>1. rest[p] \in Seq(DOMAIN g.node \ Doc) /\ LinkedInOrder(g, p, rest[p])
    BY <1>1, <1>2, Zenon DEF Trees
  <2> QED BY <2>1, LenProperties
<1>4. PICK i \in DOMAIN rest[p] : rest[p][i] = a
  <2>1. a \in DOMAIN g.node /\ g.node[a].parent = p /\ p # Null
    BY <1>1, <1>2, NoNull
  <2>2. a \in ToSet(rest[p])
    BY <1>1, <2>1, Zenon DEF Trees
  <2> QED BY <2>2, Zenon DEF ToSet
<1> DEFINE j == i + 1
<1>5. g.node[a].next = Nth(rest[p], j) /\ a = Nth(rest[p], i)
  BY <1>3, <1>4 DEF LinkedInOrder, Nth
<1>6. i \in Int /\ j = i + 1 /\ j \in 1 .. Len(rest[p]) + 1 /\ j - 1 = i
  BY <1>3
<1> HIDE DEF j
<1> DEFINE k == InsertAfterChild(h, p, a, n)
<1>7. k = LinkBetween(g, p, n, Nth(rest[p], j - 1), Nth(rest[p], j))
  <2>1. CASE h.node[a].next # Null
    <3>1. k = LinkBetween(g, p, n, a, g.node[a].next)
      BY <2>1, Zenon DEF InsertAfterChild, g
    <3> QED BY <1>5, <1>6, <3>1
  <2>2. CASE h.node[a].next = Null
    <3>1. k = InsertEndChild(h, p, n)
      BY <2>2, Zenon DEF InsertAfterChild
    <3>2. InsertEndChild(h, p, n) = LinkBetween(g, p, n, g.node[p].lastChild, Null)
      BY Zenon DEF InsertEndChild, g
    <3>3. Nth(rest[p], j) = Null
      BY <1>1, <1>5, <2>2
    <3>4. j \notin DOMAIN rest[p]
      <4>1. ASSUME j \in DOMAIN rest[p] PROVE FALSE
        <5>1. rest[p][j] # Null
          BY <1>1, <1>2, <4>1, PlaceOf
        <5> QED BY <3>3, <4>1, <5>1 DEF Nth
      <4> QED BY <4>1
    <3>5. i = Len(rest[p])
      BY <1>3, <1>6, <3>4
    <3>6. g.node[p].lastChild = Nth(rest[p], i)
      BY <1>3, <3>5, Zenon DEF LinkedInOrder
    <3> QED BY <1>6, <3>1, <3>2, <3>3, <3>6
  <2> QED BY <2>1, <2>2
<1> HIDE DEF k
<1>8. InOnePlace(k, [rest EXCEPT ![p] = InsertAt(rest[p], j, n)])
  BY <1>1, <1>2, <1>6, <1>7, Placed, Zenon
<1> QED BY <1>4, <1>6, <1>8, Zenon DEF k, rest

(* CreateUnlinkedNode: as long as there is room, the new node is one that   *)
(* was not there, without children, and in the list of its document.       *)
THEOREM CreatedUnlinked ==
  ASSUME NEW h, NEW kids, InOnePlace(h, kids), NEW d \in Doc, NEW kind, NEW value,
         Node \ DOMAIN h.node # {}
  PROVE  InOnePlace(CreateUnlinkedNode(h, d, kind, value),
                    [m \in DOMAIN kids \cup {Alloc(h)} |-> IF m = Alloc(h) THEN << >> ELSE kids[m]])
<1> DEFINE n == Alloc(h)
           e == XMLNode(d, kind, value)
           g == CreateUnlinkedNode(h, d, kind, value)
           k == [m \in DOMAIN kids \cup {n} |-> IF m = n THEN << >> ELSE kids[m]]
           D == DOMAIN h.node
<1>1. IsHeap(h) /\ Trees(h, kids) /\ Listed(h, {}) /\ Null \notin D
  BY NoNull, Zenon DEF InOnePlace
<1>2. n \in Node \ D
  <2>1. Node \ D \subseteq Nat /\ Node \ D # {}
    BY NodesAssumption
  <2>2. PICK x \in Node \ D : \A y \in Node \ D : x <= y
    BY <2>1, Least
  <2> QED BY <2>2, Zenon DEF Alloc
<1>3. n \notin Doc /\ n # Null /\ Doc \subseteq D
  BY <1>1, <1>2, NodesAssumption DEF IsHeap
<1>4. /\ IsNode(e) /\ e.document = d /\ e.firstChild = Null /\ e.lastChild = Null
      /\ e.parent = Null /\ e.prev = Null /\ e.next = Null
  BY DEF XMLNode, IsNode
<1>5. /\ g = [node |-> [m \in D \cup {n} |-> IF m = n THEN e ELSE h.node[m]],
              unlinked |-> [h.unlinked EXCEPT ![d] = Append(h.unlinked[d], n)]]
      /\ g.node = [m \in D \cup {n} |-> IF m = n THEN e ELSE h.node[m]]
      /\ g.unlinked = [h.unlinked EXCEPT ![d] = Append(h.unlinked[d], n)]
  BY DEF CreateUnlinkedNode
<1>6. /\ h.node = [m \in D |-> h.node[m]] /\ h.unlinked = [c \in Doc |-> h.unlinked[c]]
      /\ kids \in [D -> Seq(D \ Doc)]
  BY <1>1, Zenon DEF IsHeap, Trees
<1> HIDE DEF n, e, g
<1>7. /\ g.node = [m \in D \cup {n} |-> g.node[m]] /\ DOMAIN g.node = D \cup {n} /\ g.node[n] = e
      /\ \A m \in D : g.node[m] = h.node[m]
  BY <1>2, <1>5
<1>8. /\ k = [m \in D \cup {n} |-> k[m]] /\ DOMAIN k = D \cup {n} /\ k[n] = << >>
      /\ \A m \in D : k[m] = kids[m]
  <2>1. DOMAIN kids = D
    BY <1>6
  <2> HIDE DEF D
  <2> QED BY <1>2, <2>1
<1>9. /\ g.unlinked = [c \in Doc |-> g.unlinked[c]] /\ g.unlinked[d] = Append(h.unlinked[d], n)
      /\ \A c \in Doc : c # d => g.unlinked[c] = h.unlinked[c]
  BY <1>5, <1>6
<1> HIDE DEF k, D
<1>10. IsHeap(g)
  <2>1. g = [node |-> g.node, unlinked |-> g.unlinked]
    BY <1>5
  <2>2. D \subseteq Doc \cup Node /\ \A m \in D : IsNode(h.node[m]) /\ h.node[m].document \in Doc
    BY <1>1, Zenon DEF IsHeap, D
  <2>3. Doc \subseteq D \cup {n} /\ D \cup {n} \subseteq Doc \cup Node
    BY <1>2, <1>3, <2>2
  <2>4. \A m \in D \cup {n} : IsNode(g.node[m]) /\ g.node[m].document \in Doc
    BY <1>4, <1>7, <2>2
  <2> QED BY <1>7, <1>9, <2>1, <2>3, <2>4, Zenon DEF IsHeap
<1>11. Trees(g, k)
  <2>1. k \in [D \cup {n} -> Seq((D \cup {n}) \ Doc)]
    <3>1. << >> \in Seq((D \cup {n}) \ Doc)
      OBVIOUS
    <3>2. Seq(D \ Doc) \subseteq Seq((D \cup {n}) \ Doc)
      <4>1. D \ Doc \subseteq (D \cup {n}) \ Doc
        OBVIOUS
      <4> QED BY <4>1, SeqMonotonic
    <3>3. \A m \in D \cup {n} : k[m] \in Seq((D \cup {n}) \ Doc)
      BY <1>6, <1>8, <3>1, <3>2, Zenon
    <3> QED BY <1>8, <3>3, Zenon
  <2>2. IsInjective(k[n]) /\ LinkedInOrder(g, n, k[n])
    <3>1. DOMAIN << >> = {} /\ Len(<< >>) = 0 /\ 1 \notin {} /\ 0 \notin {}
      OBVIOUS
    <3> QED BY <1>4, <1>7, <1>8, <3>1, Zenon DEF IsInjective, LinkedInOrder, Nth
  <2>3. ASSUME NEW q \in D PROVE IsInjective(k[q]) /\ LinkedInOrder(g, q, k[q])
    <3>1. k[q] = kids[q] /\ g.node[q] = h.node[q] /\ q \in DOMAIN h.node
      BY <1>7, <1>8 DEF D
    <3>2. IsInjective(kids[q]) /\ LinkedInOrder(h, q, kids[q])
      BY <1>1, <3>1, Zenon DEF Trees
    <3>3. \A j \in DOMAIN kids[q] : g.node[kids[q][j]] = h.node[kids[q][j]]
      BY <1>1, <1>7, <3>1, PlaceOf DEF D
    <3> QED BY <3>1, <3>2, <3>3 DEF LinkedInOrder
  <2>4. ASSUME NEW m \in D \cup {n}
        PROVE  \/ g.node[m].parent \in D \cup {n} /\ m \in ToSet(k[g.node[m].parent])
               \/ g.node[m].parent = Null /\ g.node[m].prev = Null /\ g.node[m].next = Null
    <3>1. CASE m = n
      BY <1>4, <1>7, <3>1
    <3>2. CASE m \in D
      <4>1. \/ h.node[m].parent \in D /\ m \in ToSet(kids[h.node[m].parent])
            \/ h.node[m].parent = Null /\ h.node[m].prev = Null /\ h.node[m].next = Null
        BY <1>1, <3>2, Zenon DEF Trees, D
      <4> QED BY <1>7, <1>8, <3>2, <4>1
    <3> QED BY <3>1, <3>2
  <2> QED BY <1>7, <2>1, <2>2, <2>3, <2>4, Zenon DEF Trees
<1>12. ASSUME NEW c \in Doc
       PROVE  /\ g.unlinked[c] \in Seq(D \cup {n}) /\ IsInjective(g.unlinked[c])
              /\ ToSet(g.unlinked[c]) = {m \in (D \cup {n}) \ Doc :
                                           g.node[m].document = c /\ g.node[m].parent = Null} \ {}
  <2> DEFINE s == h.unlinked[c]
  <2>1. /\ s \in Seq(D) /\ IsInjective(s)
        /\ ToSet(s) = {m \in D \ Doc : h.node[m].document = c /\ h.node[m].parent = Null}
    BY <1>1 DEF Listed, D
  <2>2. s \in Seq(D \cup {n})
    <3>1. D \subseteq D \cup {n}
      OBVIOUS
    <3> QED BY <2>1, <3>1, SeqMonotonic
  <2>3. CASE c # d
    <3>1. g.unlinked[c] = s
      BY <1>9, <2>3
    <3>2. {m \in (D \cup {n}) \ Doc : g.node[m].document = c /\ g.node[m].parent = Null}
            = {m \in D \ Doc : h.node[m].document = c /\ h.node[m].parent = Null}
      BY <1>2, <1>4, <1>7, <2>3
    <3> QED BY <2>1, <2>2, <3>1, <3>2
  <2>4. CASE c = d
    <3>1. {m \in (D \cup {n}) \ Doc : g.node[m].document = c /\ g.node[m].parent = Null}
            = {m \in D \ Doc : h.node[m].document = c /\ h.node[m].parent = Null} \cup {n}
      BY <1>2, <1>3, <1>4, <1>7, <2>4
    <3>2. n \notin ToSet(s)
      BY <1>2, <2>1
    <3>3. g.unlinked[c] = Append(s, n)
      BY <1>9, <2>4
    <3>4. /\ Append(s, n) \in Seq(D \cup {n}) /\ IsInjective(Append(s, n))
          /\ ToSet(Append(s, n)) = ToSet(s) \cup {n}
      <4> HIDE DEF s
      <4>1. PICK l \in Nat : l = Len(s) /\ DOMAIN s = 1 .. l
        BY <2>2
      <4>2. /\ Append(s, n) \in Seq(D \cup {n}) /\ Len(Append(s, n)) = Len(s) + 1
            /\ \A j \in 1 .. Len(s) : Append(s, n)[j] = s[j]
            /\ Append(s, n)[Len(s) + 1] = n
        BY <2>2, AppendProperties
      <4>3. DOMAIN Append(s, n) = 1 .. l + 1 /\ l + 1 \in 1 .. l + 1
        BY <4>1, <4>2
      <4>4. \A j \in 1 .. l + 1 : j \in 1 .. l \/ j = l + 1
        BY <4>1
      <4>5. \A j \in 1 .. l : j \in 1 .. l + 1
        BY <4>1
      <4>6. IsInjective(Append(s, n))
        BY <2>1, <3>2, <4>1, <4>2, <4>3, <4>4 DEF IsInjective, ToSet
      <4>7. ToSet(Append(s, n)) = ToSet(s) \cup {n}
        BY <4>1, <4>2, <4>3, <4>4, <4>5 DEF ToSet
      <4> QED BY <4>2, <4>6, <4>7
    <3> QED BY <2>1, <3>1, <3>3, <3>4
  <2> QED BY <2>3, <2>4
<1>13. Listed(g, {})
  BY <1>7, <1>12, Zenon DEF Listed
<1> QED BY <1>10, <1>11, <1>13, Zenon DEF InOnePlace, g, k, n

(* The documents at first: no children, and nothing in the lists.          *)
THEOREM DocumentsFirst == InOnePlace(XMLDocuments, [d \in Doc |-> << >>])
<1> DEFINE h == XMLDocuments
           kids == [d \in Doc |-> << >>]
<1>1. /\ h = [node |-> [d \in Doc |-> XMLNode(d, "document", << >>)], unlinked |-> [d \in Doc |-> << >>]]
      /\ h.node = [d \in Doc |-> XMLNode(d, "document", << >>)] /\ h.unlinked = [d \in Doc |-> << >>]
  BY DEF XMLDocuments
<1>2. ASSUME NEW d \in Doc
      PROVE  /\ IsNode(h.node[d]) /\ h.node[d].document = d
             /\ h.node[d].firstChild = Null /\ h.node[d].lastChild = Null
             /\ h.node[d].parent = Null /\ h.node[d].prev = Null /\ h.node[d].next = Null
  BY <1>1 DEF XMLNode, IsNode
<1> HIDE DEF h
<1>3. DOMAIN h.node = Doc /\ (\A d \in Doc : h.unlinked[d] = << >>) /\ \A d \in Doc : kids[d] = << >>
  BY <1>1
<1>4. DOMAIN << >> = {} /\ Len(<< >>) = 0 /\ 1 \notin {} /\ 0 \notin {} /\ \A S : << >> \in Seq(S)
  OBVIOUS
<1>5. IsHeap(h)
  <2>1. h = [node |-> h.node, unlinked |-> h.unlinked]
    BY <1>1
  <2>2. h.node = [m \in DOMAIN h.node |-> h.node[m]] /\ h.unlinked = [d \in Doc |-> h.unlinked[d]]
    BY <1>1
  <2> QED BY <1>2, <1>3, <2>1, <2>2 DEF IsHeap
<1>6. kids \in [DOMAIN h.node -> Seq(DOMAIN h.node \ Doc)]
  BY <1>3, <1>4, Zenon
<1> HIDE DEF kids
<1>7. ASSUME NEW p \in Doc PROVE IsInjective(kids[p]) /\ LinkedInOrder(h, p, kids[p])
  BY <1>2, <1>3, <1>4, Zenon DEF IsInjective, LinkedInOrder, Nth
<1>8. Trees(h, kids)
  BY <1>2, <1>3, <1>6, <1>7, Zenon DEF Trees
<1>9. Listed(h, {})
  <2> SUFFICES ASSUME NEW d \in Doc
               PROVE  /\ h.unlinked[d] \in Seq(DOMAIN h.node) /\ IsInjective(h.unlinked[d])
                      /\ ToSet(h.unlinked[d]) = {n \in DOMAIN h.node \ Doc :
                             h.node[n].document = d /\ h.node[n].parent = Null} \ {}
    BY Zenon DEF Listed
  <2>1. h.unlinked[d] = << >>
    BY <1>3
  <2>2. h.unlinked[d] \in Seq(DOMAIN h.node) /\ IsInjective(h.unlinked[d])
    BY <1>4, <2>1, Zenon DEF IsInjective
  <2>3. ToSet(h.unlinked[d]) = {}
    BY <1>4, <2>1, Zenon DEF ToSet
  <2> QED BY <1>3, <2>2, <2>3
<1> QED BY <1>5, <1>8, <1>9, Zenon DEF InOnePlace, h, kids

(* The links leave no choice: no two ways to say what the children of the  *)
(* nodes are agree with them.                                              *)
THEOREM ChildrenDetermined ==
  ASSUME NEW h, NEW kids, InOnePlace(h, kids), NEW others, InOnePlace(h, others)
  PROVE  kids = others
<1>1. IsHeap(h) /\ Trees(h, kids) /\ Trees(h, others) /\ Null \notin DOMAIN h.node
  BY NoNull, Zenon DEF InOnePlace
<1>2. ASSUME NEW p \in DOMAIN h.node PROVE kids[p] = others[p]
  <2> DEFINE s == kids[p]
             t == others[p]
             Differ == {i \in Nat : i >= 1 /\ Nth(s, i) # Nth(t, i)}
  <2>1. /\ s \in Seq(DOMAIN h.node \ Doc) /\ t \in Seq(DOMAIN h.node \ Doc)
        /\ Nth(s, 1) = Nth(t, 1)
    <3>1. /\ s \in Seq(DOMAIN h.node \ Doc) /\ LinkedInOrder(h, p, s)
          /\ t \in Seq(DOMAIN h.node \ Doc) /\ LinkedInOrder(h, p, t)
      BY <1>1, Zenon DEF Trees
    <3> HIDE DEF s, t
    <3> QED BY <3>1, Zenon DEF LinkedInOrder
  <2>2. /\ \A j \in DOMAIN s : s[j] # Null /\ h.node[s[j]].next = Nth(s, j + 1)
        /\ \A j \in DOMAIN t : t[j] # Null /\ h.node[t[j]].next = Nth(t, j + 1)
    BY <1>1, PlaceOf
  <2> HIDE DEF s, t
  <2>3. Differ = {}
    <3> SUFFICES ASSUME Differ # {} PROVE FALSE
      OBVIOUS
    <3>1. PICK i \in Differ : \A j \in Differ : i <= j
      <4>1. Differ \subseteq Nat
        OBVIOUS
      <4> HIDE DEF Differ
      <4> QED BY <4>1, Least
    <3>2. i \in Nat /\ i > 1 /\ i - 1 \in Nat /\ i - 1 >= 1 /\ i - 1 + 1 = i
      BY <2>1, <3>1
    <3>3. Nth(s, i - 1) = Nth(t, i - 1)
      BY <3>1, <3>2
    <3>4. CASE i - 1 \in DOMAIN s
      <4>1. i - 1 \in DOMAIN t /\ s[i - 1] = t[i - 1]
        BY <2>2, <3>3, <3>4, NthIs
      <4>2. Nth(s, i) = Nth(t, i)
        BY <2>2, <3>2, <3>4, <4>1
      <4> QED BY <3>1, <4>2
    <3>5. CASE i - 1 \notin DOMAIN s
      <4>1. i - 1 \notin DOMAIN t
        BY <2>2, <3>3, <3>5, NthIs
      <4>2. i \notin DOMAIN s /\ i \notin DOMAIN t
        BY <2>1, <3>2, <3>5, <4>1
      <4> QED BY <3>1, <4>2 DEF Nth
    <3> QED BY <3>4, <3>5
  <2>4. \A i \in Nat : i >= 1 => Nth(s, i) = Nth(t, i)
    BY <2>3
  <2>5. \A i \in Nat : i >= 1 => (i \in DOMAIN s <=> i \in DOMAIN t)
    BY <2>2, <2>4, NthIs
  <2>6. PICK k \in Nat, l \in Nat : k = Len(s) /\ l = Len(t) /\ DOMAIN s = 1 .. k /\ DOMAIN t = 1 .. l
    BY <2>1
  <2>7. k = l
    <3>1. CASE k < l
      BY <2>5, <2>6, <3>1
    <3>2. CASE l < k
      BY <2>5, <2>6, <3>2
    <3> QED BY <3>1, <3>2
  <2>8. ASSUME NEW i \in 1 .. k PROVE s[i] = t[i]
    <3>1. Nth(s, i) = Nth(t, i) /\ i \in DOMAIN s /\ i \in DOMAIN t
      BY <2>4, <2>6, <2>7
    <3> QED BY <3>1 DEF Nth
  <2>9. s = t
    BY <2>1, <2>6, <2>7, <2>8, SeqEqual
  <2> QED BY <2>9 DEF s, t
<1>3. /\ kids \in [DOMAIN h.node -> Seq(DOMAIN h.node \ Doc)]
      /\ others \in [DOMAIN h.node -> Seq(DOMAIN h.node \ Doc)]
  BY <1>1, Zenon DEF Trees
<1> QED BY <1>2, <1>3

=============================================================================
