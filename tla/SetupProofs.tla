------------------------------ MODULE SetupProofs ------------------------------
(***************************************************************************)
(* What a partition is given before it starts, and how it is asked once it *)
(* runs: messages and routes.                                              *)
(*                                                                         *)
(* Messages.  What a stub is told its handler hears, and what the handler  *)
(* answers the stub returns: for all names, numbers and lists of names.    *)
(* Everything is about Carries: what bytes a buffer has from an offset on. *)
(* A writer lays out bytes that a buffer then carries, and a reader finds  *)
(* in them what was laid out.                                              *)
(*                                                                         *)
(* Routes.  How they are cut, for any number of partitions, edges and      *)
(* routes: first that the runs are the visits of the route to the          *)
(* partition, which is what the properties take them for; then that the    *)
(* pieces are found.                                                       *)
(***************************************************************************)
EXTENDS Messages, RouteSplit, LeastElements, SequenceTheorems, TLAPS

Character == STRING \ {"null"}
Value == STRING \cup {"null"} \cup Int \cup BOOLEAN \cup LaneIndex \cup Real
Byte  == {"unset", "char", "int", "double", "bool"} \X Value \X (1 .. 8)

Carries(buffer, offset, bytes) ==
  \A i \in 1 .. Len(bytes) :
    /\ offset + i \in 1 .. Len(buffer)
    /\ buffer[offset + i] = bytes[i]

-----------------------------------------------------------------------------
(* Sequences of bytes.                                                     *)

LEMMA Numbers ==
  ASSUME NEW type \in {"int", "double", "bool"}, NEW value \in Value
  PROVE  /\ Bytes(type, value) \in Seq(Byte) /\ Len(Bytes(type, value)) = sizeof[type]
         /\ sizeof[type] \in 1 .. 8
         /\ \A i \in 1 .. sizeof[type] : Bytes(type, value)[i] = <<type, value, i>>
<1>1. sizeof[type] \in 1 .. 8
  BY DEF sizeof
<1>2. Bytes(type, value) = [i \in 1 .. sizeof[type] |-> <<type, value, i>>]
  BY DEF Bytes
<1>3. \A i \in 1 .. sizeof[type] : <<type, value, i>> \in Byte
  BY <1>1 DEF Byte
<1>4. \A i \in 1 .. sizeof[type] : Bytes(type, value)[i] = <<type, value, i>>
  BY <1>2
<1>5. Bytes(type, value) \in [1 .. sizeof[type] -> Byte]
  BY <1>2, <1>3
<1> HIDE DEF Byte
<1>6. Bytes(type, value) \in Seq(Byte) /\ Len(Bytes(type, value)) = sizeof[type]
  BY <1>1, <1>5
<1> QED BY <1>1, <1>4, <1>6

LEMMA Nulls == NullByte \in Byte /\ NullByte = <<"char", "null", 1>>
<1>1. "null" \in Value
  BY DEF Value
<1>2. 1 \in 1 .. 8
  OBVIOUS
<1> QED BY <1>1, <1>2 DEF NullByte, Byte

LEMMA Letters ==
  ASSUME NEW name \in Names
  PROVE  /\ Terminated(name) \in Seq(Byte) /\ Len(name) \in Nat
         /\ Len(Terminated(name)) = Len(name) + 1
         /\ \A i \in 1 .. Len(name) : Terminated(name)[i] = <<"char", name[i], 1>>
         /\ Terminated(name)[Len(name) + 1] = NullByte
         /\ \A i \in 1 .. Len(name) : <<"char", name[i], 1>> # NullByte
<1>1. name \in Seq(Character) /\ Len(name) \in Nat /\ DOMAIN name = 1 .. Len(name)
  BY DEF Names, Character
<1>2. \A i \in 1 .. Len(name) : name[i] \in Character
  BY <1>1
<1>3. \A i \in 1 .. Len(name) : <<"char", name[i], 1>> \in Byte /\ name[i] # "null"
  BY <1>2 DEF Byte, Value, Character
<1> DEFINE t == [i \in 1 .. Len(name) |-> <<"char", name[i], 1>>]
<1>4. t \in Seq(Byte) /\ Len(t) = Len(name) /\ \A i \in 1 .. Len(name) : t[i] = <<"char", name[i], 1>>
  <2> HIDE DEF Byte
  <2> QED BY <1>1, <1>3
<1>5. Terminated(name) = t \o <<NullByte>>
  BY <1>1 DEF Terminated
<1>6. Terminated(name) \in Seq(Byte) /\ Len(Terminated(name)) = Len(name) + 1
  <2> HIDE DEF Byte, t
  <2> QED BY <1>1, <1>4, <1>5, Nulls
<1>7. /\ \A i \in 1 .. Len(name) : Terminated(name)[i] = t[i]
      /\ Terminated(name)[Len(name) + 1] = NullByte
  <2> HIDE DEF Byte, t
  <2> QED BY <1>1, <1>4, <1>5, Nulls
<1>8. \A i \in 1 .. Len(name) : <<"char", name[i], 1>> # NullByte
  BY <1>3 DEF NullByte
<1> QED BY <1>1, <1>4, <1>6, <1>7, <1>8

LEMMA Unwrittens ==
  ASSUME NEW size \in Nat
  PROVE  Unwritten(size) \in Seq(Byte) /\ Len(Unwritten(size)) = size
<1>1. Unset \in Byte
  BY DEF Unset, Byte, Value
<1>2. Unwritten(size) \in [1 .. size -> Byte]
  BY <1>1 DEF Unwritten
<1> QED BY <1>2

-----------------------------------------------------------------------------
(* Carrying.                                                               *)

LEMMA Copied ==
  ASSUME NEW buffer \in Seq(Byte), NEW offset \in Nat, NEW bytes \in Seq(Byte),
         offset + Len(bytes) <= Len(buffer), NEW b, b = Copy(buffer, offset, bytes)
  PROVE  /\ b \in Seq(Byte) /\ Len(b) = Len(buffer)
         /\ Carries(b, offset, bytes)
         /\ \A i \in 1 .. Len(buffer) : i <= offset \/ i > offset + Len(bytes) => b[i] = buffer[i]
<1> USE DEF Carries
<1>1. /\ Len(buffer) \in Nat /\ DOMAIN buffer = 1 .. Len(buffer)
      /\ Len(bytes) \in Nat /\ DOMAIN bytes = 1 .. Len(bytes)
  OBVIOUS
<1>2. b = [i \in 1 .. Len(buffer) |->
            IF i - offset \in 1 .. Len(bytes) THEN bytes[i - offset] ELSE buffer[i]]
  BY <1>1 DEF Copy
<1>3. b \in [1 .. Len(buffer) -> Byte]
  <2>1. \A i \in 1 .. Len(buffer) : buffer[i] \in Byte
    OBVIOUS
  <2>2. \A i \in 1 .. Len(bytes) : bytes[i] \in Byte
    OBVIOUS
  <2> QED BY <1>2, <2>1, <2>2
<1>4. b \in Seq(Byte) /\ Len(b) = Len(buffer)
  BY <1>1, <1>3
<1>5. ASSUME NEW i \in 1 .. Len(bytes)
      PROVE  offset + i \in 1 .. Len(buffer) /\ b[offset + i] = bytes[i]
  <2>1. offset + i \in 1 .. Len(buffer) /\ (offset + i) - offset = i
    BY <1>1
  <2> QED BY <1>2, <2>1
<1>6. ASSUME NEW i \in 1 .. Len(buffer), i <= offset \/ i > offset + Len(bytes)
      PROVE  b[i] = buffer[i]
  <2>1. i - offset \notin 1 .. Len(bytes)
    BY <1>1, <1>6
  <2> QED BY <1>2, <2>1
<1> QED BY <1>4, <1>5, <1>6

(* What is written elsewhere leaves alone what a buffer carries.           *)
LEMMA StillCarried ==
  ASSUME NEW buffer, NEW b, NEW offset \in Nat, NEW from \in Nat, NEW to \in Nat, NEW bytes,
         Len(bytes) \in Nat, Len(b) = Len(buffer), Len(buffer) \in Nat,
         \A i \in 1 .. Len(buffer) : i <= from \/ i > to => b[i] = buffer[i],
         offset + Len(bytes) <= from \/ offset >= to,
         Carries(buffer, offset, bytes)
  PROVE  Carries(b, offset, bytes)
BY DEF Carries

LEMMA CarriedApart ==
  ASSUME NEW buffer, NEW offset \in Nat, NEW x \in Seq(Byte), NEW y \in Seq(Byte),
         Carries(buffer, offset, x \o y), Len(buffer) \in Nat
  PROVE  Carries(buffer, offset, x) /\ Carries(buffer, offset + Len(x), y)
<1>1. Len(x) \in Nat /\ Len(y) \in Nat /\ Len(x \o y) = Len(x) + Len(y)
  OBVIOUS
<1>2. ASSUME NEW i \in 1 .. Len(x)
      PROVE  offset + i \in 1 .. Len(buffer) /\ buffer[offset + i] = x[i]
  <2>1. i \in 1 .. Len(x \o y) /\ (x \o y)[i] = x[i]
    BY <1>1
  <2> QED BY <2>1 DEF Carries
<1>3. ASSUME NEW i \in 1 .. Len(y)
      PROVE  (offset + Len(x)) + i \in 1 .. Len(buffer) /\ buffer[(offset + Len(x)) + i] = y[i]
  <2>1. Len(x) + i \in 1 .. Len(x \o y) /\ (x \o y)[Len(x) + i] = y[i]
        /\ offset + (Len(x) + i) = (offset + Len(x)) + i
    BY <1>1
  <2> QED BY <2>1 DEF Carries
<1> QED BY <1>2, <1>3 DEF Carries

-----------------------------------------------------------------------------
(* Reading.                                                                *)

LEMMA ReadNumber ==
  ASSUME NEW type \in {"int", "double", "bool"}, NEW value \in Value, NEW buffer \in Seq(Byte),
         NEW offset \in Nat, Carries(buffer, offset, Bytes(type, value))
  PROVE  Read(type, buffer, offset) = value
<1>1. sizeof[type] \in 1 .. 8
  BY Numbers
<1>2. \A i \in 1 .. sizeof[type] : /\ offset + i \in DOMAIN buffer
                                   /\ buffer[offset + i] = <<type, value, i>>
  <2>1. Len(Bytes(type, value)) = sizeof[type] /\ DOMAIN buffer = 1 .. Len(buffer)
    BY Numbers
  <2>2. \A i \in 1 .. sizeof[type] : Bytes(type, value)[i] = <<type, value, i>>
    BY Numbers
  <2> QED BY <2>1, <2>2 DEF Carries
<1>3. 1 \in 1 .. sizeof[type]
  BY <1>1
<1>4. buffer[offset + 1][2] = value
  BY <1>2, <1>3
<1> QED BY <1>2, <1>4 DEF Read

(* The characters between two places of a buffer that carries a name.      *)
LEMMA ReadName ==
  ASSUME NEW name \in Names, NEW buffer \in Seq(Byte), NEW offset \in Nat,
         Carries(buffer, offset, Terminated(name))
  PROVE  Lettering(SubSeq(buffer, offset + 1, offset + Len(name))) = name
<1>1. /\ Len(name) \in Nat /\ Len(buffer) \in Nat /\ name \in Seq(Character)
      /\ Len(Terminated(name)) = Len(name) + 1
  BY Letters DEF Names, Character
<1>2. \A i \in 1 .. Len(name) : /\ offset + i \in 1 .. Len(buffer)
                                /\ buffer[offset + i] = <<"char", name[i], 1>>
  BY <1>1, Letters DEF Carries
<1> DEFINE piece == SubSeq(buffer, offset + 1, offset + Len(name))
<1>3. DOMAIN piece = 1 .. Len(name) /\ \A i \in 1 .. Len(name) : piece[i] = buffer[offset + i]
  <2>1. piece = [i \in 1 .. Len(name) |-> buffer[offset + i]]
    <3>1. CASE Len(name) = 0
      BY <3>1, <1>1
    <3>2. CASE Len(name) > 0
      <4>1. offset + 1 \in 1 .. Len(buffer) /\ offset + Len(name) \in 1 .. Len(buffer)
        BY <1>1, <1>2, <3>2
      <4> QED BY <1>1, <3>2, <4>1
    <3> QED BY <1>1, <3>1, <3>2
  <2> QED BY <2>1
<1>4. \A i \in 1 .. Len(name) : piece[i][2] = name[i]
  BY <1>2, <1>3
<1>5. Lettering(piece) = [i \in 1 .. Len(name) |-> name[i]]
  <2> HIDE DEF piece
  <2> QED BY <1>3, <1>4 DEF Lettering
<1>6. name = [i \in 1 .. Len(name) |-> name[i]]
  BY <1>1
<1> QED BY <1>5, <1>6

LEMMA ReadLast ==
  ASSUME NEW name \in Names, NEW buffer \in Seq(Byte), NEW offset \in Nat,
         Carries(buffer, offset, Terminated(name)), Len(buffer) = offset + Len(name) + 1
  PROVE  ReadRest(buffer, offset) = name
<1>1. Len(buffer) - 1 = offset + Len(name)
  BY Letters
<1> QED BY <1>1, ReadName DEF ReadRest

-----------------------------------------------------------------------------
(* Flattening a sequence of sequences, as a sequence of its beginnings.    *)

Flattened(seqs, f) ==
  /\ f[0] = << >> /\ FlattenSeq(seqs) = f[Len(seqs)]
  /\ \A i \in 1 .. Len(seqs) : f[i] = f[i - 1] \o seqs[i]

LEMMA FlattenSteps ==
  ASSUME NEW S, NEW seqs \in Seq(Seq(S))
  PROVE  \E f : Flattened(seqs, f)
<1> DEFINE L == Len(seqs)
           Rec(f, k) == f = [i \in 1 .. k |-> IF i = 1 THEN seqs[i] ELSE f[i - 1] \o seqs[i]]
           Missing == {k \in Nat : ~ \E f : Rec(f, k)}
<1>0. L \in Nat
  OBVIOUS
<1>1. ASSUME Missing # {} PROVE FALSE
  <2>1. PICK k \in Missing : \A y \in Missing : k <= y
    <3> HIDE DEF Rec
    <3> QED BY <1>1, Least
  <2>2. CASE k = 0
    <3>1. Rec([i \in 1 .. 0 |-> << >>], 0)
      OBVIOUS
    <3> QED BY <2>2, <3>1
  <2>3. CASE k # 0
    <3>1. PICK f : Rec(f, k - 1)
      <4>1. k - 1 \in Nat /\ ~ (k <= k - 1)
        BY <2>3
      <4> HIDE DEF Rec
      <4> QED BY <4>1, <2>1
    <3> DEFINE g == [i \in 1 .. k |->
                      IF i = k THEN IF i = 1 THEN seqs[i] ELSE f[k - 1] \o seqs[k] ELSE f[i]]
    <3>2. \A i \in 1 .. k - 1 : g[i] = f[i]
      BY <2>3
    <3>3. \A i \in 1 .. k : g[i] = IF i = 1 THEN seqs[i] ELSE g[i - 1] \o seqs[i]
      <4> TAKE i \in 1 .. k
      <4>1. CASE i = k
        <5>1. i # 1 => g[i - 1] = f[k - 1]
          BY <3>2, <4>1
        <5> QED BY <5>1, <4>1
      <4>2. CASE i # k
        <5>1. i \in 1 .. k - 1 /\ (i # 1 => i - 1 \in 1 .. k - 1)
          BY <4>2
        <5>2. f[i] = IF i = 1 THEN seqs[i] ELSE f[i - 1] \o seqs[i]
          BY <3>1, <5>1
        <5> HIDE DEF g
        <5> QED BY <5>1, <5>2, <3>2
      <4> QED BY <4>1, <4>2
    <3>4. Rec(g, k)
      <4>1. g = [i \in 1 .. k |-> g[i]]
        OBVIOUS
      <4> HIDE DEF g
      <4> QED BY <3>3, <4>1
    <3> QED BY <3>4, <2>1
  <2> QED BY <2>2, <2>3
<1>2. \E f : Rec(f, L)
  <2> HIDE DEF Rec
  <2> QED BY <1>0, <1>1
<1> DEFINE f == CHOOSE f : Rec(f, L)
<1>3. Rec(f, L)
  <2> HIDE DEF Rec
  <2> QED BY <1>2
<1>4. L # 0 => FlattenSeq(seqs) = f[L]
  BY DEF FlattenSeq
<1>5. L = 0 => FlattenSeq(seqs) = << >>
  BY DEF FlattenSeq
<1> HIDE DEF f
<1>6. \A i \in 1 .. L : f[i] = IF i = 1 THEN seqs[i] ELSE f[i - 1] \o seqs[i]
  BY <1>3
<1> DEFINE h == [i \in 0 .. L |-> IF i = 0 THEN << >> ELSE f[i]]
<1>7. h[0] = << >> /\ \A i \in 1 .. L : h[i] = f[i]
  BY <1>0
<1>8. ASSUME NEW i \in 1 .. L PROVE h[i] = h[i - 1] \o seqs[i]
  <2> HIDE DEF h
  <2>1. CASE i = 1
    <3>1. seqs[i] \in Seq(S)
      OBVIOUS
    <3>2. << >> \o seqs[i] = seqs[i]
      BY <3>1, ConcatEmptySeq
    <3>3. i - 1 = 0
      BY <2>1
    <3>4. h[i - 1] = << >>
      BY <3>3, <1>7
    <3>5. h[i] = seqs[i]
      BY <2>1, <1>6, <1>7
    <3> QED BY <3>2, <3>4, <3>5
  <2>2. CASE i # 1
    <3>1. i - 1 \in 1 .. L
      BY <2>2, <1>0
    <3> QED BY <2>2, <3>1, <1>6, <1>7
  <2> QED BY <2>1, <2>2
<1>9. FlattenSeq(seqs) = h[L]
  <2> HIDE DEF h
  <2>1. CASE L = 0
    BY <2>1, <1>5, <1>7
  <2>2. CASE L # 0
    <3>1. L \in 1 .. L
      BY <2>2, <1>0
    <3>2. h[L] = f[L]
      BY <3>1, <1>7, Zenon
    <3> QED BY <3>2, <2>2, <1>4, Zenon
  <2> QED BY <2>1, <2>2
<1> HIDE DEF h
<1> QED BY <1>7, <1>8, <1>9 DEF Flattened

LEMMA FlattenType ==
  ASSUME NEW S, NEW seqs \in Seq(Seq(S)), NEW f, Flattened(seqs, f)
  PROVE  \A i \in 0 .. Len(seqs) : f[i] \in Seq(S) /\ Len(f[i]) \in Nat
<1> DEFINE Bad == {i \in 0 .. Len(seqs) : f[i] \notin Seq(S)}
<1>1. ASSUME Bad # {} PROVE FALSE
  <2>1. PICK i \in Bad : \A y \in Bad : i <= y
    <3>1. Bad \subseteq Nat
      OBVIOUS
    <3> HIDE DEF Bad
    <3> QED BY <1>1, <3>1, Least
  <2>2. i # 0
    <3>1. f[0] \in Seq(S)
      BY EmptySeq DEF Flattened
    <3> QED BY <2>1, <3>1
  <2>3. i \in 1 .. Len(seqs) /\ i - 1 \in 0 .. Len(seqs) /\ ~ (i <= i - 1)
    BY <2>1, <2>2
  <2>4. f[i - 1] \in Seq(S) /\ seqs[i] \in Seq(S)
    BY <2>1, <2>3
  <2>5. f[i] = f[i - 1] \o seqs[i]
    BY <2>3 DEF Flattened
  <2>6. f[i] \in Seq(S)
    BY <2>4, <2>5
  <2> QED BY <2>1, <2>6
<1> QED BY <1>1

-----------------------------------------------------------------------------
(* The strings of a message.                                               *)

Texts(strings) == [i \in DOMAIN strings |-> Terminated(strings[i])]

LEMMA TextsType ==
  ASSUME NEW strings \in Seq(Names)
  PROVE  /\ Texts(strings) \in Seq(Seq(Byte)) /\ Len(Texts(strings)) = Len(strings)
         /\ Len(strings) \in Nat /\ strings \in Seq(Seq(Character))
         /\ \A i \in 1 .. Len(strings) : /\ strings[i] \in Names
                                         /\ Texts(strings)[i] = Terminated(strings[i])
<1>1. Len(strings) \in Nat /\ DOMAIN strings = 1 .. Len(strings)
      /\ \A i \in 1 .. Len(strings) : strings[i] \in Names
  OBVIOUS
<1>2. Texts(strings) \in [1 .. Len(strings) -> Seq(Byte)]
  BY <1>1, Letters DEF Texts
<1>3. \A i \in 1 .. Len(strings) : Texts(strings)[i] = Terminated(strings[i])
  BY <1>1 DEF Texts
<1>4. strings \in Seq(Seq(Character))
  BY DEF Names, Character
<1>5. Texts(strings) \in Seq(Seq(Byte)) /\ Len(Texts(strings)) = Len(strings)
  BY <1>1, <1>2, LenProperties, SeqDef
<1> QED BY <1>1, <1>3, <1>4, <1>5

(* totalSize is the size of what is written.                               *)
LEMMA SizeOfTexts ==
  ASSUME NEW strings \in Seq(Names)
  PROVE  /\ Len(FlattenSeq(Texts(strings))) = TotalSize(strings) /\ TotalSize(strings) \in Nat
         /\ FlattenSeq(Texts(strings)) \in Seq(Byte)
<1> DEFINE L == Len(strings)
<1>1. L \in Nat /\ Len(Texts(strings)) = L
  BY TextsType
<1>2. PICK f : Flattened(strings, f)
  BY TextsType, FlattenSteps
<1>3. PICK g : Flattened(Texts(strings), g)
  BY TextsType, FlattenSteps
<1>4. \A i \in 0 .. L : f[i] \in Seq(Character) /\ Len(f[i]) \in Nat
  BY <1>2, TextsType, FlattenType
<1>5. \A i \in 0 .. L : g[i] \in Seq(Byte) /\ Len(g[i]) \in Nat
  BY <1>1, <1>3, TextsType, FlattenType
<1> DEFINE Bad == {i \in 0 .. L : Len(g[i]) # Len(f[i]) + i}
<1>6. ASSUME Bad # {} PROVE FALSE
  <2>1. PICK i \in Bad : \A y \in Bad : i <= y
    <3>1. Bad \subseteq Nat
      OBVIOUS
    <3> HIDE DEF Bad
    <3> QED BY <1>6, <3>1, Least
  <2>2. i # 0
    <3>1. Len(g[0]) = 0 /\ Len(f[0]) = 0
      BY <1>2, <1>3 DEF Flattened
    <3> QED BY <2>1, <3>1
  <2>3. i \in 1 .. L /\ i - 1 \in 0 .. L /\ ~ (i <= i - 1)
    BY <2>1, <2>2
  <2>4. Len(g[i - 1]) = Len(f[i - 1]) + (i - 1)
    BY <2>1, <2>3
  <2>5. f[i] = f[i - 1] \o strings[i] /\ g[i] = g[i - 1] \o Terminated(strings[i])
    BY <1>1, <1>2, <1>3, <2>3, TextsType DEF Flattened
  <2>6. /\ strings[i] \in Seq(Character) /\ Terminated(strings[i]) \in Seq(Byte)
        /\ Len(Terminated(strings[i])) = Len(strings[i]) + 1 /\ Len(strings[i]) \in Nat
    <3>1. strings[i] \in Names
      BY <2>3, TextsType
    <3> QED BY <3>1, Letters DEF Names, Character
  <2>7. Len(f[i]) = Len(f[i - 1]) + Len(strings[i])
    <3>1. f[i - 1] \in Seq(Character)
      BY <1>4, <2>3
    <3> QED BY <3>1, <2>5, <2>6
  <2>8. Len(g[i]) = Len(g[i - 1]) + (Len(strings[i]) + 1)
    <3>1. PICK x \in Seq(Byte) : x = g[i - 1]
      BY <1>5, <2>3
    <3>2. PICK y \in Seq(Byte) : y = Terminated(strings[i])
      BY <2>6
    <3>3. Len(x \o y) = Len(x) + Len(y)
      OBVIOUS
    <3> QED BY <3>1, <3>2, <3>3, <2>5, <2>6
  <2>9. Len(f[i - 1]) \in Nat
    BY <1>4, <2>3
  <2>10. Len(g[i]) = Len(f[i]) + i
    <3>1. PICK a \in Nat, b \in Nat : a = Len(f[i - 1]) /\ b = Len(strings[i])
      BY <2>6, <2>9
    <3>2. i \in Nat /\ (a + (i - 1)) + (b + 1) = (a + b) + i
      BY <2>1
    <3> QED BY <3>1, <3>2, <2>4, <2>7, <2>8
  <2> QED BY <2>1, <2>10
<1>7. Len(g[L]) = Len(f[L]) + L
  <2>1. Bad = {}
    BY <1>6, Zenon
  <2>2. L \in 0 .. L
    BY <1>1
  <2>3. \A i \in 0 .. L : Len(g[i]) = Len(f[i]) + i
    <3> HIDE DEF L
    <3> QED BY <2>1
  <2> HIDE DEF L
  <2> QED BY <2>2, <2>3, Zenon
<1>8. FlattenSeq(strings) = f[L] /\ FlattenSeq(Texts(strings)) = g[L]
  BY <1>1, <1>2, <1>3 DEF Flattened
<1>9. L \in 0 .. L
  BY <1>1
<1> HIDE DEF L
<1> QED BY <1>1, <1>4, <1>5, <1>7, <1>8, <1>9 DEF TotalSize, L

(* A buffer that carries all texts carries each where the ones before end. *)
LEMMA EachText ==
  ASSUME NEW strings \in Seq(Names), NEW g, Flattened(Texts(strings), g),
         NEW buffer \in Seq(Byte), NEW offset \in Nat,
         Carries(buffer, offset, FlattenSeq(Texts(strings)))
  PROVE  \A j \in 1 .. Len(strings) :
           Carries(buffer, offset + Len(g[j - 1]), Terminated(strings[j]))
<1> DEFINE L == Len(strings)
<1>1. L \in Nat /\ Len(Texts(strings)) = L /\ Len(buffer) \in Nat
  BY TextsType
<1>2. \A i \in 0 .. L : g[i] \in Seq(Byte) /\ Len(g[i]) \in Nat
  BY <1>1, TextsType, FlattenType
<1>3. ASSUME NEW j \in 1 .. L, Carries(buffer, offset, g[j])
      PROVE  /\ Carries(buffer, offset, g[j - 1])
             /\ Carries(buffer, offset + Len(g[j - 1]), Terminated(strings[j]))
  <2>1. g[j] = g[j - 1] \o Terminated(strings[j])
    BY <1>1, TextsType DEF Flattened
  <2>2. g[j - 1] \in Seq(Byte)
    BY <1>1, <1>2
  <2>3. Terminated(strings[j]) \in Seq(Byte)
    BY TextsType, Letters
  <2>4. Carries(buffer, offset, g[j - 1] \o Terminated(strings[j]))
    BY <1>3, <2>1
  <2> QED BY <2>2, <2>3, <2>4, <1>1, CarriedApart
<1> DEFINE Bad == {j \in 0 .. L : ~ Carries(buffer, offset, g[j])}
<1>4. Carries(buffer, offset, g[L])
  BY <1>1 DEF Flattened
<1>5. ASSUME Bad # {} PROVE FALSE
  <2>1. PICK j \in Bad : \A y \in Bad : y <= j
    <3>1. Bad \subseteq Nat /\ \A x \in Bad : x <= L
      BY <1>1
    <3> HIDE DEF Bad, L
    <3> QED BY <1>1, <1>5, <3>1, Greatest
  <2>2. j # L
    BY <2>1, <1>4
  <2>3. j + 1 \in 1 .. L /\ j + 1 \in 0 .. L /\ ~ (j + 1 <= j) /\ (j + 1) - 1 = j
    BY <1>1, <2>1, <2>2
  <2>4. Carries(buffer, offset, g[j + 1])
    BY <2>1, <2>3
  <2>5. Carries(buffer, offset, g[j])
    <3> HIDE DEF L, Bad
    <3> QED BY <1>3, <2>3, <2>4
  <2> QED BY <2>1, <2>5
<1>6. ASSUME NEW j \in 1 .. L
      PROVE  Carries(buffer, offset + Len(g[j - 1]), Terminated(strings[j]))
  <2>1. j \in 0 .. L
    BY <1>1
  <2>2. Carries(buffer, offset, g[j])
    BY <2>1, <1>5
  <2> QED BY <2>2, <1>3
<1> QED BY <1>6

-----------------------------------------------------------------------------
(* readStringsFromMessage, a byte at a time.                               *)

Nothing(first) == [result |-> << >>, start |-> first + 1]

Reading(buffer, vectorSize, first, u) ==
  \A i \in 0 .. Len(buffer) :
    u[i] = IF i <= first THEN Nothing(first) ELSE NextByte(buffer, vectorSize, u[i - 1], i)

Rest(vectorSize, result) == result \o [i \in 1 .. vectorSize - Len(result) |-> << >>]

LEMMA ReadingSteps ==
  ASSUME NEW buffer \in Seq(Byte), NEW offset \in Nat,
         NEW vectorSize, vectorSize = Read("int", buffer, offset),
         NEW first, first = offset + sizeof.int
  PROVE  \E u : /\ Reading(buffer, vectorSize, first, u)
                /\ readStringsFromMessage(buffer, offset) = Rest(vectorSize, u[Len(buffer)].result)
<1> DEFINE L == Len(buffer)
           Rec(u, k) == u = [i \in 0 .. k |-> IF i <= first THEN Nothing(first)
                                    ELSE NextByte(buffer, vectorSize, u[i - 1], i)]
           Missing == {k \in Nat : ~ \E u : Rec(u, k)}
<1>0. L \in Nat /\ first \in Nat
  BY DEF sizeof
<1>1. ASSUME Missing # {} PROVE FALSE
  <2>1. PICK k \in Missing : \A y \in Missing : k <= y
    <3> HIDE DEF Rec
    <3> QED BY <1>1, Least
  <2>2. CASE k = 0
    <3>1. Rec([i \in 0 .. 0 |-> Nothing(first)], 0)
      BY <1>0
    <3> QED BY <2>2, <3>1
  <2>3. CASE k # 0
    <3>1. PICK f : Rec(f, k - 1)
      <4>1. k - 1 \in Nat /\ ~ (k <= k - 1)
        BY <2>3
      <4> HIDE DEF Rec
      <4> QED BY <4>1, <2>1
    <3> DEFINE new == IF k <= first THEN Nothing(first) ELSE NextByte(buffer, vectorSize, f[k - 1], k)
               g == [i \in 0 .. k |-> IF i = k THEN new ELSE f[i]]
    <3>2. g[k] = new /\ \A i \in 0 .. k - 1 : g[i] = f[i]
      <4> HIDE DEF new
      <4> QED BY <2>3
    <3>3. \A i \in 0 .. k : g[i] = IF i <= first THEN Nothing(first)
                                   ELSE NextByte(buffer, vectorSize, g[i - 1], i)
      <4> TAKE i \in 0 .. k
      <4>1. CASE i = k
        <5>1. k - 1 \in 0 .. k - 1
          BY <2>3
        <5>2. g[k - 1] = f[k - 1]
          BY <5>1, <3>2
        <5> HIDE DEF g
        <5> QED BY <5>2, <3>2, <4>1
      <4>2. CASE i # k
        <5>1. i \in 0 .. k - 1 /\ (i # 0 => i - 1 \in 0 .. k - 1) /\ (i = 0 => i <= first)
          BY <4>2, <1>0
        <5>2. f[i] = IF i <= first THEN Nothing(first)
                     ELSE NextByte(buffer, vectorSize, f[i - 1], i)
          BY <3>1, <5>1
        <5> HIDE DEF g
        <5> QED BY <5>1, <5>2, <3>2
      <4> QED BY <4>1, <4>2
    <3>4. Rec(g, k)
      <4>1. g = [i \in 0 .. k |-> g[i]]
        OBVIOUS
      <4> HIDE DEF g
      <4> QED BY <3>3, <4>1
    <3> QED BY <3>4, <2>1
  <2> QED BY <2>2, <2>3
<1>2. \E u : Rec(u, L)
  <2> HIDE DEF Rec
  <2> QED BY <1>0, <1>1
<1> DEFINE u == CHOOSE u : Rec(u, L)
<1>3. Rec(u, L)
  <2> HIDE DEF Rec
  <2> QED BY <1>2
<1>4. readStringsFromMessage(buffer, offset) = Rest(vectorSize, u[L].result)
  BY DEF readStringsFromMessage, Rest, Nothing
<1> HIDE DEF u
<1>5. Reading(buffer, vectorSize, first, u)
  BY <1>3 DEF Reading
<1> QED BY <1>4, <1>5

(* It has come to the end of a name and has read r.                        *)
HasRead(u, place, r) == u[place] = [result |-> r, start |-> place + 1]

(* It comes to the end of another name, and takes it.                      *)
LEMMA OneName ==
  ASSUME NEW buffer \in Seq(Byte), NEW vectorSize \in Nat, NEW first \in Nat, NEW u,
         Reading(buffer, vectorSize, first, u),
         NEW place \in Nat, first <= place, NEW name \in Names,
         Carries(buffer, place, Terminated(name)),
         NEW r, HasRead(u, place, r), Len(r) < vectorSize
  PROVE  HasRead(u, place + (Len(name) + 1), Append(r, name))
<1> DEFINE L == Len(name)
           got == [result |-> r, start |-> place + 1]
<1>1. L \in Nat /\ Len(Terminated(name)) = L + 1 /\ Len(buffer) \in Nat
  BY Letters
<1>2. \A i \in 1 .. L + 1 : /\ place + i \in 1 .. Len(buffer)
                            /\ buffer[place + i] = Terminated(name)[i]
  BY <1>1 DEF Carries
<1>3. \A i \in 1 .. L + 1 : u[place + i] = NextByte(buffer, vectorSize, u[(place + i) - 1], place + i)
  <2> TAKE i \in 1 .. L + 1
  <2>1. place + i \in 0 .. Len(buffer) /\ ~ (place + i <= first)
    BY <1>1, <1>2
  <2> QED BY <2>1 DEF Reading
<1> DEFINE Bad == {i \in 0 .. L : u[place + i] # got}
<1>4. ASSUME Bad # {} PROVE FALSE
  <2>1. PICK i \in Bad : \A y \in Bad : i <= y
    <3>1. Bad \subseteq Nat
      BY <1>1
    <3> HIDE DEF Bad
    <3> QED BY <1>4, <3>1, Least
  <2>2. i # 0
    <3>1. place + 0 = place
      OBVIOUS
    <3> QED BY <2>1, <3>1 DEF HasRead
  <2>3. i \in 1 .. L /\ i \in 1 .. L + 1 /\ i - 1 \in 0 .. L /\ ~ (i <= i - 1)
        /\ (place + i) - 1 = place + (i - 1)
    BY <1>1, <2>1, <2>2
  <2>4. u[place + (i - 1)] = got
    BY <2>1, <2>3
  <2>5. buffer[place + i] # NullByte
    BY <1>2, <2>3, Letters, ZenonT(40)
  <2>6. u[place + i] = NextByte(buffer, vectorSize, got, place + i)
    BY <1>3, <2>3, <2>4
  <2>7. u[place + i] = got
    BY <2>5, <2>6 DEF NextByte
  <2> QED BY <2>1, <2>7
<1>5. u[place + L] = got
  <2>1. L \in 0 .. L
    BY <1>1
  <2> QED BY <2>1, <1>4
<1>6. L + 1 \in 1 .. L + 1 /\ (place + (L + 1)) - 1 = place + L
  BY <1>1
<1>7. buffer[place + (L + 1)] = NullByte
  BY <1>2, <1>6, Letters
<1>8. u[place + (L + 1)] = NextByte(buffer, vectorSize, got, place + (L + 1))
  BY <1>3, <1>5, <1>6
<1>9. Lettering(SubSeq(buffer, place + 1, (place + (L + 1)) - 1)) = name
  BY <1>6, ReadName
<1> HIDE DEF L
<1>10. NextByte(buffer, vectorSize, got, place + (L + 1)) =
         [result |-> Append(r, name), start |-> (place + (L + 1)) + 1]
  BY <1>7, <1>9 DEF NextByte
<1> QED BY <1>8, <1>10 DEF L, HasRead

LEMMA OneMore ==
  ASSUME NEW S, NEW s \in Seq(S), NEW j \in 1 .. Len(s)
  PROVE  SubSeq(s, 1, j) = Append(SubSeq(s, 1, j - 1), s[j]) /\ Len(SubSeq(s, 1, j - 1)) = j - 1
OBVIOUS

LEMMA NoneLeft ==
  ASSUME NEW S, NEW s \in Seq(S)
  PROVE  SubSeq(s, 1, 0) = << >> /\ SubSeq(s, 1, Len(s)) = s /\ Rest(Len(s), s) = s
<1>1. Len(s) \in Nat /\ Len(s) - Len(s) = 0
  OBVIOUS
<1>2. [i \in 1 .. 0 |-> << >>] = << >>
  OBVIOUS
<1>3. s \o << >> = s
  BY ConcatEmptySeq
<1>4. Rest(Len(s), s) = s
  BY <1>1, <1>2, <1>3 DEF Rest
<1>5. SubSeq(s, 1, 0) = << >> /\ SubSeq(s, 1, Len(s)) = s
  OBVIOUS
<1> QED BY <1>4, <1>5

(* What createMessageWithStrings lays out.                                 *)
Written(strings) == Bytes("int", Len(strings)) \o FlattenSeq(Texts(strings))

(* The strings that a buffer ends with are the strings that are read.      *)
LEMMA ReadStrings ==
  ASSUME NEW strings \in Seq(Names), NEW buffer \in Seq(Byte), NEW offset \in Nat,
         Carries(buffer, offset, Written(strings)),
         Len(buffer) = offset + sizeof.int + TotalSize(strings)
  PROVE  readStringsFromMessage(buffer, offset) = strings
<1> DEFINE n == Len(strings)
           first == offset + sizeof.int
<1>1. /\ n \in Nat /\ n \in Value /\ first \in Nat /\ sizeof.int \in Nat /\ Len(buffer) \in Nat
      /\ Len(Texts(strings)) = n
  BY TextsType DEF sizeof, Value
<1>2. Bytes("int", n) \in Seq(Byte) /\ Len(Bytes("int", n)) = sizeof.int
  BY <1>1, Numbers
<1>3. Carries(buffer, offset, Bytes("int", n)) /\ Carries(buffer, first, FlattenSeq(Texts(strings)))
  <2>1. FlattenSeq(Texts(strings)) \in Seq(Byte)
    BY SizeOfTexts
  <2> QED BY <1>1, <1>2, <2>1, CarriedApart DEF Written
<1>4. Read("int", buffer, offset) = n
  BY <1>1, <1>3, ReadNumber
<1>5. PICK u : /\ Reading(buffer, n, first, u)
               /\ readStringsFromMessage(buffer, offset) = Rest(n, u[Len(buffer)].result)
  <2> HIDE DEF n
  <2> QED BY <1>4, ReadingSteps
<1>6. PICK g : Flattened(Texts(strings), g)
  BY TextsType, FlattenSteps
<1>7. \A i \in 0 .. n : Len(g[i]) \in Nat /\ g[i] \in Seq(Byte)
  BY <1>1, <1>6, TextsType, FlattenType
<1>8. \A j \in 1 .. n : Carries(buffer, first + Len(g[j - 1]), Terminated(strings[j]))
  BY <1>1, <1>3, <1>6, EachText
<1> DEFINE Place(j) == first + Len(g[j])
           Right(j) == HasRead(u, Place(j), SubSeq(strings, 1, j))
           Bad == {j \in 0 .. n : ~ Right(j)}
<1>9. Right(0)
  <2>1. Len(g[0]) = 0 /\ first + 0 = first
    BY <1>1, <1>6 DEF Flattened
  <2>2. first <= Len(buffer) /\ first \in 0 .. Len(buffer) /\ first <= first
    <3>1. TotalSize(strings) \in Nat
      BY SizeOfTexts
    <3> QED BY <1>1, <3>1
  <2>3. u[first] = Nothing(first)
    BY <1>5, <2>2 DEF Reading
  <2>4. SubSeq(strings, 1, 0) = << >>
    BY NoneLeft
  <2> HIDE DEF first
  <2> QED BY <2>1, <2>3, <2>4 DEF Nothing, HasRead
<1>10. ASSUME NEW j \in 1 .. n, Right(j - 1) PROVE Right(j)
  <2>1. strings[j] \in Names /\ Len(strings[j]) \in Nat
    BY TextsType, Letters
  <2>2. PICK x \in Nat : x = Len(g[j - 1])
    BY <1>7
  <2>3. PICK name \in Names : name = strings[j]
    BY <2>1
  <2>4. PICK place \in Nat : place = first + x
    BY <1>1
  <2>5. Carries(buffer, place, Terminated(name))
    BY <1>8, <2>2, <2>3, <2>4
  <2>6. first <= place
    BY <1>1, <2>4
  <2>7. PICK r : r = SubSeq(strings, 1, j - 1)
    OBVIOUS
  <2>8. Len(r) < n /\ SubSeq(strings, 1, j) = Append(r, name)
    <3>1. SubSeq(strings, 1, j) = Append(SubSeq(strings, 1, j - 1), strings[j])
          /\ Len(SubSeq(strings, 1, j - 1)) = j - 1
      BY OneMore
    <3> QED BY <1>1, <2>3, <2>7, <3>1
  <2>9. HasRead(u, place, r)
    BY <1>10, <2>2, <2>4, <2>7
  <2>10. HasRead(u, place + (Len(name) + 1), Append(r, name))
    <3>1. n \in Nat /\ first \in Nat
      BY <1>1
    <3>2. Reading(buffer, n, first, u) /\ Len(r) < n
      BY <1>5, <2>8
    <3> HIDE DEF first, n, Place, Right, Bad
    <3> QED BY <3>1, <3>2, <2>3, <2>4, <2>5, <2>6, <2>9, OneName, Zenon
  <2>11. place + (Len(name) + 1) = Place(j)
    <3>1. g[j] = g[j - 1] \o Terminated(name)
      BY <1>1, <1>6, <2>3, TextsType DEF Flattened
    <3>2. PICK a \in Seq(Byte), b \in Seq(Byte) : a = g[j - 1] /\ b = Terminated(name)
      <4>1. g[j - 1] \in Seq(Byte)
        BY <1>7
      <4>2. Terminated(name) \in Seq(Byte)
        BY Letters, Zenon
      <4> QED BY <4>1, <4>2, Zenon
    <3>3. Len(a \o b) = Len(a) + Len(b) /\ Len(b) = Len(name) + 1
      BY <3>2, Letters
    <3>4. Len(g[j]) = x + (Len(name) + 1)
      BY <2>2, <3>1, <3>2, <3>3
    <3>5. PICK l \in Nat : l = Len(name)
      BY <2>1, <2>3
    <3>6. (first + x) + (l + 1) = first + (x + (l + 1))
      <4>1. first \in Nat
        BY <1>1
      <4> HIDE DEF first
      <4> QED BY <4>1
    <3> QED BY <2>4, <3>4, <3>5, <3>6
  <2> HIDE DEF Place
  <2> QED BY <2>8, <2>10, <2>11
<1>11. ASSUME Bad # {} PROVE FALSE
  <2>1. PICK j \in Bad : \A y \in Bad : j <= y
    <3>1. Bad \subseteq Nat
      BY <1>1
    <3> HIDE DEF Bad
    <3> QED BY <1>11, <3>1, Least
  <2>2. j # 0
    BY <2>1, <1>9
  <2>3. j \in 1 .. n /\ j - 1 \in 0 .. n /\ ~ (j <= j - 1)
    BY <1>1, <2>1, <2>2
  <2> HIDE DEF Right
  <2>4. Right(j - 1)
    BY <2>1, <2>3
  <2> QED BY <1>10, <2>1, <2>3, <2>4
<1>12. Right(n)
  <2> HIDE DEF Right
  <2>1. n \in 0 .. n
    BY <1>1
  <2> QED BY <2>1, <1>11
<1>13. Place(n) = Len(buffer)
  <2>1. Len(g[n]) = TotalSize(strings)
    BY <1>1, <1>6, SizeOfTexts DEF Flattened
  <2> QED BY <2>1
<1>14. u[Len(buffer)].result = SubSeq(strings, 1, n)
  <2> HIDE DEF Place
  <2> QED BY <1>12, <1>13 DEF HasRead
<1> QED BY <1>5, <1>14, NoneLeft

-----------------------------------------------------------------------------
(* Writing.                                                                *)

LEMMA WrittenType ==
  ASSUME NEW strings \in Seq(Names)
  PROVE  /\ Written(strings) \in Seq(Byte) /\ Len(Written(strings)) = 4 + TotalSize(strings)
         /\ TotalSize(strings) \in Nat
<1>1. Len(strings) \in Value
  BY TextsType DEF Value
<1>2. Bytes("int", Len(strings)) \in Seq(Byte) /\ Len(Bytes("int", Len(strings))) = 4
  BY <1>1, Numbers DEF sizeof
<1>3. /\ FlattenSeq(Texts(strings)) \in Seq(Byte) /\ TotalSize(strings) \in Nat
      /\ Len(FlattenSeq(Texts(strings))) = TotalSize(strings)
  BY SizeOfTexts
<1> HIDE DEF Byte
<1>4. PICK a \in Seq(Byte), b \in Seq(Byte) :
        a = Bytes("int", Len(strings)) /\ b = FlattenSeq(Texts(strings))
  BY <1>2, <1>3
<1>5. a \o b \in Seq(Byte) /\ Len(a \o b) = Len(a) + Len(b)
  BY <1>4
<1> QED BY <1>2, <1>3, <1>4, <1>5 DEF Written

LEMMA Created ==
  ASSUME NEW strings \in Seq(Names), NEW offset \in Nat,
         NEW b, b = createMessageWithStrings(strings, offset)
  PROVE  /\ b \in Seq(Byte) /\ Len(b) = offset + sizeof.int + TotalSize(strings)
         /\ Len(b) \in Nat /\ TotalSize(strings) \in Nat
         /\ Carries(b, offset, Written(strings))
<1>1. TotalSize(strings) \in Nat /\ sizeof.int = 4
  BY SizeOfTexts DEF sizeof
<1>2. PICK size \in Nat : size = offset + sizeof.int + TotalSize(strings)
  BY <1>1
<1>3. PICK blank : blank = Unwritten(size)
  OBVIOUS
<1>4. blank \in Seq(Byte) /\ Len(blank) = size
  BY <1>2, <1>3, Unwrittens
<1>5. PICK w : w = Written(strings)
  OBVIOUS
<1>6. w \in Seq(Byte) /\ offset + Len(w) <= Len(blank)
  BY <1>1, <1>2, <1>4, <1>5, WrittenType
<1>7. b = Copy(blank, offset, w)
  BY <1>2, <1>3, <1>5 DEF createMessageWithStrings, Written, Texts
<1> QED BY <1>1, <1>2, <1>4, <1>5, <1>6, <1>7, Copied

(* The opcode comes to the first place, and nothing else is changed.       *)
(* The opcode comes to the first place, and nothing else is changed.       *)
LEMMA Opcode ==
  ASSUME NEW buffer \in Seq(Byte), 4 <= Len(buffer), NEW op \in 0 .. 4,
         NEW b, b = Copy(buffer, 0, Bytes("int", op))
  PROVE  /\ b \in Seq(Byte) /\ Len(b) = Len(buffer) /\ Read("int", b, 0) = op
         /\ \A offset \in Nat, x \in Seq(Byte) :
              offset >= 4 /\ Carries(buffer, offset, x) => Carries(b, offset, x)
<1>1. op \in Value
  BY DEF Value
<1>2. PICK o : o = Bytes("int", op)
  OBVIOUS
<1>3. o \in Seq(Byte) /\ Len(o) = 4
  BY <1>1, <1>2, Numbers DEF sizeof
<1>4. /\ b \in Seq(Byte) /\ Len(b) = Len(buffer) /\ Carries(b, 0, o)
      /\ \A i \in 1 .. Len(buffer) : i <= 0 \/ i > 0 + 4 => b[i] = buffer[i]
  <2>1. PICK zero : zero = 0
    OBVIOUS
  <2>2. zero \in Nat /\ b = Copy(buffer, zero, o) /\ zero + Len(o) <= Len(buffer)
    BY <1>2, <1>3, <2>1
  <2>3. /\ b \in Seq(Byte) /\ Len(b) = Len(buffer) /\ Carries(b, zero, o)
        /\ \A i \in 1 .. Len(buffer) : i <= zero \/ i > zero + Len(o) => b[i] = buffer[i]
    <3>1. buffer \in Seq(Byte) /\ o \in Seq(Byte)
      BY <1>3
    <3> QED BY <2>2, <3>1, Copied
  <2> QED BY <1>3, <2>1, <2>3, Zenon
<1>5. Read("int", b, 0) = op
  <2>1. 0 \in Nat /\ "int" \in {"int", "double", "bool"}
    OBVIOUS
  <2>2. Carries(b, 0, Bytes("int", op)) /\ b \in Seq(Byte)
    BY <1>2, <1>4
  <2> QED BY <1>1, <2>1, <2>2, ReadNumber, Zenon
<1>6. ASSUME NEW offset \in Nat, NEW x \in Seq(Byte), offset >= 4, Carries(buffer, offset, x)
      PROVE  Carries(b, offset, x)
  <2> SUFFICES ASSUME NEW k \in 1 .. Len(x)
               PROVE  offset + k \in 1 .. Len(b) /\ b[offset + k] = x[k]
    BY DEF Carries
  <2>1. offset + k \in 1 .. Len(buffer) /\ buffer[offset + k] = x[k]
    BY <1>6 DEF Carries
  <2>2. offset + k > 4
    BY <1>6
  <2> QED BY <1>4, <2>1, <2>2
<1> QED BY <1>4, <1>5, <1>6

LEMMA Joined ==
  ASSUME NEW x \in Seq(Byte), NEW y \in Seq(Byte), NEW b, b = x \o y
  PROVE  /\ b \in Seq(Byte) /\ Len(b) = Len(x) + Len(y) /\ Len(x) \in Nat /\ Len(y) \in Nat
         /\ Carries(b, 0, x) /\ Carries(b, Len(x), y)
<1>1. /\ b \in Seq(Byte) /\ Len(b) = Len(x) + Len(y) /\ Len(x) \in Nat /\ Len(y) \in Nat
  OBVIOUS
<1>2. \A i \in 1 .. Len(x) : 0 + i \in 1 .. Len(b) /\ b[0 + i] = x[i]
  BY <1>1
<1>3. \A i \in 1 .. Len(y) : Len(x) + i \in 1 .. Len(b) /\ b[Len(x) + i] = y[i]
  BY <1>1
<1> QED BY <1>1, <1>2, <1>3 DEF Carries

LEMMA CarriedOn ==
  ASSUME NEW x \in Seq(Byte), NEW y \in Seq(Byte), NEW b, b = x \o y, NEW offset \in Nat,
         NEW z \in Seq(Byte), Carries(x, offset, z)
  PROVE  Carries(b, offset, z)
<1>1. Len(b) = Len(x) + Len(y) /\ Len(x) \in Nat /\ Len(y) \in Nat
  OBVIOUS
<1>2. \A i \in 1 .. Len(x) : b[i] = x[i]
  BY <1>1
<1> QED BY <1>1, <1>2 DEF Carries

-----------------------------------------------------------------------------
(* Each call is heard as it was made.                                      *)

LEMMA Dispatch ==
  ASSUME NEW b, NEW op, op = Read("int", b, 0)
  PROVE  /\ op \in {GET_EDGE_VEHICLES, HAS_VEHICLE} =>
              Received(b) = Asking(op, ReadRest(b, sizeof.int))
         /\ op = HAS_VEHICLE_IN_EDGE =>
              Received(b) = InEdge(readStringsFromMessage(b, sizeof.int))
         /\ op = SET_VEHICLE_SPEED =>
              Received(b) = SpeedOf(ReadRest(b, sizeof.int + sizeof.double),
                                    Read("double", b, sizeof.int))
         /\ op = ADD_VEHICLE =>
              Received(b) = Adding(readStringsFromMessage(b, sizeof.int * 2 + sizeof.double * 2),
                                   Read("int", b, sizeof.int), Read("double", b, sizeof.int * 2),
                                   Read("double", b, sizeof.int * 2 + sizeof.double))
BY DEF Received, GET_EDGE_VEHICLES, HAS_VEHICLE, HAS_VEHICLE_IN_EDGE, SET_VEHICLE_SPEED,
       ADD_VEHICLE

(* getEdgeVehicles and hasVehicle: the opcode and a name.                  *)
LEMMA AskingHeard ==
  ASSUME NEW op \in {GET_EDGE_VEHICLES, HAS_VEHICLE}, NEW id \in Names,
         NEW b, b = Copy(Unwritten(sizeof.int) \o Terminated(id), 0, Bytes("int", op))
  PROVE  Received(b) = Asking(op, id)
<1>1. sizeof.int = 4 /\ op \in 0 .. 4 /\ 4 \in Nat /\ 4 >= 4
  BY DEF sizeof, GET_EDGE_VEHICLES, HAS_VEHICLE
<1>2. PICK blank : blank = Unwritten(4) /\ blank \in Seq(Byte) /\ Len(blank) = 4
  BY <1>1, Unwrittens
<1>3. PICK t : t = Terminated(id) /\ t \in Seq(Byte) /\ Len(t) = Len(id) + 1
  BY Letters
<1>4. PICK buffer : buffer = blank \o t
  OBVIOUS
<1>5. buffer \in Seq(Byte) /\ Len(buffer) = Len(blank) + Len(t) /\ Carries(buffer, Len(blank), t)
  BY <1>2, <1>3, <1>4, Joined, Zenon
<1>6. Len(id) \in Nat
  BY Letters
<1>7. Carries(buffer, 4, t) /\ Len(buffer) = 4 + (Len(id) + 1)
  BY <1>2, <1>3, <1>5, Zenon
<1>8. b = Copy(buffer, 0, Bytes("int", op)) /\ 4 <= Len(buffer)
  BY <1>1, <1>2, <1>3, <1>4, <1>6, <1>7
<1>9. /\ b \in Seq(Byte) /\ Len(b) = Len(buffer) /\ Read("int", b, 0) = op
      /\ Carries(b, 4, t)
  BY <1>1, <1>3, <1>5, <1>7, <1>8, Opcode, Zenon
<1>10. ReadRest(b, 4) = id
  <2>1. Len(b) = 4 + Len(id) + 1
    BY <1>6, <1>7, <1>9
  <2>2. Carries(b, 4, Terminated(id))
    BY <1>3, <1>9
  <2> QED BY <1>1, <1>9, <2>1, <2>2, ReadLast, Zenon
<1> QED BY <1>1, <1>9, <1>10, Dispatch, Zenon

(* setVehicleSpeed: the opcode, the speed and a name.                      *)
LEMMA SpeedHeard ==
  ASSUME NEW vehId \in Names, NEW speed \in Real,
         NEW b, b = Copy(Unwritten(sizeof.int) \o Bytes("double", speed) \o Terminated(vehId), 0,
                         Bytes("int", SET_VEHICLE_SPEED))
  PROVE  Received(b) = SpeedOf(vehId, speed)
<1>1. /\ sizeof.int = 4 /\ sizeof.double = 8 /\ sizeof.int + sizeof.double = 12
      /\ SET_VEHICLE_SPEED \in 0 .. 4 /\ 4 \in Nat /\ 4 >= 4 /\ 12 \in Nat /\ 12 >= 4
  BY DEF sizeof, SET_VEHICLE_SPEED
<1>2. PICK blank : blank = Unwritten(4) /\ blank \in Seq(Byte) /\ Len(blank) = 4
  BY <1>1, Unwrittens
<1>3. PICK t : t = Terminated(vehId) /\ t \in Seq(Byte) /\ Len(t) = Len(vehId) + 1
  BY Letters
<1>4. speed \in Value /\ "double" \in {"int", "double", "bool"}
  BY DEF Value
<1>5. PICK d : d = Bytes("double", speed) /\ d \in Seq(Byte) /\ Len(d) = 8
  BY <1>1, <1>4, Numbers
<1>6. PICK front : front = blank \o d
  OBVIOUS
<1>7. front \in Seq(Byte) /\ Len(front) = Len(blank) + Len(d) /\ Carries(front, Len(blank), d)
  BY <1>2, <1>5, <1>6, Joined, Zenon
<1>8. Carries(front, 4, d) /\ Len(front) = 12
  <2>1. Len(front) = 4 + 8
    BY <1>2, <1>5, <1>7, Zenon
  <2>2. Carries(front, 4, d)
    BY <1>2, <1>7, Zenon
  <2> QED BY <2>1, <2>2
<1>9. PICK buffer : buffer = front \o t
  OBVIOUS
<1>10. buffer \in Seq(Byte) /\ Len(buffer) = Len(front) + Len(t) /\ Carries(buffer, Len(front), t)
  BY <1>3, <1>7, <1>9, Joined, Zenon
<1>11. Carries(buffer, 12, t) /\ Len(buffer) = 12 + (Len(vehId) + 1) /\ Len(vehId) \in Nat
  <2>1. Len(vehId) \in Nat
    BY Letters
  <2> QED BY <2>1, <1>3, <1>8, <1>10, Zenon
<1>12. Carries(buffer, 4, d)
  BY <1>1, <1>3, <1>5, <1>7, <1>8, <1>9, CarriedOn, Zenon
<1>13. b = Copy(buffer, 0, Bytes("int", SET_VEHICLE_SPEED)) /\ 4 <= Len(buffer)
  BY <1>1, <1>2, <1>3, <1>5, <1>6, <1>9, <1>11
<1>14. /\ b \in Seq(Byte) /\ Len(b) = Len(buffer) /\ Read("int", b, 0) = SET_VEHICLE_SPEED
       /\ Carries(b, 4, d) /\ Carries(b, 12, t)
  <2>1. /\ b \in Seq(Byte) /\ Len(b) = Len(buffer) /\ Read("int", b, 0) = SET_VEHICLE_SPEED
        /\ \A offset \in Nat, x \in Seq(Byte) :
             offset >= 4 /\ Carries(buffer, offset, x) => Carries(b, offset, x)
    BY <1>1, <1>10, <1>13, Opcode, Zenon
  <2>2. Carries(b, 4, d)
    BY <1>1, <1>5, <1>12, <2>1, Zenon
  <2>3. Carries(b, 12, t)
    BY <1>1, <1>3, <1>11, <2>1, Zenon
  <2> QED BY <2>1, <2>2, <2>3
<1>15. ReadRest(b, 12) = vehId
  <2>1. Len(b) = 12 + Len(vehId) + 1
    BY <1>11, <1>14
  <2>2. Carries(b, 12, Terminated(vehId))
    BY <1>3, <1>14
  <2> QED BY <1>1, <1>14, <2>1, <2>2, ReadLast, Zenon
<1>16. Read("double", b, 4) = speed
  <2>1. Carries(b, 4, Bytes("double", speed))
    BY <1>5, <1>14
  <2> QED BY <1>1, <1>4, <1>14, <2>1, ReadNumber, ZenonT(40)
<1> QED BY <1>1, <1>14, <1>15, <1>16, Dispatch, Zenon

(* hasVehicleInEdge: the opcode and two strings.                           *)
LEMMA InEdgeHeard ==
  ASSUME NEW strings \in Seq(Names),
         NEW b, b = Copy(createMessageWithStrings(strings, sizeof.int), 0,
                         Bytes("int", HAS_VEHICLE_IN_EDGE))
  PROVE  Received(b) = InEdge(strings)
<1>1. sizeof.int = 4 /\ HAS_VEHICLE_IN_EDGE \in 0 .. 4 /\ 4 \in Nat /\ 4 >= 4
  BY DEF sizeof, HAS_VEHICLE_IN_EDGE
<1>2. PICK buffer : buffer = createMessageWithStrings(strings, 4)
  OBVIOUS
<1>3. /\ buffer \in Seq(Byte) /\ Len(buffer) = 4 + sizeof.int + TotalSize(strings)
      /\ Carries(buffer, 4, Written(strings)) /\ TotalSize(strings) \in Nat
  BY <1>1, <1>2, Created, Zenon
<1>4. Written(strings) \in Seq(Byte)
  BY WrittenType
<1>5. b = Copy(buffer, 0, Bytes("int", HAS_VEHICLE_IN_EDGE)) /\ 4 <= Len(buffer)
  BY <1>1, <1>2, <1>3
<1>6. /\ b \in Seq(Byte) /\ Len(b) = Len(buffer) /\ Read("int", b, 0) = HAS_VEHICLE_IN_EDGE
      /\ Carries(b, 4, Written(strings))
  BY <1>1, <1>3, <1>4, <1>5, Opcode, Zenon
<1>7. readStringsFromMessage(b, 4) = strings
  BY <1>1, <1>3, <1>6, ReadStrings, Zenon
<1> QED BY <1>1, <1>6, <1>7, Dispatch, Zenon

(* addVehicle: the opcode, three numbers and four strings.                 *)
LEMMA AddingHeard ==
  ASSUME NEW strings \in Seq(Names), NEW laneIndex \in LaneIndex, NEW lanePos \in Real,
         NEW speed \in Real,
         NEW b, b = Copy(Copy(createMessageWithStrings(strings, sizeof.int * 2 + sizeof.double * 2),
                              sizeof.int,
                              Bytes("int", laneIndex) \o Bytes("double", lanePos)
                                \o Bytes("double", speed)),
                         0, Bytes("int", ADD_VEHICLE))
  PROVE  Received(b) = Adding(strings, laneIndex, lanePos, speed)
<1>1. /\ sizeof.int = 4 /\ sizeof.double = 8 /\ sizeof.int * 2 = 8
      /\ sizeof.int * 2 + sizeof.double = 16 /\ sizeof.int * 2 + sizeof.double * 2 = 24
      /\ ADD_VEHICLE \in 0 .. 4
  BY DEF sizeof, ADD_VEHICLE
<1>2. /\ 4 \in Nat /\ 8 \in Nat /\ 16 \in Nat /\ 24 \in Nat
      /\ 4 >= 4 /\ 8 >= 4 /\ 16 >= 4 /\ 24 >= 4
  OBVIOUS
<1>3. PICK message : message = createMessageWithStrings(strings, 24)
  OBVIOUS
<1>4. /\ message \in Seq(Byte) /\ Len(message) = 24 + sizeof.int + TotalSize(strings)
      /\ Carries(message, 24, Written(strings)) /\ TotalSize(strings) \in Nat
  BY <1>2, <1>3, Created, Zenon
<1>5. PICK w : w = Written(strings) /\ w \in Seq(Byte)
  BY WrittenType
<1>6. /\ laneIndex \in Value /\ lanePos \in Value /\ speed \in Value
      /\ "int" \in {"int", "double", "bool"} /\ "double" \in {"int", "double", "bool"}
  BY DEF Value
<1>7. PICK i : i = Bytes("int", laneIndex) /\ i \in Seq(Byte) /\ Len(i) = 4
  BY <1>1, <1>6, Numbers, ZenonT(40)
<1>8. PICK p : p = Bytes("double", lanePos) /\ p \in Seq(Byte) /\ Len(p) = 8
  <2>1. lanePos \in Value /\ "double" \in {"int", "double", "bool"}
    BY <1>6
  <2>2. Bytes("double", lanePos) \in Seq(Byte) /\ Len(Bytes("double", lanePos)) = sizeof.double
    BY <2>1, Numbers, Zenon
  <2> QED BY <1>1, <2>2
<1>9. PICK d : d = Bytes("double", speed) /\ d \in Seq(Byte) /\ Len(d) = 8
  <2>1. speed \in Value /\ "double" \in {"int", "double", "bool"}
    BY <1>6
  <2>2. Bytes("double", speed) \in Seq(Byte) /\ Len(Bytes("double", speed)) = sizeof.double
    BY <2>1, Numbers, Zenon
  <2> QED BY <1>1, <2>2
<1>10. PICK front : front = i \o p
  OBVIOUS
<1>11. front \in Seq(Byte) /\ Len(front) = 12
  <2>1. front \in Seq(Byte) /\ Len(front) = Len(i) + Len(p)
    BY <1>7, <1>8, <1>10, Joined, Zenon
  <2>2. Len(front) = 4 + 8
    BY <1>7, <1>8, <2>1, Zenon
  <2>3. 4 + 8 = 12
    OBVIOUS
  <2> QED BY <2>1, <2>2, <2>3, Zenon
<1>12. PICK numbers : numbers = front \o d
  OBVIOUS
<1>13. numbers \in Seq(Byte) /\ Len(numbers) = 20
  <2>1. numbers \in Seq(Byte) /\ Len(numbers) = Len(front) + Len(d)
    BY <1>9, <1>11, <1>12, Joined, Zenon
  <2>2. Len(numbers) = 12 + 8
    BY <1>9, <1>11, <2>1, Zenon
  <2>3. 12 + 8 = 20
    OBVIOUS
  <2> QED BY <2>1, <2>2, <2>3, Zenon
<1>14. PICK buffer : buffer = Copy(message, 4, numbers)
  OBVIOUS
<1>15. /\ buffer \in Seq(Byte) /\ Len(buffer) = Len(message) /\ Carries(buffer, 4, numbers)
       /\ \A k \in 1 .. Len(message) : k <= 4 \/ k > 24 => buffer[k] = message[k]
  <2>1. PICK four : four = 4
    OBVIOUS
  <2>2. four \in Nat /\ four + Len(numbers) <= Len(message)
    BY <1>1, <1>4, <1>13, <2>1
  <2>3. /\ buffer \in Seq(Byte) /\ Len(buffer) = Len(message) /\ Carries(buffer, four, numbers)
        /\ \A k \in 1 .. Len(message) :
             k <= four \/ k > four + Len(numbers) => buffer[k] = message[k]
    <3>1. message \in Seq(Byte) /\ buffer = Copy(message, four, numbers)
      BY <1>4, <1>14, <2>1
    <3>2. numbers \in Seq(Byte)
      BY <1>13
    <3> QED BY <2>2, <3>1, <3>2, Copied
  <2>4. 4 + 20 = 24
    OBVIOUS
  <2> QED BY <1>13, <2>1, <2>3, <2>4, ZenonT(40)
<1>16. Carries(buffer, 24, w)
  <2> SUFFICES ASSUME NEW k \in 1 .. Len(w)
               PROVE  24 + k \in 1 .. Len(buffer) /\ buffer[24 + k] = w[k]
    BY DEF Carries
  <2>1. 24 + k \in 1 .. Len(message) /\ message[24 + k] = w[k]
    BY <1>4, <1>5 DEF Carries
  <2>2. 24 + k > 24
    BY <1>5
  <2> QED BY <1>15, <2>1, <2>2
<1>17. Carries(buffer, 4, front) /\ Carries(buffer, 16, d) /\ Len(buffer) \in Nat
  <2>1. Len(buffer) \in Nat
    BY <1>15
  <2>2. Carries(buffer, 4, front) /\ Carries(buffer, 4 + Len(front), d)
    BY <1>2, <1>9, <1>11, <1>12, <1>15, <2>1, CarriedApart, Zenon
  <2>3. 4 + Len(front) = 16
    BY <1>11
  <2> QED BY <2>1, <2>2, <2>3, Zenon
<1>18. Carries(buffer, 4, i) /\ Carries(buffer, 8, p)
  <2>1. Carries(buffer, 4, i) /\ Carries(buffer, 4 + Len(i), p)
    BY <1>2, <1>7, <1>8, <1>10, <1>17, CarriedApart, Zenon
  <2>2. 4 + Len(i) = 8
    <3>1. 4 + 4 = 8
      OBVIOUS
    <3> QED BY <1>7, <3>1, Zenon
  <2> QED BY <2>1, <2>2, Zenon
<1>19. b = Copy(buffer, 0, Bytes("int", ADD_VEHICLE))
  <2>1. numbers = Bytes("int", laneIndex) \o Bytes("double", lanePos) \o Bytes("double", speed)
    BY <1>7, <1>8, <1>9, <1>10, <1>12, Zenon
  <2> QED BY <1>1, <1>3, <1>14, <2>1, Zenon
<1>20. 4 <= Len(buffer)
  BY <1>1, <1>4, <1>15
<1>21. /\ b \in Seq(Byte) /\ Len(b) = Len(buffer) /\ Read("int", b, 0) = ADD_VEHICLE
       /\ \A offset \in Nat, x \in Seq(Byte) :
            offset >= 4 /\ Carries(buffer, offset, x) => Carries(b, offset, x)
  BY <1>1, <1>15, <1>19, <1>20, Opcode, Zenon
<1>22. readStringsFromMessage(b, 24) = strings
  <2>1. Carries(b, 24, w)
    BY <1>2, <1>5, <1>16, <1>21, Zenon
  <2>2. Len(b) = 24 + sizeof.int + TotalSize(strings) /\ Carries(b, 24, Written(strings))
    BY <1>4, <1>5, <1>15, <1>21, <2>1, Zenon
  <2> QED BY <1>2, <1>21, <2>2, ReadStrings, Zenon
<1>23. Read("int", b, 4) = laneIndex
  <2>1. Carries(b, 4, Bytes("int", laneIndex))
    BY <1>2, <1>7, <1>18, <1>21, Zenon
  <2>2. laneIndex \in Value /\ "int" \in {"int", "double", "bool"} /\ b \in Seq(Byte) /\ 4 \in Nat
    BY <1>2, <1>6, <1>21
  <2> QED BY <2>1, <2>2, ReadNumber, Zenon
<1>24. Read("double", b, 8) = lanePos
  <2>1. Carries(b, 8, Bytes("double", lanePos))
    BY <1>2, <1>8, <1>18, <1>21, Zenon
  <2>2. lanePos \in Value /\ "double" \in {"int", "double", "bool"} /\ b \in Seq(Byte) /\ 8 \in Nat
    BY <1>2, <1>6, <1>21
  <2> QED BY <2>1, <2>2, ReadNumber, ZenonT(40)
<1>25. Read("double", b, 16) = speed
  <2>1. Carries(b, 16, Bytes("double", speed))
    BY <1>2, <1>9, <1>17, <1>21, Zenon
  <2>2. speed \in Value /\ "double" \in {"int", "double", "bool"} /\ b \in Seq(Byte) /\ 16 \in Nat
    BY <1>2, <1>6, <1>21
  <2> QED BY <2>1, <2>2, ReadNumber, ZenonT(40)
<1>26. Received(b) = Adding(readStringsFromMessage(b, 24), Read("int", b, 4),
                            Read("double", b, 8), Read("double", b, 16))
  <2>1. Received(b) = Adding(readStringsFromMessage(b, sizeof.int * 2 + sizeof.double * 2),
                             Read("int", b, sizeof.int), Read("double", b, sizeof.int * 2),
                             Read("double", b, sizeof.int * 2 + sizeof.double))
    BY <1>21, Dispatch
  <2> QED BY <1>1, <2>1, Zenon
<1> QED BY <1>22, <1>23, <1>24, <1>25, <1>26, Zenon

-----------------------------------------------------------------------------
(* What the handler answers is what the stub returns.                      *)

LEMMA ListReturned ==
  ASSUME NEW list \in Seq(Names), NEW op, op = GET_EDGE_VEHICLES
  PROVE  Returning(op, createMessageWithStrings(list, 0)) = [list |-> list]
<1>1. PICK b : b = createMessageWithStrings(list, 0)
  OBVIOUS
<1>2. 0 \in Nat
  OBVIOUS
<1>3. b \in Seq(Byte) /\ Len(b) = 0 + sizeof.int + TotalSize(list) /\ Carries(b, 0, Written(list))
  BY <1>1, <1>2, Created, Zenon
<1>4. readStringsFromMessage(b, 0) = list
  BY <1>2, <1>3, ReadStrings, Zenon
<1>5. Returning(op, b) = [list |-> readStringsFromMessage(b, 0)]
  <2>1. op \notin {HAS_VEHICLE, HAS_VEHICLE_IN_EDGE}
    BY DEF GET_EDGE_VEHICLES, HAS_VEHICLE, HAS_VEHICLE_IN_EDGE
  <2> QED BY <2>1, Zenon DEF Returning
<1> QED BY <1>1, <1>4, <1>5, Zenon

LEMMA BoolReturned ==
  ASSUME NEW has \in BOOLEAN, NEW op \in {HAS_VEHICLE, HAS_VEHICLE_IN_EDGE}
  PROVE  Returning(op, Bytes("bool", has)) = [has |-> has]
<1>1. has \in Value /\ "bool" \in {"int", "double", "bool"} /\ 0 \in Nat
  BY DEF Value
<1>2. PICK b : b = Bytes("bool", has)
  OBVIOUS
<1>3. b \in Seq(Byte)
  BY <1>1, <1>2, Numbers, Zenon
<1>4. Carries(b, 0, Bytes("bool", has))
  <2>1. \A i \in 1 .. Len(b) : 0 + i = i
    BY <1>3
  <2> QED BY <1>2, <2>1 DEF Carries
<1>5. Read("bool", b, 0) = has
  BY <1>1, <1>3, <1>4, ReadNumber, Zenon
<1>6. op # GET_EDGE_VEHICLES
  BY DEF GET_EDGE_VEHICLES, HAS_VEHICLE, HAS_VEHICLE_IN_EDGE
<1> QED BY <1>2, <1>5, <1>6, Zenon DEF Returning

LEMMA OkReturned ==
  ASSUME NEW op, op \notin {GET_EDGE_VEHICLES, HAS_VEHICLE, HAS_VEHICLE_IN_EDGE}, NEW buffer
  PROVE  Returning(op, buffer) = [ok |-> TRUE]
BY Zenon DEF Returning

-----------------------------------------------------------------------------
(* The invariant: the request is heard as the call that was made, and the  *)
(* reply read as what was meant.  Understood follows, and does not do for  *)
(* an invariant: it says nothing of the buffers.                           *)
Agreed ==
  /\ called # << >> => called = <<Received(request)>>
  /\ heard # << >> => /\ called # << >> /\ heard = called
                      /\ meant = <<Returning(called[1].op, reply)>>
  /\ returned # << >> => heard # << >> /\ returned = meant

LEMMA Sent ==
  ASSUME Agreed, NEW call, NEW buffer, Send(call, buffer),
         Received(Copy(buffer, 0, Bytes("int", call.op))) = call
  PROVE  Agreed'
<1>1. called = << >> /\ heard = << >> /\ returned = << >>
  BY DEF Agreed, Send
<1>2. heard' = << >> /\ returned' = << >>
  BY <1>1 DEF Send
<1>3. called' = <<Received(request')>>
  BY DEF Send
<1> QED BY <1>2, <1>3, Zenon DEF Agreed

LEMMA Answered ==
  ASSUME Agreed, NEW value, NEW buffer, Answer(value, buffer),
         Returning(Received(request).op, buffer) = value
  PROVE  Agreed'
<1>1. called = <<Received(request)>> /\ called # << >> /\ returned = << >>
  BY DEF Agreed, Answer
<1>2. /\ called' = called /\ request' = request /\ returned' = << >> /\ heard' = called
      /\ meant' = <<value>> /\ reply' = buffer
  BY <1>1 DEF Answer
<1>3. called[1].op = Received(request).op
  BY <1>1
<1>4. meant' = <<Returning(called'[1].op, reply')>>
  BY <1>2, <1>3, Zenon
<1> QED BY <1>1, <1>2, <1>4, Zenon DEF Agreed

LEMMA Initially == MsgInit => Agreed
BY DEF MsgInit, Agreed

(* The names of a call.                                                    *)
LEMMA Named == /\ \A id \in Id : id \in Names
               /\ \A a, b \in Id : <<a, b>> \in Seq(Names)
               /\ \A a, b, c, d \in Id : <<a, b, c, d>> \in Seq(Names)
               /\ \A list \in Found : list \in Seq(Names)
<1>1. \A id \in Id : id \in Names
  BY NamesAssumption
<1>2. \A list \in Found : list \in Seq(Names)
  BY NamesAssumption
<1> HIDE DEF Names
<1>3. \A a, b \in Names : <<a, b>> \in Seq(Names)
  OBVIOUS
<1>4. \A a, b, c, d \in Names : <<a, b, c, d>> \in Seq(Names)
  OBVIOUS
<1> QED BY <1>1, <1>2, <1>3, <1>4

LEMMA Kept == Agreed /\ [MsgNext]_messages => Agreed'
<1> SUFFICES ASSUME Agreed, [MsgNext]_messages PROVE Agreed'
  OBVIOUS
<1>1. ASSUME NEW id \in Id, getEdgeVehicles(id) PROVE Agreed'
  <2>1. id \in Names /\ GET_EDGE_VEHICLES \in {GET_EDGE_VEHICLES, HAS_VEHICLE}
    BY Named
  <2>2. Asking(GET_EDGE_VEHICLES, id).op = GET_EDGE_VEHICLES
    BY DEF Asking
  <2>3. Received(Copy(Unwritten(sizeof.int) \o Terminated(id), 0,
                      Bytes("int", Asking(GET_EDGE_VEHICLES, id).op))) =
          Asking(GET_EDGE_VEHICLES, id)
    BY <2>1, <2>2, AskingHeard, Zenon
  <2> QED BY <1>1, <2>3, Sent, Zenon DEF getEdgeVehicles
<1>2. ASSUME NEW id \in Id, hasVehicle(id) PROVE Agreed'
  <2>1. id \in Names /\ HAS_VEHICLE \in {GET_EDGE_VEHICLES, HAS_VEHICLE}
    BY Named
  <2>2. Asking(HAS_VEHICLE, id).op = HAS_VEHICLE
    BY DEF Asking
  <2>3. Received(Copy(Unwritten(sizeof.int) \o Terminated(id), 0,
                      Bytes("int", Asking(HAS_VEHICLE, id).op))) = Asking(HAS_VEHICLE, id)
    BY <2>1, <2>2, AskingHeard, Zenon
  <2> QED BY <1>2, <2>3, Sent, Zenon DEF hasVehicle
<1>3. ASSUME NEW vehId \in Id, NEW edgeId \in Id, hasVehicleInEdge(vehId, edgeId) PROVE Agreed'
  <2>1. <<vehId, edgeId>> \in Seq(Names)
    BY Named
  <2>2. InEdge(<<vehId, edgeId>>).op = HAS_VEHICLE_IN_EDGE
    BY DEF InEdge
  <2>3. Received(Copy(createMessageWithStrings(<<vehId, edgeId>>, sizeof.int), 0,
                      Bytes("int", InEdge(<<vehId, edgeId>>).op))) = InEdge(<<vehId, edgeId>>)
    BY <2>1, <2>2, InEdgeHeard, Zenon
  <2> QED BY <1>3, <2>3, Sent, Zenon DEF hasVehicleInEdge
<1>4. ASSUME NEW vehId \in Id, NEW speed \in Real, setVehicleSpeed(vehId, speed) PROVE Agreed'
  <2>1. vehId \in Names
    BY Named
  <2>2. SpeedOf(vehId, speed).op = SET_VEHICLE_SPEED
    BY DEF SpeedOf
  <2>3. Received(Copy(Unwritten(sizeof.int) \o Bytes("double", speed) \o Terminated(vehId), 0,
                      Bytes("int", SpeedOf(vehId, speed).op))) = SpeedOf(vehId, speed)
    BY <2>1, <2>2, SpeedHeard, Zenon
  <2> QED BY <1>4, <2>3, Sent, Zenon DEF setVehicleSpeed
<1>5. ASSUME NEW vehId \in Id, NEW routeId \in Id, NEW vehType \in Id, NEW laneId \in Id,
             NEW laneIndex \in LaneIndex, NEW lanePos \in Real, NEW speed \in Real,
             addVehicle(<<vehId, routeId, vehType, laneId>>, laneIndex, lanePos, speed)
      PROVE  Agreed'
  <2>1. PICK strings \in Seq(Names) : strings = <<vehId, routeId, vehType, laneId>>
    BY Named
  <2>2. Adding(strings, laneIndex, lanePos, speed).op = ADD_VEHICLE
    BY DEF Adding
  <2>3. PICK buffer :
          buffer = Copy(createMessageWithStrings(strings, sizeof.int * 2 + sizeof.double * 2),
                        sizeof.int,
                        Bytes("int", laneIndex) \o Bytes("double", lanePos)
                          \o Bytes("double", speed))
    OBVIOUS
  <2>4. Received(Copy(buffer, 0, Bytes("int", Adding(strings, laneIndex, lanePos, speed).op))) =
          Adding(strings, laneIndex, lanePos, speed)
    BY <2>1, <2>2, <2>3, AddingHeard, ZenonT(40)
  <2>5. Send(Adding(strings, laneIndex, lanePos, speed), buffer)
    BY <1>5, <2>1, <2>3, Zenon DEF addVehicle
  <2> QED BY <2>4, <2>5, Sent, Zenon
<1>6. CASE AnswerList
  <2>1. PICK list \in Found : Answer([list |-> list], createMessageWithStrings(list, 0))
    BY <1>6 DEF AnswerList
  <2>2. Returning(Received(request).op, createMessageWithStrings(list, 0)) = [list |-> list]
    BY <1>6, <2>1, Named, ListReturned, Zenon DEF AnswerList
  <2> QED BY <2>1, <2>2, Answered, Zenon
<1>7. CASE AnswerBool
  <2>1. PICK has \in BOOLEAN : Answer([has |-> has], Bytes("bool", has))
    BY <1>7 DEF AnswerBool
  <2>2. Returning(Received(request).op, Bytes("bool", has)) = [has |-> has]
    BY <1>7, <2>1, BoolReturned, Zenon DEF AnswerBool
  <2> QED BY <2>1, <2>2, Answered, Zenon
<1>8. CASE AnswerOk
  <2>1. PICK buffer : Answer([ok |-> TRUE], buffer)
    BY <1>8 DEF AnswerOk
  <2>2. Returning(Received(request).op, buffer) = [ok |-> TRUE]
    BY <1>8, OkReturned, Zenon DEF AnswerOk
  <2> QED BY <2>1, <2>2, Answered, Zenon
<1>9. CASE Return
  BY <1>9, Zenon DEF Return, Agreed
<1>10. CASE Proceed
  BY <1>10, Zenon DEF Proceed, Agreed
<1>11. CASE UNCHANGED messages
  BY <1>11, Zenon DEF messages, Agreed
<1>12. CASE Call
  BY <1>12, <1>1, <1>2, <1>3, <1>4, <1>5, Zenon DEF Call
<1> QED BY <1>6, <1>7, <1>8, <1>9, <1>10, <1>11, <1>12, Zenon DEF MsgNext

(* Whatever the names, numbers and lists of names: the handler takes every *)
(* request for the call that the stub was given, and the stub returns what *)
(* the handler meant (PartitionEdgesStub.cpp, NeighborPartitionHandler.cpp *)
(* and messagingShared.cpp agree on the offset of every field).            *)
THEOREM AllUnderstood == MsgSpec => []Understood
<1>1. Agreed => Understood
  BY DEF Agreed, Understood
<1> QED BY <1>1, Initially, Kept, PTL DEF MsgSpec

-----------------------------------------------------------------------------
(* Runs, an edge at a time.                                                *)

NoneYet == [parts |-> << >>, current |-> << >>]
Ended(r) == IF r.current # << >> THEN Append(r.parts, r.current) ELSE r.parts

Cutting(s, E, u) ==
  \A n \in 0 .. Len(s) : u[n] = IF n = 0 THEN NoneYet ELSE NextEdge(u[n - 1], s[n], E)

LEMMA CuttingSteps ==
  ASSUME NEW S, NEW s \in Seq(S), NEW E
  PROVE  \E u : Cutting(s, E, u) /\ Runs(s, E) = Ended(u[Len(s)])
<1> DEFINE L == Len(s)
           Rec(u, k) == u = [n \in 0 .. k |-> IF n = 0 THEN NoneYet
                                              ELSE NextEdge(u[n - 1], s[n], E)]
           Missing == {k \in Nat : ~ \E u : Rec(u, k)}
<1>1. L \in Nat
  OBVIOUS
<1>2. ASSUME Missing # {} PROVE FALSE
  <2>1. PICK k \in Missing : \A y \in Missing : k <= y
    <3> HIDE DEF Rec
    <3> QED BY <1>2, Least
  <2>2. CASE k = 0
    <3>1. Rec([n \in 0 .. 0 |-> NoneYet], 0)
      OBVIOUS
    <3> QED BY <2>2, <3>1
  <2>3. CASE k # 0
    <3>1. PICK f : Rec(f, k - 1)
      <4>1. k - 1 \in Nat /\ ~ (k <= k - 1)
        BY <2>3
      <4> HIDE DEF Rec
      <4> QED BY <4>1, <2>1
    <3> DEFINE new == NextEdge(f[k - 1], s[k], E)
               g == [n \in 0 .. k |-> IF n = k THEN new ELSE f[n]]
    <3>2. g[k] = new /\ \A n \in 0 .. k - 1 : g[n] = f[n]
      <4> HIDE DEF new
      <4> QED BY <2>3
    <3>3. \A n \in 0 .. k : g[n] = IF n = 0 THEN NoneYet ELSE NextEdge(g[n - 1], s[n], E)
      <4> TAKE n \in 0 .. k
      <4>1. CASE n = k
        <5>1. k - 1 \in 0 .. k - 1
          BY <2>3
        <5>2. g[k - 1] = f[k - 1]
          BY <5>1, <3>2
        <5> HIDE DEF g
        <5> QED BY <5>2, <3>2, <4>1, <2>3
      <4>2. CASE n # k
        <5>1. n \in 0 .. k - 1 /\ (n # 0 => n - 1 \in 0 .. k - 1)
          BY <4>2
        <5>2. f[n] = IF n = 0 THEN NoneYet ELSE NextEdge(f[n - 1], s[n], E)
          BY <3>1, <5>1
        <5> HIDE DEF g
        <5> QED BY <5>1, <5>2, <3>2
      <4> QED BY <4>1, <4>2
    <3>4. Rec(g, k)
      <4>1. g = [n \in 0 .. k |-> g[n]]
        OBVIOUS
      <4> HIDE DEF g
      <4> QED BY <3>3, <4>1
    <3> QED BY <3>4, <2>1
  <2> QED BY <2>2, <2>3
<1>3. \E u : Rec(u, L)
  <2> HIDE DEF Rec
  <2> QED BY <1>1, <1>2
<1> DEFINE u == CHOOSE u : Rec(u, L)
<1>4. Rec(u, L)
  <2> HIDE DEF Rec
  <2> QED BY <1>3
<1>5. Runs(s, E) = Ended(u[L])
  BY DEF Runs, Ended, NoneYet
<1> HIDE DEF u
<1>6. Cutting(s, E, u)
  BY <1>4 DEF Cutting
<1> QED BY <1>5, <1>6

-----------------------------------------------------------------------------
(* A visit: a run of edges in E that goes on neither before nor after.     *)
IsVisit(s, E, a, b) ==
  /\ a \in 1 .. Len(s) /\ b \in a .. Len(s)
  /\ \A k \in a .. b : s[k] \in E
  /\ a = 1 \/ s[a - 1] \notin E
  /\ b = Len(s) \/ s[b + 1] \notin E

(* The parts are the visits among the first n edges, in their order.       *)
AreVisits(s, E, parts, n, from, to) ==
  /\ \A i \in 1 .. Len(parts) : /\ IsVisit(s, E, from[i], to[i]) /\ to[i] <= n
                                /\ parts[i] = SubSeq(s, from[i], to[i])
  /\ \A i, j \in 1 .. Len(parts) : i < j => to[i] < from[j]
  /\ \A k \in 1 .. n : s[k] \in E => \E i \in 1 .. Len(parts) : k \in from[i] .. to[i]

VisitsOf(s, E, parts, n) == \E from, to : AreVisits(s, E, parts, n, from, to)

LEMMA VisitNumbers ==
  ASSUME NEW s, NEW E, NEW a, NEW b, IsVisit(s, E, a, b)
  PROVE  a \in Nat /\ b \in Nat /\ 1 <= a /\ a <= b
<1>1. a \in 1 .. Len(s) /\ b \in a .. Len(s)
  BY DEF IsVisit
<1> QED BY <1>1

LEMMA NoVisits ==
  ASSUME NEW s, NEW E
  PROVE  VisitsOf(s, E, << >>, 0)
BY DEF VisitsOf, AreVisits

LEMMA StepOver ==
  ASSUME NEW S, NEW s \in Seq(S), NEW E, NEW parts \in Seq(Seq(S)), NEW n \in 1 .. Len(s),
         VisitsOf(s, E, parts, n - 1), s[n] \notin E
  PROVE  VisitsOf(s, E, parts, n)
<1>1. PICK from, to : AreVisits(s, E, parts, n - 1, from, to)
  BY DEF VisitsOf
<1>2. ASSUME NEW i \in 1 .. Len(parts) PROVE to[i] \in Nat /\ to[i] <= n
  <2>1. IsVisit(s, E, from[i], to[i]) /\ to[i] <= n - 1
    BY <1>1 DEF AreVisits
  <2>2. to[i] \in Nat
    BY <2>1, VisitNumbers
  <2> QED BY <2>1, <2>2
<1>3. \A k \in 1 .. n : s[k] \in E => k \in 1 .. n - 1
  OBVIOUS
<1>4. AreVisits(s, E, parts, n, from, to)
  BY <1>1, <1>2, <1>3 DEF AreVisits
<1> QED BY <1>4 DEF VisitsOf

LEMMA AddVisit ==
  ASSUME NEW S, NEW s \in Seq(S), NEW E, NEW parts \in Seq(Seq(S)), NEW a \in Nat, NEW b \in Nat,
         VisitsOf(s, E, parts, a), IsVisit(s, E, a + 1, b),
         NEW visit \in Seq(S), visit = SubSeq(s, a + 1, b)
  PROVE  VisitsOf(s, E, Append(parts, visit), b)
<1>1. PICK from, to : AreVisits(s, E, parts, a, from, to)
  BY DEF VisitsOf
<1> DEFINE m == Len(parts)
           new == Append(parts, visit)
           f == [i \in 1 .. m + 1 |-> IF i = m + 1 THEN a + 1 ELSE from[i]]
           t == [i \in 1 .. m + 1 |-> IF i = m + 1 THEN b ELSE to[i]]
<1>2. m \in Nat /\ Len(new) = m + 1 /\ new[m + 1] = visit /\ \A i \in 1 .. m : new[i] = parts[i]
  BY AppendProperties
<1>3. f[m + 1] = a + 1 /\ t[m + 1] = b /\ \A i \in 1 .. m : f[i] = from[i] /\ t[i] = to[i]
  BY <1>2
<1> HIDE DEF f, t, m, new
<1>4. a < b /\ b <= Len(s)
  BY DEF IsVisit
<1>5. ASSUME NEW i \in 1 .. m + 1
      PROVE  IsVisit(s, E, f[i], t[i]) /\ t[i] <= b /\ new[i] = SubSeq(s, f[i], t[i])
  <2>1. CASE i = m + 1
    BY <2>1, <1>2, <1>3
  <2>2. CASE i # m + 1
    <3>1. i \in 1 .. m
      BY <2>2, <1>2
    <3>2. IsVisit(s, E, from[i], to[i]) /\ to[i] <= a /\ parts[i] = SubSeq(s, from[i], to[i])
      BY <1>1, <3>1 DEF AreVisits, m
    <3>3. to[i] \in Nat
      BY <3>2, VisitNumbers
    <3>4. to[i] <= b
      BY <3>2, <3>3, <1>4
    <3> QED BY <3>1, <3>2, <3>4, <1>2, <1>3, Zenon
  <2> QED BY <2>1, <2>2
<1>6. ASSUME NEW i \in 1 .. m + 1, NEW j \in 1 .. m + 1, i < j PROVE t[i] < f[j]
  <2>1. i \in 1 .. m
    BY <1>2, <1>6
  <2>2. IsVisit(s, E, from[i], to[i]) /\ to[i] <= a
    BY <1>1, <2>1 DEF AreVisits, m
  <2>3. CASE j = m + 1
    <3>1. to[i] \in Nat
      BY <2>2, VisitNumbers
    <3> QED BY <3>1, <2>1, <2>2, <2>3, <1>3
  <2>4. CASE j # m + 1
    <3>1. j \in 1 .. m
      BY <2>4, <1>2, <1>6
    <3> QED BY <3>1, <2>1, <1>1, <1>3, <1>6 DEF AreVisits, m
  <2> QED BY <2>3, <2>4
<1>7. ASSUME NEW k \in 1 .. b, s[k] \in E PROVE \E i \in 1 .. m + 1 : k \in f[i] .. t[i]
  <2>1. CASE k \in 1 .. a
    <3>1. PICK i \in 1 .. m : k \in from[i] .. to[i]
      BY <1>1, <1>7, <2>1 DEF AreVisits, m
    <3>2. i \in 1 .. m + 1
      BY <1>2, <3>1
    <3> QED BY <3>1, <3>2, <1>3
  <2>2. CASE k \notin 1 .. a
    <3>1. k \in a + 1 .. b /\ m + 1 \in 1 .. m + 1
      BY <2>2, <1>2
    <3> QED BY <3>1, <1>3
  <2> QED BY <2>1, <2>2
<1>8. AreVisits(s, E, new, b, f, t)
  BY <1>2, <1>5, <1>6, <1>7 DEF AreVisits
<1> QED BY <1>8 DEF VisitsOf, new

(* After n edges: the visits that are over, and the one that goes on.      *)
Coming(S, s, E, n, r) ==
  \E parts \in Seq(Seq(S)), a \in 0 .. n :
    /\ r = [parts |-> parts, current |-> SubSeq(s, a + 1, n)]
    /\ VisitsOf(s, E, parts, a)
    /\ \A k \in a + 1 .. n : s[k] \in E
    /\ a = 0 \/ s[a] \notin E

LEMMA Piece ==
  ASSUME NEW S, NEW s \in Seq(S), NEW n \in 0 .. Len(s), NEW a \in 0 .. n,
         NEW piece, piece = SubSeq(s, a + 1, n)
  PROVE  /\ piece \in Seq(S) /\ Len(piece) = n - a
         /\ a = n => piece = << >>
         /\ n < Len(s) => SubSeq(s, a + 1, n + 1) = Append(piece, s[n + 1])
         /\ a < n => piece[1] = s[a + 1]
<1>1. Len(s) \in Nat
  OBVIOUS
<1>2. \A i \in a + 1 .. n : s[i] \in S
  BY <1>1
<1>3. piece \in Seq(S) /\ Len(piece) = n - a
  BY <1>1, <1>2
<1>4. a = n => piece = << >>
  BY <1>3, EmptySeq
<1>5. n < Len(s) => SubSeq(s, a + 1, n + 1) = Append(piece, s[n + 1])
  BY <1>1
<1>6. a < n => piece[1] = s[a + 1]
  BY <1>1
<1> QED BY <1>3, <1>4, <1>5, <1>6

LEMMA OneEdge ==
  ASSUME NEW S, NEW s \in Seq(S), NEW E, NEW n \in 1 .. Len(s), NEW r,
         Coming(S, s, E, n - 1, r)
  PROVE  Coming(S, s, E, n, NextEdge(r, s[n], E))
<1>1. n - 1 \in 0 .. Len(s) /\ n - 1 < Len(s) /\ n \in 0 .. Len(s) /\ (n - 1) + 1 = n
  OBVIOUS
<1>2. PICK parts \in Seq(Seq(S)), a \in 0 .. n - 1 :
        /\ r = [parts |-> parts, current |-> SubSeq(s, a + 1, n - 1)]
        /\ VisitsOf(s, E, parts, a)
        /\ \A k \in a + 1 .. n - 1 : s[k] \in E
        /\ a = 0 \/ s[a] \notin E
  BY DEF Coming
<1>3. PICK current : current = SubSeq(s, a + 1, n - 1)
  OBVIOUS
<1>4. /\ current \in Seq(S) /\ (current = << >> <=> a = n - 1)
      /\ SubSeq(s, a + 1, n) = Append(current, s[n])
  <2>1. a \in 0 .. n - 1
    BY <1>2
  <2>2. PICK m \in 0 .. Len(s) : m = n - 1
    BY <1>1
  <2>3. m < Len(s) /\ m + 1 = n /\ a \in 0 .. m /\ current = SubSeq(s, a + 1, m)
    BY <1>1, <1>3, <2>1, <2>2
  <2>4. current \in Seq(S) /\ (current = << >> <=> a = m)
    <3>1. current \in Seq(S) /\ Len(current) = m - a
      BY <2>2, <2>3, Piece
    <3>2. Len(current) = 0 <=> a = m
      BY <2>2, <2>3, <3>1
    <3> QED BY <3>1, <3>2, EmptySeq
  <2>5. SubSeq(s, a + 1, m + 1) = Append(current, s[m + 1])
    BY <2>2, <2>3, Piece
  <2> QED BY <2>2, <2>3, <2>4, <2>5, Zenon
<1>5. r = [parts |-> parts, current |-> current] /\ a \in 0 .. n - 1 /\ parts \in Seq(Seq(S))
  BY <1>2, <1>3
<1>6. CASE s[n] \in E
  <2>1. NextEdge(r, s[n], E) = [parts |-> parts, current |-> SubSeq(s, a + 1, n)]
    BY <1>4, <1>5, <1>6 DEF NextEdge
  <2>2. a \in 0 .. n /\ \A k \in a + 1 .. n : s[k] \in E
    BY <1>2, <1>6
  <2> QED BY <1>2, <2>1, <2>2 DEF Coming
<1>7. CASE s[n] \notin E /\ a = n - 1
  <2>1. NextEdge(r, s[n], E) = r /\ r.current = << >> /\ r.parts = parts
    BY <1>4, <1>5, <1>7 DEF NextEdge
  <2>2. n \in 0 .. n /\ SubSeq(s, n + 1, n) = << >>
    BY <1>1, Piece
  <2>3. r = [parts |-> parts, current |-> SubSeq(s, n + 1, n)]
    BY <1>5, <2>1, <2>2
  <2>4. VisitsOf(s, E, parts, n)
    BY <1>2, <1>7, StepOver
  <2>5. \A k \in n + 1 .. n : s[k] \in E
    OBVIOUS
  <2> QED BY <1>5, <1>7, <2>1, <2>2, <2>3, <2>4, <2>5 DEF Coming
<1>8. CASE s[n] \notin E /\ a # n - 1
  <2>1. NextEdge(r, s[n], E) = [parts |-> Append(parts, current), current |-> << >>]
    BY <1>4, <1>5, <1>8 DEF NextEdge
  <2>2. n \in 0 .. n /\ SubSeq(s, n + 1, n) = << >>
    BY <1>1, Piece
  <2>3. IsVisit(s, E, a + 1, n - 1)
    <3>1. a + 1 \in 1 .. Len(s) /\ n - 1 \in a + 1 .. Len(s) /\ (a + 1) - 1 = a
          /\ (a = 0 => a + 1 = 1)
      BY <1>5, <1>8
    <3> QED BY <1>1, <1>2, <1>8, <3>1 DEF IsVisit
  <2>4. a \in Nat /\ n - 1 \in Nat
    BY <1>5
  <2>5. VisitsOf(s, E, Append(parts, current), n - 1)
    BY <1>2, <1>3, <1>4, <2>3, <2>4, AddVisit
  <2>6. Append(parts, current) \in Seq(Seq(S))
    BY <1>4, <1>5, AppendProperties
  <2>7. VisitsOf(s, E, Append(parts, current), n)
    BY <1>8, <2>5, <2>6, StepOver
  <2>8. \A k \in n + 1 .. n : s[k] \in E
    OBVIOUS
  <2> QED BY <1>8, <2>1, <2>2, <2>6, <2>7, <2>8 DEF Coming
<1> QED BY <1>6, <1>7, <1>8

(* Whatever the route and the edges: what _filter_or_split_route takes for *)
(* the parts of a route are its visits to the partition, all of them, each *)
(* as long as it lasts, in the order in which the vehicle makes them.      *)
THEOREM RunsAreVisits ==
  ASSUME NEW S, NEW s \in Seq(S), NEW E
  PROVE  Runs(s, E) \in Seq(Seq(S)) /\ VisitsOf(s, E, Runs(s, E), Len(s))
<1> DEFINE L == Len(s)
<1>1. L \in Nat /\ L \in 0 .. L
  OBVIOUS
<1>2. PICK u : Cutting(s, E, u) /\ Runs(s, E) = Ended(u[L])
  BY CuttingSteps
<1> DEFINE Right(n) == Coming(S, s, E, n, u[n])
           Bad == {n \in 0 .. L : ~ Right(n)}
<1>3. Right(0)
  <2>1. u[0] = NoneYet
    BY <1>1, <1>2 DEF Cutting
  <2>2. SubSeq(s, 0 + 1, 0) = << >> /\ 0 \in 0 .. 0
    <3>1. 0 \in 0 .. L /\ 0 \in 0 .. 0
      BY <1>1
    <3> QED BY <3>1, Piece
  <2>3. << >> \in Seq(Seq(S)) /\ VisitsOf(s, E, << >>, 0)
    BY EmptySeq, NoVisits
  <2>4. u[0] = [parts |-> << >>, current |-> SubSeq(s, 0 + 1, 0)]
    BY <2>1, <2>2 DEF NoneYet
  <2>5. \A k \in 0 + 1 .. 0 : s[k] \in E
    OBVIOUS
  <2> QED BY <2>2, <2>3, <2>4, <2>5, Zenon DEF Coming
<1>4. ASSUME NEW n \in 1 .. L, Right(n - 1) PROVE Right(n)
  <2>1. u[n] = NextEdge(u[n - 1], s[n], E)
    BY <1>2 DEF Cutting
  <2> QED BY <1>4, <2>1, OneEdge
<1>5. ASSUME Bad # {} PROVE FALSE
  <2>1. PICK n \in Bad : \A y \in Bad : n <= y
    <3>1. Bad \subseteq Nat
      BY <1>1
    <3> HIDE DEF Bad
    <3> QED BY <1>5, <3>1, Least
  <2>2. n # 0
    BY <2>1, <1>3
  <2>3. n \in 1 .. L /\ n - 1 \in 0 .. L /\ ~ (n <= n - 1)
    BY <2>1, <2>2
  <2> HIDE DEF Right
  <2>4. Right(n - 1)
    BY <2>1, <2>3
  <2> QED BY <1>4, <2>1, <2>3, <2>4
<1>6. Right(L)
  <2> HIDE DEF Right
  <2> QED BY <1>1, <1>5
<1>7. PICK parts \in Seq(Seq(S)), a \in 0 .. L :
        /\ u[L] = [parts |-> parts, current |-> SubSeq(s, a + 1, L)]
        /\ VisitsOf(s, E, parts, a)
        /\ \A k \in a + 1 .. L : s[k] \in E
        /\ a = 0 \/ s[a] \notin E
  BY <1>6 DEF Coming
<1>8. PICK current : current = SubSeq(s, a + 1, L)
  OBVIOUS
<1>9. current \in Seq(S) /\ (current = << >> <=> a = L)
  <2>1. a \in 0 .. L
    BY <1>7
  <2>2. current \in Seq(S) /\ Len(current) = L - a
    BY <1>1, <1>8, <2>1, Piece
  <2>3. Len(current) = 0 <=> a = L
    BY <1>1, <2>1, <2>2
  <2> QED BY <2>2, <2>3, EmptySeq
<1>10. u[L].parts = parts /\ u[L].current = current
  BY <1>7, <1>8
<1>11. CASE a = L
  <2>1. Runs(s, E) = parts
    BY <1>2, <1>9, <1>10, <1>11 DEF Ended
  <2> QED BY <1>7, <1>11, <2>1
<1>12. CASE a # L
  <2>1. Runs(s, E) = Append(parts, current)
    BY <1>2, <1>9, <1>10, <1>12 DEF Ended
  <2>2. IsVisit(s, E, a + 1, L)
    <3>1. a + 1 \in 1 .. Len(s) /\ L \in a + 1 .. Len(s) /\ (a + 1) - 1 = a
          /\ (a = 0 => a + 1 = 1)
      BY <1>1, <1>7, <1>12
    <3> QED BY <1>7, <3>1 DEF IsVisit
  <2>3. a \in Nat /\ parts \in Seq(Seq(S))
    BY <1>7
  <2>4. VisitsOf(s, E, Append(parts, current), L)
    BY <1>1, <1>7, <1>8, <1>9, <2>2, <2>3, AddVisit
  <2>5. Append(parts, current) \in Seq(Seq(S))
    BY <1>9, <2>3, AppendProperties
  <2> QED BY <2>1, <2>4, <2>5
<1> QED BY <1>11, <1>12

-----------------------------------------------------------------------------
(* Where a route begins, and how long the pieces are.                      *)

AreParts(S, s, E, r) ==
  /\ r \in Seq(Seq(S)) /\ Len(r) \in Nat
  /\ \A i \in 1 .. Len(r) : r[i] \in Seq(S) /\ Len(r[i]) \in Nat
  /\ s[1] \in E <=> (Len(r) # 0 /\ r[1][1] = s[1])

LEMMA Beginnings ==
  ASSUME NEW S, NEW s \in Seq(S), s # << >>, NEW E, NEW r, r = Runs(s, E)
  PROVE  AreParts(S, s, E, r)
<1>1. r \in Seq(Seq(S)) /\ VisitsOf(s, E, r, Len(s))
  BY RunsAreVisits
<1>2. PICK from, to : AreVisits(s, E, r, Len(s), from, to)
  BY <1>1 DEF VisitsOf
<1>3. Len(r) \in Nat /\ \A i \in 1 .. Len(r) : r[i] \in Seq(S)
  BY <1>1
<1>4. \A i \in 1 .. Len(r) : Len(r[i]) \in Nat
  BY <1>3, LenProperties
<1>5. Len(s) \in Nat /\ 1 \in 1 .. Len(s)
  BY EmptySeq
<1>6. ASSUME NEW i \in 1 .. Len(r)
      PROVE  /\ r[i][1] = s[from[i]] /\ s[from[i]] \in E
             /\ from[i] \in Nat /\ to[i] \in Nat /\ 1 <= from[i] /\ from[i] <= to[i]
  <2>1. IsVisit(s, E, from[i], to[i]) /\ r[i] = SubSeq(s, from[i], to[i])
    BY <1>2 DEF AreVisits
  <2>2. PICK f, t : f = from[i] /\ t = to[i]
    OBVIOUS
  <2>3. f \in 1 .. Len(s) /\ t \in f .. Len(s) /\ s[f] \in E /\ r[i] = SubSeq(s, f, t)
    <3>1. f \in 1 .. Len(s) /\ t \in f .. Len(s) /\ \A k \in f .. t : s[k] \in E
      BY <2>1, <2>2 DEF IsVisit
    <3>2. f \in f .. t
      BY <3>1
    <3> QED BY <2>1, <2>2, <3>1, <3>2
  <2>4. r[i][1] = s[f]
    <3>1. \A k \in f .. t : s[k] \in S
      BY <2>3
    <3> QED BY <2>3, <3>1
  <2>5. f \in Nat /\ t \in Nat /\ 1 <= f /\ f <= t
    BY <2>3
  <2> QED BY <2>2, <2>3, <2>4, <2>5, Zenon
<1>7. ASSUME Len(r) # 0, r[1][1] = s[1] PROVE s[1] \in E
  <2>1. 1 \in 1 .. Len(r)
    BY <1>3, <1>7
  <2> QED BY <1>6, <1>7, <2>1
<1>8. ASSUME s[1] \in E PROVE Len(r) # 0 /\ r[1][1] = s[1]
  <2>1. PICK i \in 1 .. Len(r) : 1 \in from[i] .. to[i]
    BY <1>2, <1>5, <1>8 DEF AreVisits
  <2>2. from[i] = 1
    <3>1. from[i] \in Nat /\ to[i] \in Nat /\ 1 <= from[i]
      BY <1>6
    <3> QED BY <2>1, <3>1
  <2>3. 1 \in 1 .. Len(r)
    BY <1>3, <2>1
  <2>4. i = 1
    <3>1. ASSUME i # 1 PROVE FALSE
      <4>1. 1 < i
        BY <2>1, <3>1
      <4>2. to[1] < from[i]
        BY <1>2, <2>1, <2>3, <4>1 DEF AreVisits
      <4>3. to[1] \in Nat /\ from[1] \in Nat /\ 1 <= from[1] /\ from[1] <= to[1]
        BY <1>6, <2>3
      <4> QED BY <2>2, <4>2, <4>3
    <3> QED BY <3>1
  <2> QED BY <1>3, <1>6, <2>2, <2>3, <2>4
<1> QED BY <1>1, <1>3, <1>4, <1>7, <1>8, Zenon DEF AreParts

LEMMA FewDigits ==
  ASSUME NEW n \in 0 .. 9
  PROVE  Digits(n) = 1
<1> DEFINE D == {d \in 1 .. n \div 9 + 1 : n >= 10 ^ (d - 1)} \cup {1}
<1>1. n \div 9 \in 0 .. 1
  OBVIOUS
<1>2. ASSUME NEW d \in D PROVE d = 1
  <2>1. d \in 1 .. 2
    BY <1>1
  <2>2. d # 2
    <3>1. 10 ^ (2 - 1) = 10
      OBVIOUS
    <3>2. ~ (n >= 10)
      OBVIOUS
    <3>3. d = 2 => n >= 10 ^ (2 - 1)
      OBVIOUS
    <3> QED BY <3>1, <3>2, <3>3
  <2> QED BY <2>1, <2>2
<1>3. D = {1}
  <2>1. 1 \in D
    OBVIOUS
  <2> HIDE DEF D
  <2> QED BY <1>2, <2>1
<1>4. Max({1}) = 1
  BY DEF Max
<1> HIDE DEF D
<1>5. Digits(n) = Max(D)
  BY DEF Digits, D
<1> QED BY <1>3, <1>4, <1>5

LEMMA MoreDigits ==
  ASSUME NEW n \in Nat, n >= 10
  PROVE  Digits(n) \in Nat /\ Digits(n) >= 2
<1> DEFINE D == {d \in 1 .. n \div 9 + 1 : n >= 10 ^ (d - 1)} \cup {1}
<1>1. n \div 9 \in Nat /\ n \div 9 >= 1
  OBVIOUS
<1>2. 2 \in D
  <2>1. 2 \in 1 .. n \div 9 + 1
    BY <1>1
  <2>2. 10 ^ (2 - 1) = 10
    OBVIOUS
  <2>3. n >= 10 ^ (2 - 1)
    BY <2>2
  <2> QED BY <2>1, <2>3
<1>3. D \subseteq Nat
  OBVIOUS
<1>4. \A d \in D : d <= n \div 9 + 1
  BY <1>1
<1>5. n \div 9 + 1 \in Nat
  BY <1>1
<1> HIDE DEF D
<1>6. \E x \in D : \A y \in D : y <= x
  BY <1>2, <1>3, <1>4, <1>5, Greatest
<1>7. \E x \in D : \A y \in D : x >= y
  BY <1>3, <1>6
<1>8. Max(D) \in D /\ \A y \in D : Max(D) >= y
  BY <1>7 DEF Max
<1>9. Digits(n) = Max(D)
  BY DEF Digits, D
<1> QED BY <1>2, <1>3, <1>8, <1>9

-----------------------------------------------------------------------------
(* The pieces of a route.                                                  *)

IdOf(len, i) ==
  IF len = 1 THEN Whole ELSE [zeros |-> Digits(len) - Digits(i - 1), num |-> i - 1]

LEMMA FewIds ==
  ASSUME NEW len \in Nat, len < 10, NEW i \in 1 .. len
  PROVE  /\ len = 1 => IdOf(len, i) = Whole
         /\ len # 1 => IdOf(len, i) = Plain(i - 1)
<1>1. len \in 0 .. 9 /\ i - 1 \in 0 .. 9
  OBVIOUS
<1>2. Digits(len) = 1 /\ Digits(i - 1) = 1
  BY <1>1, FewDigits
<1> QED BY <1>2 DEF IdOf, Plain

LEMMA ManyIds ==
  ASSUME NEW len \in Nat, len >= 10, NEW i \in 1 .. len
  PROVE  IdOf(len, i).num = i - 1 /\ IdOf(len, i) # Whole /\ IdOf(len, i) # Plain(0)
<1>1. IdOf(len, i) = [zeros |-> Digits(len) - Digits(i - 1), num |-> i - 1]
  BY DEF IdOf
<1>2. CASE i = 1
  <2>1. Digits(i - 1) = 1
    <3>1. i - 1 \in 0 .. 9
      BY <1>2
    <3> QED BY <3>1, FewDigits
  <2>2. Digits(len) - Digits(i - 1) # 0 /\ Digits(len) - Digits(i - 1) # -1
    BY <2>1, MoreDigits
  <2> QED BY <1>1, <2>2 DEF Whole, Plain
<1>3. CASE i # 1
  <2>1. i - 1 # 0
    BY <1>3
  <2> QED BY <1>1, <2>1 DEF Whole, Plain
<1> QED BY <1>2, <1>3

ArePieces(s, r, f) ==
  /\ DOMAIN f = 1 .. Len(r) /\ f = [i \in 1 .. Len(r) |-> f[i]]
  /\ \A i \in 1 .. Len(r) :
       /\ f[i] = [id |-> f[i].id, edges |-> f[i].edges, isStart |-> f[i].isStart]
       /\ f[i].id = IdOf(Len(r), i) /\ f[i].edges = r[i]
       /\ f[i].isStart = (r[i][1] = s[1])

LEMMA Pieces ==
  ASSUME NEW S, NEW s \in Seq(S), s # << >>, NEW E,
         NEW r, r = Runs(s, E), NEW f, f = FilterOrSplit(s, E)
  PROVE  ArePieces(s, r, f)
<1>1. DOMAIN r = 1 .. Len(r)
  <2>1. r \in Seq(Seq(S))
    BY Beginnings DEF AreParts
  <2> QED BY <2>1
<1>2. f = [i \in 1 .. Len(r) |->
            [id |-> IdOf(Len(r), i), edges |-> r[i], isStart |-> r[i][1] = s[1]]]
  BY <1>1, Zenon DEF FilterOrSplit, IdOf
<1>3. ASSUME NEW i \in 1 .. Len(r)
      PROVE  /\ f[i] = [id |-> f[i].id, edges |-> f[i].edges, isStart |-> f[i].isStart]
             /\ f[i].id = IdOf(Len(r), i) /\ f[i].edges = r[i]
             /\ f[i].isStart = (r[i][1] = s[1])
  <2>1. f[i] = [id |-> IdOf(Len(r), i), edges |-> r[i], isStart |-> r[i][1] = s[1]]
    BY <1>2, Zenon
  <2>2. PICK id, edges, isStart :
          id = IdOf(Len(r), i) /\ edges = r[i] /\ isStart = (r[i][1] = s[1])
    BY Zenon
  <2>3. f[i] = [id |-> id, edges |-> edges, isStart |-> isStart]
    BY <2>1, <2>2, Zenon
  <2>4. f[i].id = id /\ f[i].edges = edges /\ f[i].isStart = isStart
    BY <2>3
  <2> QED BY <2>2, <2>3, <2>4, Zenon
<1> QED BY <1>2, <1>3, Zenon DEF ArePieces

(* The pieces of a partition that is visited less than ten times.          *)
LEMMA FewPieces ==
  ASSUME NEW S, NEW s \in Seq(S), s # << >>, NEW E, NEW r, r = Runs(s, E), Len(r) < 10,
         NEW f, f = FilterOrSplit(s, E)
  PROVE  /\ Renumbered(f) = f
         /\ (\E i \in FirstPiece(f) : f[i].isStart) <=> s[1] \in E
         /\ s[1] \in E => FirstLength(f) = Len(r[1])
<1>1. /\ r \in Seq(Seq(S)) /\ Len(r) \in Nat
      /\ \A i \in 1 .. Len(r) : r[i] \in Seq(S) /\ Len(r[i]) \in Nat
      /\ s[1] \in E <=> (Len(r) # 0 /\ r[1][1] = s[1])
  <2>1. AreParts(S, s, E, r)
    BY Beginnings
  <2> QED BY <2>1, Zenon DEF AreParts
<1>2. /\ DOMAIN f = 1 .. Len(r) /\ f = [i \in 1 .. Len(r) |-> f[i]]
      /\ \A i \in 1 .. Len(r) :
           /\ f[i] = [id |-> f[i].id, edges |-> f[i].edges, isStart |-> f[i].isStart]
           /\ f[i].id = IdOf(Len(r), i) /\ f[i].edges = r[i]
           /\ f[i].isStart = (r[i][1] = s[1])
  <2>1. ArePieces(s, r, f)
    BY Pieces
  <2> QED BY <2>1, Zenon DEF ArePieces
<1>3. \A i \in 1 .. Len(r) :
        /\ f[i].edges = r[i] /\ f[i].isStart = (r[i][1] = s[1])
        /\ (f[i].id = Whole /\ i = 1) \/ f[i].id = Plain(i - 1)
  <2> TAKE i \in 1 .. Len(r)
  <2>1. (IdOf(Len(r), i) = Whole /\ i = 1) \/ IdOf(Len(r), i) = Plain(i - 1)
    BY <1>1, FewIds
  <2> QED BY <1>2, <2>1, Zenon
<1>4. Renumbered(f) = f
  <2>1. \A i \in 1 .. Len(r) : ~ (f[i].id # Whole /\ f[i].id.num > i - 1)
    <3> TAKE i \in 1 .. Len(r)
    <3>1. ~ (i - 1 > i - 1) /\ Plain(i - 1).num = i - 1
      BY <1>1 DEF Plain
    <3> QED BY <1>3, <3>1, ZenonT(40)
  <2> QED BY <1>2, <2>1, Zenon DEF Renumbered
<1>5. FirstPiece(f) = IF Len(r) = 0 THEN {} ELSE {1}
  <2>1. \A i \in 1 .. Len(r) : RouteNodeIsFirst(f[i]) <=> i = 1
    <3> TAKE i \in 1 .. Len(r)
    <3>1. Plain(i - 1) # Whole /\ (Plain(i - 1) = Plain(0) <=> i = 1)
      BY <1>1 DEF Plain, Whole
    <3> QED BY <1>3, <3>1 DEF RouteNodeIsFirst
  <2>2. Len(r) # 0 <=> 1 \in 1 .. Len(r)
    BY <1>1
  <2> QED BY <1>1, <1>2, <2>1, <2>2 DEF FirstPiece
<1>6. Len(r) # 0 => 1 \in 1 .. Len(r)
  BY <1>1
<1>7. (\E i \in FirstPiece(f) : f[i].isStart) <=> s[1] \in E
  <2>1. CASE Len(r) = 0
    BY <1>1, <1>5, <2>1, Zenon
  <2>2. CASE Len(r) # 0
    <3>1. FirstPiece(f) = {1} /\ f[1].isStart = (r[1][1] = s[1])
      BY <1>3, <1>5, <1>6, <2>2, Zenon
    <3> QED BY <1>1, <2>2, <3>1, Zenon
  <2> QED BY <2>1, <2>2
<1>8. ASSUME s[1] \in E PROVE FirstLength(f) = Len(r[1])
  <2>1. FirstPiece(f) = {1} /\ 1 \in 1 .. Len(r)
    BY <1>1, <1>5, <1>6, <1>8
  <2>2. PICK n \in Nat : n = Len(r[1])
    BY <1>1, <2>1
  <2>3. {Len(f[i].edges) : i \in FirstPiece(f)} \cup {0} = {n, 0}
    BY <1>3, <2>1, <2>2
  <2>4. Max({n, 0}) = n
    <3>1. n >= 0 /\ n >= n /\ (0 >= n => n = 0)
      OBVIOUS
    <3> QED BY <3>1 DEF Max
  <2> QED BY <2>2, <2>3, <2>4 DEF FirstLength
<1> QED BY <1>4, <1>7, <1>8

(* What is left of them when the first is removed.                         *)
LEMMA FewLeft ==
  ASSUME NEW S, NEW s \in Seq(S), s # << >>, NEW E, NEW r, r = Runs(s, E), Len(r) < 10,
         Len(r) # 0, NEW f, f = FilterOrSplit(s, E), NEW t, t = Renumbered(Tail(f))
  PROVE  /\ DOMAIN t = 1 .. Len(r) - 1
         /\ \A i \in 1 .. Len(r) - 1 : t[i].edges = r[i + 1] /\ t[i].id = Plain(i - 1)
<1>1. Len(r) \in Nat
  BY Beginnings DEF AreParts
<1>2. /\ DOMAIN f = 1 .. Len(r) /\ f = [i \in 1 .. Len(r) |-> f[i]]
      /\ \A i \in 1 .. Len(r) :
           /\ f[i] = [id |-> f[i].id, edges |-> f[i].edges, isStart |-> f[i].isStart]
           /\ f[i].id = IdOf(Len(r), i) /\ f[i].edges = r[i]
           /\ f[i].isStart = (r[i][1] = s[1])
  <2>1. ArePieces(s, r, f)
    BY Pieces
  <2> QED BY <2>1, Zenon DEF ArePieces
<1> DEFINE X == {f[i] : i \in 1 .. Len(r)}
<1>3. f \in Seq(X) /\ Len(f) = Len(r) /\ f # << >>
  <2>1. f \in [1 .. Len(r) -> X]
    BY <1>2
  <2> HIDE DEF X
  <2>2. f \in Seq(X)
    <3>1. PICK l \in Nat : l = Len(r)
      BY <1>1
    <3>2. f \in [1 .. l -> X]
      BY <2>1, <3>1, Zenon
    <3> QED BY <3>2
  <2>3. Len(f) = Len(r)
    BY <1>1, <1>2, <2>2, LenProperties
  <2> QED BY <1>1, <2>2, <2>3, EmptySeq
<1> DEFINE u == Tail(f)
<1>4. u \in Seq(X) /\ Len(u) = Len(r) - 1 /\ \A i \in 1 .. Len(u) : u[i] = f[i + 1]
  <2> HIDE DEF X
  <2> QED BY <1>3, HeadTailProperties
<1>5. DOMAIN u = 1 .. Len(r) - 1
  <2> HIDE DEF X, u
  <2> QED BY <1>4, LenProperties
<1> HIDE DEF X, u
<1>6. ASSUME NEW i \in 1 .. Len(r) - 1
      PROVE  /\ u[i] = [id |-> u[i].id, edges |-> u[i].edges, isStart |-> u[i].isStart]
             /\ u[i].id = Plain(i) /\ u[i].edges = r[i + 1]
  <2>1. i + 1 \in 1 .. Len(r) /\ (i + 1) - 1 = i /\ Len(r) # 1 /\ i \in 1 .. Len(u)
    BY <1>1, <1>4
  <2>2. IdOf(Len(r), i + 1) = Plain(i)
    BY <1>1, <2>1, FewIds
  <2>3. u[i] = f[i + 1]
    BY <1>4, <2>1
  <2>4. PICK j \in 1 .. Len(r) : j = i + 1
    BY <2>1
  <2>5. /\ f[j] = [id |-> f[j].id, edges |-> f[j].edges, isStart |-> f[j].isStart]
        /\ f[j].id = IdOf(Len(r), j) /\ f[j].edges = r[j]
    BY <1>2, Zenon
  <2>6. u[i] = f[j] /\ IdOf(Len(r), j) = Plain(i) /\ r[j] = r[i + 1]
    BY <2>2, <2>3, <2>4, Zenon
  <2> QED BY <2>5, <2>6, Zenon
<1>7. ASSUME NEW i \in 1 .. Len(r) - 1
      PROVE  t[i] = [u[i] EXCEPT !.id = Plain(i - 1)]
  <2>1. u[i].id = Plain(i)
    BY <1>6
  <2>2. Plain(i) # Whole /\ Plain(i).num = i /\ i > i - 1
    BY <1>1 DEF Plain, Whole
  <2> QED BY <1>5, <2>1, <2>2, Zenon DEF Renumbered, u
<1>8. DOMAIN t = 1 .. Len(r) - 1
  BY <1>5, Zenon DEF Renumbered, u
<1>9. ASSUME NEW i \in 1 .. Len(r) - 1
      PROVE  t[i].edges = r[i + 1] /\ t[i].id = Plain(i - 1)
  <2>1. PICK id, edges, isStart, new :
          /\ u[i] = [id |-> id, edges |-> edges, isStart |-> isStart]
          /\ new = Plain(i - 1) /\ edges = r[i + 1]
    BY <1>6, Zenon
  <2>2. t[i] = [u[i] EXCEPT !.id = new]
    BY <1>7, <2>1, Zenon
  <2>3. t[i].edges = edges /\ t[i].id = new
    BY <2>1, <2>2
  <2> QED BY <2>1, <2>3, Zenon
<1> QED BY <1>8, <1>9

(* From ten visits on there are zeros before every number.                 *)
LEMMA ManyPieces ==
  ASSUME NEW S, NEW s \in Seq(S), s # << >>, NEW E, NEW r, r = Runs(s, E), Len(r) >= 10,
         NEW f, f = FilterOrSplit(s, E)
  PROVE  /\ Renumbered(f) = f /\ FirstPiece(f) = {} /\ 1 \in DOMAIN f
         /\ f[1].id # Whole /\ f[1].id # Plain(0)
<1>1. Len(r) \in Nat
  BY Beginnings DEF AreParts
<1>2. /\ DOMAIN f = 1 .. Len(r) /\ f = [i \in 1 .. Len(r) |-> f[i]]
      /\ \A i \in 1 .. Len(r) :
           /\ f[i] = [id |-> f[i].id, edges |-> f[i].edges, isStart |-> f[i].isStart]
           /\ f[i].id = IdOf(Len(r), i) /\ f[i].edges = r[i]
           /\ f[i].isStart = (r[i][1] = s[1])
  <2>1. ArePieces(s, r, f)
    BY Pieces
  <2> QED BY <2>1, Zenon DEF ArePieces
<1>3. \A i \in 1 .. Len(r) : f[i].id.num = i - 1 /\ f[i].id # Whole /\ f[i].id # Plain(0)
  <2> TAKE i \in 1 .. Len(r)
  <2>1. f[i].id = IdOf(Len(r), i)
    BY <1>2
  <2>2. IdOf(Len(r), i).num = i - 1 /\ IdOf(Len(r), i) # Whole /\ IdOf(Len(r), i) # Plain(0)
    BY <1>1, ManyIds
  <2> QED BY <2>1, <2>2, Zenon
<1>4. Renumbered(f) = f
  <2>1. \A i \in 1 .. Len(r) : ~ (f[i].id.num > i - 1)
    <3> TAKE i \in 1 .. Len(r)
    <3>1. ~ (i - 1 > i - 1)
      BY <1>1
    <3> QED BY <1>3, <3>1, Zenon
  <2> QED BY <1>2, <2>1, Zenon DEF Renumbered
<1>5. FirstPiece(f) = {}
  BY <1>2, <1>3 DEF FirstPiece, RouteNodeIsFirst
<1>6. 1 \in 1 .. Len(r)
  BY <1>1
<1> QED BY <1>2, <1>3, <1>4, <1>5, <1>6

-----------------------------------------------------------------------------
(* The invariant: what the pieces are while they are made, and then, who   *)
(* keeps the vehicle.  FewPiecesFound does not do for an invariant: it     *)
(* says nothing before the last check.                                     *)
Starting == {p \in Part : Len(Visits(p)) < 10 /\ route[1] \in Edges[p]}
AsSplit(p) == FilterOrSplit(route, Edges[p])
Left(p) == IF p \in Starting /\ ~starts[p] THEN Renumbered(Tail(AsSplit(p))) ELSE AsSplit(p)
Size(p) == Len(Visits(p)[1])

Splitting ==
  \A p \in Part : \/ pieces[p] = << >> /\ ~starts[p]
                  \/ pieces[p] = AsSplit(p) /\ (starts[p] <=> p \in Starting)

(* Whoever was checked and keeps it has a longer piece than all others.    *)
Checking ==
  /\ \A p \in Part : /\ pieces[p] = Left(p)
                     /\ starts[p] => p \in Starting
                     /\ p >= checked /\ p \in Starting => starts[p]
  /\ Starting # {} => \E p \in Part : starts[p]
  /\ \A p, q \in Part : p < checked /\ p # q /\ starts[p] /\ starts[q] => Size(q) < Size(p)

RouteInv ==
  /\ route \in Route /\ checked \in -1 .. NumParts
  /\ DOMAIN pieces = Part /\ starts \in [Part -> BOOLEAN]
  /\ checked = -1 => Splitting
  /\ checked # -1 => Checking

(* What the lemmas say of the pieces of one partition.                     *)
LEMMA OnePartition ==
  ASSUME route \in Route, NEW p \in Part
  PROVE  /\ Renumbered(AsSplit(p)) = AsSplit(p)
         /\ (\E i \in FirstPiece(AsSplit(p)) : AsSplit(p)[i].isStart) <=> p \in Starting
         /\ p \in Starting => FirstLength(AsSplit(p)) = Size(p) /\ Size(p) \in Nat
         /\ Visits(p) = << >> => AsSplit(p) = << >> /\ p \notin Starting
<1> DEFINE S == UNION {Edges[q] : q \in Part}
           E == Edges[p]
<1>1. route \in Seq(S) /\ route # << >>
  BY RouteAssumption
<1> HIDE DEF S, E
<1>2. PICK r, f : r = Runs(route, E) /\ f = FilterOrSplit(route, E)
  OBVIOUS
<1>3. AreParts(S, route, E, r)
  BY <1>1, <1>2, Beginnings
<1>4. ArePieces(route, r, f)
  BY <1>1, <1>2, Pieces
<1>5. r \in Seq(Seq(S)) /\ Len(r) \in Nat /\ (route[1] \in E <=> (Len(r) # 0 /\ r[1][1] = route[1]))
  BY <1>3, Zenon DEF AreParts
<1>6. AsSplit(p) = f /\ Visits(p) = r /\ (p \in Starting <=> Len(r) < 10 /\ route[1] \in E)
  BY <1>2 DEF AsSplit, Visits, Starting, E
<1>7. CASE Len(r) < 10
  <2>1. Renumbered(f) = f
    BY <1>1, <1>2, <1>7, FewPieces
  <2>2. (\E i \in FirstPiece(f) : f[i].isStart) <=> route[1] \in E
    BY <1>1, <1>2, <1>7, FewPieces
  <2>3. route[1] \in E => FirstLength(f) = Len(r[1])
    BY <1>1, <1>2, <1>7, FewPieces
  <2>4. route[1] \in E => Len(r[1]) \in Nat
    <3>1. Len(r) # 0 => 1 \in 1 .. Len(r)
      BY <1>5
    <3> QED BY <1>3, <1>5, <3>1, Zenon DEF AreParts
  <2>5. r = << >> => f = << >> /\ route[1] \notin E
    <3>1. r = << >> => Len(r) = 0
      BY <1>5
    <3>2. DOMAIN f = 1 .. Len(r) /\ f = [i \in 1 .. Len(r) |-> f[i]]
      BY <1>4, Zenon DEF ArePieces
    <3>3. Len(r) = 0 => f = << >>
      BY <3>2
    <3> QED BY <1>5, <3>1, <3>3, Zenon
  <2> QED BY <1>6, <1>7, <2>1, <2>2, <2>3, <2>4, <2>5, Zenon DEF Size
<1>8. CASE ~ (Len(r) < 10)
  <2>1. Len(r) >= 10
    BY <1>5, <1>8
  <2>2. Renumbered(f) = f /\ FirstPiece(f) = {}
    BY <1>1, <1>2, <2>1, ManyPieces
  <2>3. r # << >>
    <3>1. r = << >> => Len(r) = 0
      BY <1>5
    <3> QED BY <1>5, <2>1, <3>1
  <2> QED BY <1>6, <1>8, <2>2, <2>3, Zenon
<1> QED BY <1>7, <1>8

LEMMA RouteInitial == RouteInit => RouteInv
<1> SUFFICES ASSUME RouteInit PROVE RouteInv
  OBVIOUS
<1>1. /\ route \in Route /\ checked = -1 /\ DOMAIN pieces = Part /\ starts \in [Part -> BOOLEAN]
      /\ \A p \in Part : pieces[p] = << >> /\ ~starts[p]
  BY DEF RouteInit
<1>2. NumParts \in Nat
  BY RouteAssumption
<1>3. -1 \in -1 .. NumParts
  BY <1>2
<1> QED BY <1>1, <1>3 DEF RouteInv, Splitting

LEMMA RouteStep == RouteInv /\ [RouteNext]_split => RouteInv'
<1> SUFFICES ASSUME RouteInv, [RouteNext]_split PROVE RouteInv'
  OBVIOUS
<1>1. /\ route \in Route /\ checked \in -1 .. NumParts
      /\ DOMAIN pieces = Part /\ starts \in [Part -> BOOLEAN]
      /\ checked = -1 => Splitting
      /\ checked # -1 => Checking
  BY DEF RouteInv
<1>2. NumParts \in Nat /\ \A p \in Part : p \in Nat /\ p < NumParts
  BY RouteAssumption DEF Part
<1>3. ASSUME NEW p \in Part, PartRoute(p) PROVE RouteInv'
  <2>1. checked = -1 /\ checked' = -1 /\ route' = route
    BY <1>3 DEF PartRoute
  <2>2. /\ DOMAIN pieces' = Part /\ pieces'[p] = AsSplit(p)
        /\ \A q \in Part \ {p} : pieces'[q] = pieces[q]
    BY <1>1, <1>3 DEF PartRoute, AsSplit
  <2>3. /\ starts' \in [Part -> BOOLEAN] /\ \A q \in Part \ {p} : starts'[q] = starts[q]
        /\ starts'[p] <=> \E i \in FirstPiece(AsSplit(p)) : AsSplit(p)[i].isStart
    <3>1. starts' = [starts EXCEPT ![p] = \E i \in FirstPiece(AsSplit(p)) : AsSplit(p)[i].isStart]
      BY <1>3, <2>2 DEF PartRoute
    <3> QED BY <1>1, <3>1
  <2>4. starts'[p] <=> p \in Starting
    BY <1>1, <2>3, OnePartition
  <2>5. Starting' = Starting /\ \A q \in Part : AsSplit(q)' = AsSplit(q)
    BY <2>1 DEF Starting, Visits, AsSplit
  <2>6. Splitting'
    <3> SUFFICES ASSUME NEW q \in Part
                 PROVE  \/ pieces'[q] = << >> /\ ~starts'[q]
                        \/ pieces'[q] = AsSplit(q) /\ (starts'[q] <=> q \in Starting)
      BY <2>5 DEF Splitting
    <3>1. CASE q = p
      BY <3>1, <2>2, <2>4
    <3>2. CASE q # p
      BY <3>2, <1>1, <2>1, <2>2, <2>3 DEF Splitting
    <3> QED BY <3>1, <3>2
  <2> QED BY <1>1, <2>1, <2>2, <2>3, <2>6 DEF RouteInv
<1>4. CASE AllSplit
  <2>1. /\ checked = -1 /\ checked' = 0 /\ route' = route /\ pieces' = pieces /\ starts' = starts
        /\ \A p \in Part : pieces[p] # << >> \/ Visits(p) = << >>
    BY <1>4 DEF AllSplit, Visits
  <2>2. \A p \in Part : pieces[p] = AsSplit(p) /\ (starts[p] <=> p \in Starting)
    BY <1>1, <2>1, OnePartition DEF Splitting
  <2>3. Starting' = Starting /\ \A q \in Part : AsSplit(q)' = AsSplit(q)
    BY <2>1 DEF Starting, Visits, AsSplit
  <2>4. \A p \in Part : Left(p)' = AsSplit(p)
    BY <2>1, <2>2, <2>3 DEF Left
  <2>5. Starting \subseteq Part
    BY DEF Starting
  <2>6. \A p \in Part : ~ (p < checked')
    BY <1>2, <2>1
  <2>7. Checking'
    BY <2>1, <2>2, <2>3, <2>4, <2>5, <2>6 DEF Checking
  <2>8. 0 \in -1 .. NumParts
    BY <1>2
  <2> QED BY <1>1, <2>1, <2>7, <2>8 DEF RouteInv
<1>5. ASSUME NEW p \in Part, FinalDuplicatesCheck(p) PROVE RouteInv'
  <2>1. checked = p /\ checked' = p + 1 /\ route' = route /\ checked # -1
    BY <1>2, <1>5 DEF FinalDuplicatesCheck
  <2>2. Checking
    BY <1>1, <2>1
  <2> DEFINE rem == /\ starts[p]
                    /\ \E q \in Part \ {p} :
                         starts[q] /\ FirstLength(pieces[q]) >= FirstLength(pieces[p])
  <2>3. /\ starts' = [starts EXCEPT ![p] = @ /\ ~rem]
        /\ pieces' = [pieces EXCEPT ![p] = Renumbered(IF rem THEN Tail(@) ELSE @)]
    BY <1>5 DEF FinalDuplicatesCheck
  <2>4. PICK gone \in BOOLEAN : gone <=> rem
    OBVIOUS
  <2>5. /\ starts' = [starts EXCEPT ![p] = starts[p] /\ ~gone]
        /\ pieces' = [pieces EXCEPT ![p] = Renumbered(IF gone THEN Tail(pieces[p]) ELSE pieces[p])]
    BY <2>3, <2>4
  <2>6. \A q \in Part : starts[q] => FirstLength(pieces[q]) = Size(q) /\ Size(q) \in Nat
    <3> TAKE q \in Part
    <3>1. starts[q] => q \in Starting /\ pieces[q] = AsSplit(q)
      BY <2>2 DEF Checking, Left
    <3> QED BY <1>1, <3>1, OnePartition
  <2>7. gone <=> starts[p] /\ \E q \in Part \ {p} : starts[q] /\ Size(q) >= Size(p)
    BY <2>4, <2>6
  <2> HIDE DEF rem
  <2>8. /\ starts' \in [Part -> BOOLEAN] /\ \A q \in Part \ {p} : starts'[q] = starts[q]
        /\ starts'[p] <=> starts[p] /\ ~gone
    BY <1>1, <2>5
  <2>9. /\ DOMAIN pieces' = Part /\ \A q \in Part \ {p} : pieces'[q] = pieces[q]
        /\ pieces'[p] = Renumbered(IF gone THEN Tail(pieces[p]) ELSE pieces[p])
    BY <1>1, <2>5
  <2>10. /\ Starting' = Starting /\ \A q \in Part : AsSplit(q)' = AsSplit(q)
         /\ \A q \in Part : Size(q)' = Size(q)
    BY <2>1 DEF Starting, Visits, AsSplit, Size
  <2>11. pieces[p] = AsSplit(p) /\ (starts[p] <=> p \in Starting)
    <3>1. p \in Starting => starts[p]
      BY <1>2, <2>1, <2>2 DEF Checking
    <3> QED BY <2>2, <3>1 DEF Checking, Left
  <2>12. ASSUME NEW q \in Part
         PROVE  /\ pieces'[q] = Left(q)'
                /\ starts'[q] => q \in Starting
                /\ q >= checked' /\ q \in Starting => starts'[q]
    <3>1. CASE q # p
      <4>1. pieces'[q] = pieces[q] /\ starts'[q] = starts[q]
        BY <2>8, <2>9, <3>1
      <4>2. Left(q)' = Left(q)
        BY <2>10, <4>1 DEF Left
      <4>3. q >= checked' => q >= checked
        BY <1>2, <2>1
      <4> QED BY <2>2, <4>1, <4>2, <4>3 DEF Checking
    <3>2. CASE q = p
      <4>1. ~ (q >= checked')
        BY <1>2, <2>1, <3>2
      <4>2. CASE gone
        <5>1. starts[p] /\ ~starts'[p] /\ p \in Starting
          BY <2>7, <2>8, <2>11, <4>2
        <5>2. Left(p)' = Renumbered(Tail(AsSplit(p)))
          BY <2>10, <5>1 DEF Left
        <5> QED BY <2>9, <2>11, <3>2, <4>1, <4>2, <5>1, <5>2
      <4>3. CASE ~gone
        <5>1. starts'[p] <=> p \in Starting
          BY <2>8, <2>11, <4>3
        <5>2. Left(p)' = AsSplit(p)
          BY <2>10, <5>1 DEF Left
        <5>3. Renumbered(AsSplit(p)) = AsSplit(p)
          BY <1>1, OnePartition
        <5> QED BY <2>9, <2>11, <3>2, <4>1, <4>3, <5>1, <5>2, <5>3
      <4> QED BY <4>2, <4>3
    <3> QED BY <3>1, <3>2
  <2>13. ASSUME Starting # {} PROVE \E q \in Part : starts'[q]
    <3>1. PICK q \in Part : starts[q]
      BY <2>2, <2>13 DEF Checking
    <3>2. CASE q # p
      BY <2>8, <3>1, <3>2
    <3>3. CASE q = p /\ ~gone
      BY <2>8, <3>1, <3>3
    <3>4. CASE gone
      <4>1. PICK w \in Part \ {p} : starts[w]
        BY <2>7, <3>4
      <4> QED BY <2>8, <4>1
    <3> QED BY <3>2, <3>3, <3>4
  <2>14. ASSUME NEW a \in Part, NEW b \in Part, a < checked', a # b, starts'[a], starts'[b]
         PROVE  Size(b) < Size(a)
    <3>1. starts[a] /\ starts[b]
      BY <2>8, <2>14
    <3>2. CASE a < checked
      BY <2>2, <2>14, <3>1, <3>2 DEF Checking
    <3>3. CASE ~ (a < checked)
      <4>1. a = p
        BY <1>2, <2>1, <2>14, <3>3
      <4>2. ~gone
        BY <2>8, <2>14, <4>1
      <4>3. ~ (Size(b) >= Size(a))
        BY <2>7, <2>14, <3>1, <4>1, <4>2
      <4>4. Size(a) \in Nat /\ Size(b) \in Nat
        BY <2>6, <3>1
      <4> QED BY <4>3, <4>4
    <3> QED BY <3>2, <3>3
  <2>15. Checking'
    BY <2>10, <2>12, <2>13, <2>14 DEF Checking
  <2>16. p + 1 \in -1 .. NumParts /\ p + 1 # -1
    BY <1>2
  <2> QED BY <1>1, <2>1, <2>8, <2>9, <2>15, <2>16 DEF RouteInv
<1>6. CASE UNCHANGED split
  BY <1>6 DEF split, RouteInv, Splitting, Checking, Left, Starting, AsSplit, Size, Visits
<1>7. CASE Done
  BY <1>6, <1>7 DEF Done
<1> QED BY <1>3, <1>4, <1>5, <1>6, <1>7 DEF RouteNext

-----------------------------------------------------------------------------
(* What is found in the end.                                               *)

LEMMA OneKeeps ==
  ASSUME RouteInv, checked = NumParts
  PROVE  Cardinality({p \in Part : starts[p]}) = IF Starting = {} THEN 0 ELSE 1
<1> DEFINE K == {p \in Part : starts[p]}
<1>1. NumParts \in Nat /\ \A p \in Part : p < NumParts
  BY RouteAssumption DEF Part
<1>2. Checking
  BY <1>1 DEF RouteInv
<1>3. CASE Starting = {}
  <2>1. K = {}
    BY <1>2, <1>3 DEF Checking
  <2> HIDE DEF K
  <2> QED BY <1>3, <2>1, FS_EmptySet DEF K
<1>4. CASE Starting # {}
  <2>1. PICK p \in Part : starts[p]
    BY <1>2, <1>4 DEF Checking
  <2>2. ASSUME NEW q \in Part, starts[q], q # p PROVE FALSE
    <3>1. Size(q) < Size(p) /\ Size(p) < Size(q)
      BY <1>1, <1>2, <2>1, <2>2 DEF Checking
    <3>2. Size(p) \in Nat /\ Size(q) \in Nat
      BY <1>2, <2>1, <2>2, OnePartition DEF Checking, RouteInv
    <3> QED BY <3>1, <3>2
  <2>3. K = {p}
    BY <2>1, <2>2
  <2>4. Cardinality({p}) = 1
    BY FS_Singleton
  <2> QED BY <1>4, <2>3, <2>4
<1> QED BY <1>3, <1>4

LEMMA EachFound ==
  ASSUME RouteInv, checked = NumParts, NEW p \in Part, Len(Visits(p)) < 10
  PROVE  InPlace(p)
<1> DEFINE S == UNION {Edges[q] : q \in Part}
           E == Edges[p]
<1>1. route \in Seq(S) /\ route # << >> /\ NumParts \in Nat
  BY RouteAssumption DEF RouteInv
<1> HIDE DEF S
<1>2. PICK r, f : r = Runs(route, E) /\ f = FilterOrSplit(route, E)
  OBVIOUS
<1>3. AreParts(S, route, E, r)
  BY <1>1, <1>2, Beginnings
<1>4. ArePieces(route, r, f)
  BY <1>1, <1>2, Pieces
<1>5. r \in Seq(Seq(S)) /\ Len(r) \in Nat /\ Len(r) < 10
      /\ (route[1] \in E => Len(r) # 0)
  BY <1>2, <1>3, Zenon DEF AreParts, Visits
<1>6. DOMAIN f = 1 .. Len(r) /\ \A i \in 1 .. Len(r) : f[i].id = IdOf(Len(r), i) /\ f[i].edges = r[i]
  BY <1>4, Zenon DEF ArePieces
<1>7. pieces[p] = Left(p) /\ (p \in Starting <=> route[1] \in E) /\ Visits(p) = r /\ AsSplit(p) = f
  <2>1. Checking
    BY <1>1 DEF RouteInv
  <2> QED BY <1>2, <1>5, <2>1 DEF Checking, Visits, AsSplit, Starting
<1> HIDE DEF E
<1>8. CASE route[1] \in E /\ ~starts[p]
  <2>1. PICK t : t = Renumbered(Tail(f)) /\ pieces[p] = t
    BY <1>7, <1>8 DEF Left
  <2>a. Len(r) # 0
    BY <1>5, <1>8, Zenon
  <2>2. /\ DOMAIN t = 1 .. Len(r) - 1
        /\ \A i \in 1 .. Len(r) - 1 : t[i].edges = r[i + 1] /\ t[i].id = Plain(i - 1)
    <3>1. Len(r) < 10 /\ t = Renumbered(Tail(f)) /\ r = Runs(route, E) /\ f = FilterOrSplit(route, E)
      BY <1>2, <1>5, <2>1, Zenon
    <3> QED BY <1>1, <2>a, <3>1, FewLeft, SMT
  <2>3. Tail(r) = [i \in 1 .. Len(r) - 1 |-> r[i + 1]]
    <3>1. r # << >>
      BY <1>5, <1>8, EmptySeq
    <3>2. PICK x \in Seq(Seq(S)) : /\ x = Tail(r) /\ Len(x) = Len(r) - 1
                                  /\ \A i \in 1 .. Len(x) : x[i] = r[i + 1]
      BY <1>5, <3>1, HeadTailProperties
    <3>3. x = [i \in 1 .. Len(x) |-> x[i]]
      OBVIOUS
    <3> QED BY <3>2, <3>3, Zenon
  <2>4. [i \in DOMAIN t |-> t[i].edges] = Tail(r)
    BY <2>2, <2>3, Zenon
  <2>5. ASSUME NEW i \in DOMAIN t PROVE t[i].id = PieceName(p, i - 1)
    <3>1. t[i].id = Plain(i - 1) /\ Plain(i - 1) # Whole
      BY <2>2, <2>5 DEF Plain, Whole
    <3> QED BY <2>1, <2>5, <3>1, Zenon DEF PieceName
  <2> QED BY <1>7, <1>8, <2>1, <2>4, <2>5, Zenon DEF E, InPlace
<1>9. CASE ~ (route[1] \in E /\ ~starts[p])
  <2>1. pieces[p] = f
    BY <1>7, <1>9 DEF Left
  <2>2. r = [i \in 1 .. Len(r) |-> r[i]]
    BY <1>5
  <2>3. [i \in DOMAIN f |-> f[i].edges] = r
    BY <1>6, <2>2, Zenon
  <2>4. ASSUME NEW i \in 1 .. Len(r) PROVE f[i].id = PieceName(p, i - 1)
    <3>1. CASE Len(r) = 1
      <4>1. \A k \in 1 .. Len(r) : f[k].id = Whole
        BY <1>5, <1>6, <3>1, FewIds
      <4> QED BY <1>6, <2>1, <2>4, <4>1, Zenon DEF PieceName
    <3>2. CASE Len(r) # 1
      <4>1. f[i].id = Plain(i - 1) /\ Plain(i - 1) # Whole
        <5>1. f[i].id = Plain(i - 1)
          BY <1>5, <1>6, <3>2, FewIds
        <5>2. Plain(i - 1) # Whole
          BY DEF Plain, Whole
        <5> QED BY <5>1, <5>2
      <4> QED BY <1>6, <2>1, <2>4, <4>1, Zenon DEF PieceName
    <3> QED BY <3>1, <3>2
  <2> QED BY <1>6, <1>7, <1>9, <2>1, <2>3, <2>4, Zenon DEF E, InPlace
<1> QED BY <1>8, <1>9

(* However many partitions there are, however they overlap and whatever    *)
(* the route: when the scripts are through, of the partitions visited less *)
(* than ten times each has a piece for each visit, under the name that     *)
(* addVehicle looks for, and if the vehicle starts in one of them, then    *)
(* one partition keeps it (_filter_or_split_route,                         *)
(* _final_duplicates_check, addVehicle).                                   *)
THEOREM AllFewPiecesFound == RouteSpec => []FewPiecesFound
<1>1. ASSUME RouteInv, checked = NumParts PROVE FewPiecesFound
  <2> DEFINE few == {p \in Part : Len(Visits(p)) < 10}
  <2>1. ASSUME \E p \in few : route[1] \in Edges[p] PROVE OneStart
    <3>1. Starting # {}
      BY <2>1 DEF Starting
    <3> QED BY <1>1, <3>1, OneKeeps DEF OneStart
  <2>2. ASSUME NEW p \in few PROVE InPlace(p)
    <3>1. p \in Part /\ Len(Visits(p)) < 10
      OBVIOUS
    <3> QED BY <1>1, <3>1, EachFound, Zenon
  <2> QED BY <2>1, <2>2, Zenon DEF FewPiecesFound
<1>2. RouteInv => FewPiecesFound
  BY <1>1 DEF FewPiecesFound
<1> QED BY <1>2, RouteInitial, RouteStep, PTL DEF RouteSpec
=============================================================================
