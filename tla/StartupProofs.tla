---------------------------- MODULE StartupProofs ----------------------------
(***************************************************************************)
(* For every command line, every answer of METIS and every history of the  *)
(* data folder: partitions that load their data have been cut together,    *)
(* and they understand their command lines as the coordinator does.        *)
(*                                                                         *)
(* The first part is about one line: a partition makes of its line, which  *)
(* is the coordinator's with its own number and end time in front, what    *)
(* the coordinator made of it, or it ends because the line uses an option  *)
(* that only partitions have.  The two parsers go through the line in      *)
(* step, from the third turn of the partition's on: Related says how their *)
(* states compare.  The second part is about the folder and the starts.    *)
(***************************************************************************)
EXTENDS StartupInv, LeastElements, SequenceTheorems, TLAPS

Known == DOMAIN ArgsOptions
Own   == DOMAIN PartOptions

(* The tables of options.                                                  *)
LEMMA Tables ==
  /\ Own = {"--part-id", "--end-time"}
  /\ DOMAIN PartIndex = {"--part-id", "--end-time", "-P", "-T"}
  /\ PartIndex["-P"] = "--part-id" /\ PartIndex["-T"] = "--end-time"
  /\ \A name \in DOMAIN PartIndex : PartIndex[name] \in Own
  /\ \A name \in DOMAIN ArgsIndex : ArgsIndex[name] \in Known
  /\ Known \cap Own = {} /\ DOMAIN ArgsIndex \cap DOMAIN PartIndex = {}
  /\ "number" \notin DOMAIN ArgsIndex \cup DOMAIN PartIndex
  /\ \A name \in Known :
       ArgsOptions[name].default # << >> /\ ArgsOptions[name].required = FALSE
  /\ \A name \in Own : PartOptions[name].args = 1 /\ PartOptions[name].number = TRUE
  /\ "--help" \notin Own /\ "--version" \notin Own
<1>1. Own = {"--part-id", "--end-time"}
  BY DEF Own, PartOptions
<1>2. DOMAIN PartIndex = {"--part-id", "--end-time", "-P", "-T"}
  BY <1>1 DEF PartIndex, Own
<1>3. /\ PartIndex["-P"] = "--part-id" /\ PartIndex["-T"] = "--end-time"
      /\ \A name \in DOMAIN PartIndex : PartIndex[name] \in Own
  BY <1>1, <1>2 DEF PartIndex, Own
<1>4. Known = Flags \cup {"--cfg", "--num-threads", "--part-threads", "--remote-port",
                          "--data-dir"}
  BY DEF Known, ArgsOptions
<1>5. DOMAIN ArgsIndex = Known \cup {"-h", "-c", "-N", "-v"}
  BY DEF ArgsIndex, Known
<1>6. \A name \in DOMAIN ArgsIndex : ArgsIndex[name] \in Known
  BY <1>4, <1>5 DEF ArgsIndex, Known, Flags
<1>7. Known \cap Own = {} /\ DOMAIN ArgsIndex \cap DOMAIN PartIndex = {}
  BY <1>1, <1>2, <1>4, <1>5 DEF Flags
<1>8. "number" \notin DOMAIN ArgsIndex \cup DOMAIN PartIndex
  BY <1>2, <1>4, <1>5 DEF Flags
<1>9. \A name \in Known :
        ArgsOptions[name].default # << >> /\ ArgsOptions[name].required = FALSE
  BY DEF Known, ArgsOptions, Flag, Integral, Text
<1>10. \A name \in Own : PartOptions[name].args = 1 /\ PartOptions[name].number = TRUE
  BY DEF Own, PartOptions, Integral
<1>11. "--help" \notin Own /\ "--version" \notin Own
  BY <1>1
<1> QED
  BY <1>1, <1>2, <1>3, <1>6, <1>7, <1>8, <1>9, <1>10, <1>11

(* The partition has the coordinator's options and its own.                *)
LEMMA BothTables ==
  /\ Coordinator.index = ArgsIndex /\ Coordinator.options = ArgsOptions
  /\ DOMAIN Partition.index = DOMAIN ArgsIndex \cup DOMAIN PartIndex
  /\ \A name \in DOMAIN ArgsIndex : Partition.index[name] = ArgsIndex[name]
  /\ \A name \in DOMAIN PartIndex : Partition.index[name] = PartIndex[name]
  /\ DOMAIN Partition.options = Known \cup Own
  /\ \A name \in Known : Partition.options[name] = ArgsOptions[name]
  /\ \A name \in Own : Partition.options[name] = PartOptions[name]
BY Tables DEF Coordinator, Partition, Together, Known, Own

-----------------------------------------------------------------------------
(* The states of a parser.                                                 *)

IsState(s) ==
  /\ s = [rest |-> s.rest, values |-> s.values, used |-> s.used, unknown |-> s.unknown,
          error |-> s.error]
  /\ s.rest \in Seq(AnyWord)

(* The first word and the others.                                          *)
LEMMA FirstWord ==
  ASSUME NEW a \in Seq(AnyWord), a # << >>
  PROVE  /\ a[1] \in AnyWord /\ Tail(a) \in Seq(AnyWord) /\ 1 \in DOMAIN a
         /\ Len(Tail(a)) = Len(a) - 1 /\ Len(a) \in Nat /\ Len(a) > 0
         /\ \A j \in 1 .. Len(a) - 1 : Tail(a)[j] = a[j + 1]
BY HeadTailProperties, EmptySeq, LenProperties

(* Whether there is a value for an option, whether it takes it, and whether *)
(* it ends the program.                                                    *)
HasValue(s) == s.rest # << >> /\ ~ IsOptional(s.rest[1])

Takes(p, s, name) == p.options[name].args # 0 /\ HasValue(s)

Stops(p, s, name) ==
  \/ name \in s.used \/ name \in {"--help", "--version"}
  \/ p.options[name].args # 0 /\ ~ HasValue(s) /\ p.options[name].default = << >>
  \/ Takes(p, s, name) /\ p.options[name].number /\ s.rest[1].number = << >>

Value(p, s, name) == IF p.options[name].number THEN s.rest[1].number[1] ELSE s.rest[1]

NewValues(p, s, name) ==
  IF p.options[name].args = 0 THEN Put(s.values, name, TRUE)
  ELSE IF Takes(p, s, name) THEN Put(s.values, name, Value(p, s, name)) ELSE s.values

(* Changing fields of a state.                                             *)
State(r, v, u, k, e) == [rest |-> r, values |-> v, used |-> u, unknown |-> k, error |-> e]

LEMMA MakeState ==
  ASSUME NEW r \in Seq(AnyWord), NEW v, NEW u, NEW k, NEW e, NEW t, t = State(r, v, u, k, e)
  PROVE  IsState(t)
BY DEF IsState, State

LEMMA Throws ==
  ASSUME NEW s, IsState(s), NEW what, NEW t, t = Throw(s, what)
  PROVE  IsState(t) /\ t.rest = << >> /\ t.error = what
<1> DEFINE a == [s EXCEPT !.error = what]
<1>1. a = State(s.rest, s.values, s.used, s.unknown, what)
  BY DEF IsState, State
<1>2. t = [a EXCEPT !.rest = << >>]
  BY Zenon DEF Throw
<1>3. t = State(<< >>, s.values, s.used, s.unknown, what)
  <2> HIDE DEF a
  <2> QED BY <1>1, <1>2 DEF State
<1>4. << >> \in Seq(AnyWord)
  BY EmptySeq
<1>5. IsState(t)
  BY <1>3, <1>4, MakeState
<1>6. t.rest = << >> /\ t.error = what
  BY <1>3 DEF State
<1> QED BY <1>5, <1>6

LEMMA Drops ==
  ASSUME NEW s, IsState(s), s.rest # << >>, NEW t, t = Drop(s)
  PROVE  /\ IsState(t) /\ t.rest = Tail(s.rest) /\ t.values = s.values /\ t.used = s.used
         /\ t.unknown = s.unknown /\ t.error = s.error
<1>1. t = State(Tail(s.rest), s.values, s.used, s.unknown, s.error)
  BY DEF IsState, State, Drop
<1>2. Tail(s.rest) \in Seq(AnyWord)
  BY FirstWord DEF IsState
<1>3. IsState(t)
  BY <1>1, <1>2, MakeState
<1>4. /\ t.rest = Tail(s.rest) /\ t.values = s.values /\ t.used = s.used
      /\ t.unknown = s.unknown /\ t.error = s.error
  BY <1>1 DEF State
<1> QED BY <1>3, <1>4

LEMMA Marks ==
  ASSUME NEW s, IsState(s), NEW name, NEW t, t = Mark(s, name)
  PROVE  /\ IsState(t) /\ t.rest = s.rest /\ t.values = s.values
         /\ t.used = s.used \cup {name} /\ t.unknown = s.unknown /\ t.error = s.error
<1>1. t = State(s.rest, s.values, s.used \cup {name}, s.unknown, s.error)
  BY DEF IsState, State, Mark
<1>2. s.rest \in Seq(AnyWord)
  BY DEF IsState
<1>3. IsState(t)
  BY <1>1, <1>2, MakeState
<1>4. /\ t.rest = s.rest /\ t.values = s.values
      /\ t.used = s.used \cup {name} /\ t.unknown = s.unknown /\ t.error = s.error
  BY <1>1 DEF State
<1> QED BY <1>3, <1>4

LEMMA Stores ==
  ASSUME NEW s, IsState(s), NEW name, NEW value, NEW t, t = Store(s, name, value)
  PROVE  /\ IsState(t) /\ t.rest = s.rest /\ t.values = Put(s.values, name, value)
         /\ t.used = s.used /\ t.unknown = s.unknown /\ t.error = s.error
<1>1. t = State(s.rest, Put(s.values, name, value), s.used, s.unknown, s.error)
  BY DEF IsState, State, Store
<1>2. s.rest \in Seq(AnyWord)
  BY DEF IsState
<1>3. IsState(t)
  BY <1>1, <1>2, MakeState
<1>4. /\ t.rest = s.rest /\ t.values = Put(s.values, name, value)
      /\ t.used = s.used /\ t.unknown = s.unknown /\ t.error = s.error
  BY <1>1 DEF State
<1> QED BY <1>3, <1>4

LEMMA Unknowns ==
  ASSUME NEW s, IsState(s), NEW w, NEW t, t = Unknown(s, w)
  PROVE  /\ IsState(t) /\ t.rest = s.rest /\ t.values = s.values /\ t.used = s.used
         /\ t.unknown = Append(s.unknown, w) /\ t.error = s.error
<1>1. t = State(s.rest, s.values, s.used, Append(s.unknown, w), s.error)
  BY DEF IsState, State, Unknown
<1>2. s.rest \in Seq(AnyWord)
  BY DEF IsState
<1>3. IsState(t)
  BY <1>1, <1>2, MakeState
<1>4. /\ t.rest = s.rest /\ t.values = s.values /\ t.used = s.used
      /\ t.unknown = Append(s.unknown, w) /\ t.error = s.error
  BY <1>1 DEF State
<1> QED BY <1>3, <1>4

(* What an option does to the state.                                       *)
Failed(s) == s.error # ""

LEMMA SameError ==
  ASSUME NEW s, NEW t, t.error = s.error
  PROVE  Failed(t) <=> Failed(s)
BY DEF Failed

LEMMA ConsumeStops ==
  ASSUME NEW p, NEW s, NEW name, IsState(s), Stops(p, s, name), NEW t, t = Consume(p, s, name)
  PROVE  IsState(t) /\ Failed(t) /\ t.rest = << >>
<1>1. \/ t = Throw(s, "Duplicate argument")
      \/ t = Throw(s, "exit")
      \/ t = Throw(s, "Too few arguments")
      \/ t = Throw(s, "pattern does not match to integer")
  BY DEF Consume, IsUsed, Stops, Takes, HasValue
<1>2. PICK what : what # "" /\ t = Throw(s, what)
  BY <1>1
<1>3. IsState(t) /\ t.rest = << >> /\ t.error = what
  BY <1>2, Throws
<1>4. Failed(t)
  BY <1>2, <1>3 DEF Failed
<1> QED BY <1>3, <1>4

LEMMA ConsumeGoes ==
  ASSUME NEW p, NEW s, NEW name, IsState(s), ~ Stops(p, s, name), NEW t, t = Consume(p, s, name)
  PROVE  /\ IsState(t) /\ t.error = s.error /\ t.unknown = s.unknown
         /\ t.used = s.used \cup {name}
         /\ t.rest = IF Takes(p, s, name) THEN Tail(s.rest) ELSE s.rest
         /\ t.values = NewValues(p, s, name)
<1> DEFINE o == p.options[name]
           Result == /\ IsState(t) /\ t.error = s.error /\ t.unknown = s.unknown
                     /\ t.used = s.used \cup {name}
                     /\ t.rest = IF Takes(p, s, name) THEN Tail(s.rest) ELSE s.rest
                     /\ t.values = NewValues(p, s, name)
<1>1. PICK a : a = Mark(s, name)
  OBVIOUS
<1>2. /\ IsState(a) /\ a.rest = s.rest /\ a.values = s.values /\ a.used = s.used \cup {name}
      /\ a.unknown = s.unknown /\ a.error = s.error
  BY <1>1, Marks
<1>3. ASSUME o.args = 0 PROVE Result
  <2>1. PICK v : v = TRUE
    OBVIOUS
  <2>2. t = Store(a, name, v)
    BY <1>1, <1>3, <2>1, Zenon DEF Consume, IsUsed, Stops
  <2>3. /\ IsState(t) /\ t.rest = a.rest /\ t.values = Put(a.values, name, v)
        /\ t.used = a.used /\ t.unknown = a.unknown /\ t.error = a.error
    BY <1>2, <2>2, Stores
  <2>4. Put(a.values, name, v) = Put(a.values, name, TRUE)
    BY <2>1, Zenon
  <2> QED BY <1>2, <1>3, <2>3, <2>4 DEF Takes, NewValues
<1>4. ASSUME o.args # 0, ~ HasValue(s) PROVE Result
  <2>1. t = a
    BY <1>1, <1>4 DEF Consume, IsUsed, Stops, HasValue
  <2> QED BY <1>2, <1>4, <2>1 DEF Takes, NewValues
<1>5. ASSUME o.args # 0, HasValue(s) PROVE Result
  <2>1. PICK b : b = Store(a, name, Value(p, s, name))
    OBVIOUS
  <2>2. t = Drop(b)
    BY <1>1, <1>5, <2>1 DEF Consume, IsUsed, Stops, HasValue, Takes, Value
  <2>3. /\ IsState(b) /\ b.rest = s.rest /\ b.values = Put(s.values, name, Value(p, s, name))
        /\ b.used = s.used \cup {name} /\ b.unknown = s.unknown /\ b.error = s.error
    BY <1>2, <2>1, Stores
  <2> QED BY <1>5, <2>2, <2>3, Drops DEF Takes, HasValue, NewValues
<1>6. o.args = 0 \/ (o.args # 0 /\ ~ HasValue(s)) \/ (o.args # 0 /\ HasValue(s))
  OBVIOUS
<1> HIDE DEF o, Result
<1> QED BY <1>3, <1>4, <1>5, <1>6 DEF Result

(* Nothing brings words back or takes an error away.                       *)
After(s, t) == IsState(t) /\ Len(t.rest) <= Len(s.rest) /\ (Failed(s) => Failed(t))

LEMMA Lengths ==
  ASSUME NEW s, IsState(s)
  PROVE  Len(s.rest) \in Nat /\ (Len(s.rest) = 0 <=> s.rest = << >>)
BY LenProperties, EmptySeq DEF IsState

LEMMA ConsumeState ==
  ASSUME NEW p, NEW s, NEW name, IsState(s), NEW t, t = Consume(p, s, name)
  PROVE  After(s, t)
<1>1. Len(s.rest) \in Nat /\ s.rest \in Seq(AnyWord)
  BY Lengths DEF IsState
<1>2. CASE Stops(p, s, name)
  <2>1. IsState(t) /\ Failed(t) /\ t.rest = << >>
    BY <1>2, ConsumeStops
  <2>2. Len(t.rest) = 0
    BY <2>1, Lengths
  <2> QED BY <1>1, <2>1, <2>2 DEF After
<1>3. CASE ~ Stops(p, s, name)
  <2>1. /\ IsState(t) /\ t.error = s.error
        /\ t.rest = IF Takes(p, s, name) THEN Tail(s.rest) ELSE s.rest
    BY <1>3, ConsumeGoes
  <2>2. Len(t.rest) <= Len(s.rest)
    BY <1>1, <2>1, FirstWord DEF Takes, HasValue
  <2> QED BY <2>1, <2>2, SameError DEF After
<1> QED BY <1>2, <1>3

-----------------------------------------------------------------------------
(* The loops, as sequences of states.                                      *)

LEMMA CompoundSteps ==
  ASSUME NEW p, NEW s, NEW letters, Len(letters) \in Nat, NEW w
  PROVE  \E f : /\ f[0] = s /\ Compound(p, s, letters, w) = f[Len(letters)]
                /\ \A n \in 1 .. Len(letters) : f[n] = Letter(p, f[n - 1], letters, n, w)
<1> DEFINE Rec(f, k) ==
             f = [n \in 0 .. k |-> IF n = 0 THEN s ELSE Letter(p, f[n - 1], letters, n, w)]
           Missing == {k \in Nat : ~ \E f : Rec(f, k)}
<1>1. ASSUME Missing # {} PROVE FALSE
  <2>1. PICK k \in Missing : \A y \in Missing : k <= y
    <3> HIDE DEF Rec
    <3> QED BY <1>1, Least
  <2>2. CASE k = 0
    <3>1. Rec([n \in 0 .. 0 |-> s], 0)
      OBVIOUS
    <3> QED BY <2>2, <3>1
  <2>3. CASE k # 0
    <3>1. PICK f : Rec(f, k - 1)
      <4>1. k - 1 \in Nat /\ ~ (k <= k - 1)
        BY <2>3
      <4> HIDE DEF Rec
      <4> QED BY <4>1, <2>1
    <3> DEFINE g == [n \in 0 .. k |-> IF n = k THEN Letter(p, f[k - 1], letters, k, w) ELSE f[n]]
    <3>2. \A n \in 0 .. k - 1 : g[n] = f[n]
      BY <2>3
    <3>3. \A n \in 0 .. k :
            g[n] = IF n = 0 THEN s ELSE Letter(p, g[n - 1], letters, n, w)
      <4> TAKE n \in 0 .. k
      <4>1. CASE n = 0
        BY <2>3, <3>1, <3>2, <4>1
      <4>2. CASE n # 0
        <5>1. g[n - 1] = f[n - 1]
          BY <3>2, <4>2
        <5>2. CASE n = k
          BY <5>1, <5>2, <4>2
        <5>3. CASE n # k
          BY <5>1, <5>3, <4>2, <3>1, <3>2
        <5> QED BY <5>2, <5>3
      <4> QED BY <4>1, <4>2
    <3>4. Rec(g, k)
      <4>1. g = [n \in 0 .. k |-> g[n]]
        OBVIOUS
      <4> HIDE DEF g
      <4> QED BY <3>3, <4>1
    <3> QED BY <3>4, <2>1
  <2> QED BY <2>2, <2>3
<1>2. \E f : Rec(f, Len(letters))
  <2> HIDE DEF Rec
  <2> QED BY <1>1
<1> DEFINE f == CHOOSE f : Rec(f, Len(letters))
<1>3. Rec(f, Len(letters))
  <2> HIDE DEF Rec
  <2> QED BY <1>2
<1>4. Compound(p, s, letters, w) = f[Len(letters)]
  BY DEF Compound
<1> HIDE DEF f
<1>5. f[0] = s /\ \A n \in 1 .. Len(letters) : f[n] = Letter(p, f[n - 1], letters, n, w)
  BY <1>3
<1> QED BY <1>4, <1>5

LEMMA LetterState ==
  ASSUME NEW p, NEW s, NEW letters, NEW n, NEW w, IsState(s), NEW t, t = Letter(p, s, letters, n, w)
  PROVE  After(s, t) /\ (Failed(s) => t = s)
<1>1. After(s, s)
  BY Lengths DEF After
<1>2. \/ t = s
      \/ ~ Failed(s) /\ t = Consume(p, s, p.index[letters[n]])
      \/ ~ Failed(s) /\ t = Unknown(s, w)
  BY DEF Letter, Failed
<1>3. ASSUME t = Unknown(s, w) PROVE After(s, t)
  <2>1. IsState(t) /\ t.rest = s.rest /\ t.error = s.error
    BY <1>3, Unknowns
  <2> QED BY <2>1, Lengths, SameError DEF After
<1>4. ASSUME t = Consume(p, s, p.index[letters[n]]) PROVE After(s, t)
  BY <1>4, ConsumeState
<1> QED BY <1>1, <1>2, <1>3, <1>4

LEMMA AfterTransitive ==
  ASSUME NEW r, NEW s, NEW t, IsState(r), After(r, s), After(s, t)
  PROVE  After(r, t)
<1>1. Len(r.rest) \in Nat /\ Len(s.rest) \in Nat /\ Len(t.rest) \in Nat
  BY Lengths DEF After
<1> QED BY <1>1 DEF After

LEMMA CompoundState ==
  ASSUME NEW p, NEW s, NEW letters, Len(letters) \in Nat, NEW w, IsState(s),
         NEW t, t = Compound(p, s, letters, w)
  PROVE  After(s, t)
<1>1. PICK f : /\ f[0] = s /\ Compound(p, s, letters, w) = f[Len(letters)]
               /\ \A n \in 1 .. Len(letters) : f[n] = Letter(p, f[n - 1], letters, n, w)
  BY CompoundSteps
<1> DEFINE Bad == {n \in 0 .. Len(letters) : ~ After(s, f[n])}
<1>2. ASSUME Bad # {} PROVE FALSE
  <2>1. PICK n \in Bad : \A y \in Bad : n <= y
    <3>1. Bad \subseteq Nat
      OBVIOUS
    <3> HIDE DEF Bad
    <3> QED BY <1>2, <3>1, Least
  <2>2. After(s, f[0])
    BY <1>1, Lengths DEF After
  <2>3. n \in 1 .. Len(letters)
    BY <2>1, <2>2
  <2>4. After(s, f[n - 1])
    <3>1. n - 1 \in 0 .. Len(letters) /\ ~ (n <= n - 1)
      BY <2>3
    <3> QED BY <3>1, <2>1
  <2>5. f[n] = Letter(p, f[n - 1], letters, n, w)
    BY <1>1, <2>3
  <2>6. After(f[n - 1], f[n])
    BY <2>4, <2>5, LetterState DEF After
  <2>7. After(s, f[n])
    BY <2>4, <2>6, AfterTransitive
  <2> QED BY <2>1, <2>7
<1>3. After(s, f[Len(letters)])
  BY <1>2
<1> QED BY <1>1, <1>3

LEMMA LettersSeq ==
  ASSUME NEW x \in DOMAIN Letters
  PROVE  Letters[x] \in Seq(STRING) /\ Len(Letters[x]) \in Nat
BY WordsAssumption, LenProperties DEF WordsAssumption

(* A turn takes a word from the line, as long as there is one.             *)
LEMMA TurnState ==
  ASSUME NEW p, NEW s, IsState(s), NEW t, t = Turn(p, s)
  PROVE  /\ After(s, t)
         /\ s.rest = << >> => t = s
         /\ s.rest # << >> => Len(t.rest) <= Len(s.rest) - 1
<1>1. CASE s.rest = << >>
  BY <1>1, Lengths DEF Turn, After
<1>2. CASE s.rest # << >>
  <2> DEFINE w == s.rest[1]
  <2>1. PICK a : a = Drop(s)
    OBVIOUS
  <2>2. IsState(a) /\ a.rest = Tail(s.rest) /\ a.error = s.error
    BY <1>2, <2>1, Drops
  <2>3. Len(a.rest) = Len(s.rest) - 1 /\ Len(s.rest) \in Nat
    BY <1>2, <2>2, FirstWord DEF IsState
  <2>4. After(s, a)
    BY <2>2, <2>3, SameError DEF After
  <2>5. \/ w.text \in DOMAIN p.index /\ t = Consume(p, a, p.index[w.text])
        \/ w.text \in DOMAIN Letters /\ t = Compound(p, a, Letters[w.text], w)
        \/ t = Unknown(a, w)
    BY <1>2, <2>1 DEF Turn
  <2>6. ASSUME t = Unknown(a, w) PROVE After(a, t)
    <3>1. IsState(t) /\ t.rest = a.rest /\ t.error = a.error
      BY <2>2, <2>6, Unknowns
    <3> QED BY <3>1, Lengths, SameError DEF After
  <2>7. After(a, t)
    BY <2>2, <2>5, <2>6, ConsumeState, CompoundState, LettersSeq
  <2>8. After(s, t) /\ Len(t.rest) <= Len(a.rest)
    BY <2>4, <2>7, AfterTransitive DEF After
  <2> QED BY <1>2, <2>3, <2>8
<1> QED BY <1>1, <1>2

(* The loop over the words, for any number of turns k.                     *)
Turns(p, s, f, k) == f = [n \in 0 .. k |-> IF n = 0 THEN s ELSE Turn(p, f[n - 1])]

LEMMA TurnsExist ==
  ASSUME NEW p, NEW s, NEW K \in Nat
  PROVE  \E f : Turns(p, s, f, K)
<1> DEFINE Missing == {k \in Nat : ~ \E f : Turns(p, s, f, k)}
<1>1. ASSUME Missing # {} PROVE FALSE
  <2>1. PICK k \in Missing : \A y \in Missing : k <= y
    BY <1>1, Least
  <2>2. CASE k = 0
    <3>1. Turns(p, s, [n \in 0 .. 0 |-> s], 0)
      BY DEF Turns
    <3> QED BY <2>1, <2>2, <3>1
  <2>3. CASE k # 0
    <3>1. PICK f : Turns(p, s, f, k - 1)
      <4>1. k - 1 \in Nat /\ ~ (k <= k - 1)
        BY <2>3
      <4> QED BY <4>1, <2>1
    <3> DEFINE g == [n \in 0 .. k |-> IF n = k THEN Turn(p, f[k - 1]) ELSE f[n]]
    <3>2. \A n \in 0 .. k - 1 : g[n] = f[n]
      BY <2>3
    <3>3. \A n \in 0 .. k : g[n] = IF n = 0 THEN s ELSE Turn(p, g[n - 1])
      <4> TAKE n \in 0 .. k
      <4>1. CASE n = 0
        BY <2>3, <3>1, <3>2, <4>1 DEF Turns
      <4>2. CASE n # 0
        <5>1. g[n - 1] = f[n - 1]
          BY <3>2, <4>2
        <5>2. CASE n = k
          BY <5>1, <5>2, <4>2
        <5>3. CASE n # k
          BY <5>1, <5>3, <4>2, <3>1, <3>2 DEF Turns
        <5> QED BY <5>2, <5>3
      <4> QED BY <4>1, <4>2
    <3>4. Turns(p, s, g, k)
      <4>1. g = [n \in 0 .. k |-> g[n]]
        OBVIOUS
      <4> HIDE DEF g
      <4> QED BY <3>3, <4>1 DEF Turns
    <3> QED BY <3>4, <2>1
  <2> QED BY <2>2, <2>3
<1> QED BY <1>1

(* After as many turns as there are words none is left, and further turns  *)
(* change nothing.                                                         *)
LEMMA ParseSteps ==
  ASSUME NEW p, NEW s, IsState(s), NEW K \in Nat, Len(s.rest) <= K
  PROVE  \E f : /\ f[0] = s /\ ParseFrom(p, s) = f[K]
                /\ \A n \in 1 .. K : f[n] = Turn(p, f[n - 1])
                /\ \A n \in 0 .. K : After(s, f[n])
<1> DEFINE L == Len(s.rest)
<1>1. L \in Nat /\ L <= K
  BY Lengths
<1>2. PICK f : Turns(p, s, f, K)
  BY TurnsExist
<1>3. f[0] = s /\ \A n \in 1 .. K : f[n] = Turn(p, f[n - 1])
  BY <1>2 DEF Turns
<1> DEFINE Good(n) == After(s, f[n]) /\ (n <= L => Len(f[n].rest) <= L - n)
                      /\ (n > L => f[n] = f[L])
           Bad == {n \in 0 .. K : ~ Good(n)}
<1>4. ASSUME Bad # {} PROVE FALSE
  <2>1. PICK n \in Bad : \A y \in Bad : n <= y
    <3>1. Bad \subseteq Nat
      OBVIOUS
    <3> HIDE DEF Bad
    <3> QED BY <1>4, <3>1, Least
  <2>2. Good(0)
    BY <1>1, <1>3, Lengths DEF After
  <2>3. n \in 1 .. K
    BY <2>1, <2>2
  <2>4. Good(n - 1)
    <3>1. n - 1 \in 0 .. K /\ ~ (n <= n - 1)
      BY <2>3
    <3> QED BY <3>1, <2>1
  <2>5. f[n] = Turn(p, f[n - 1])
    BY <1>3, <2>3
  <2>6. /\ After(f[n - 1], f[n])
        /\ f[n - 1].rest = << >> => f[n] = f[n - 1]
        /\ f[n - 1].rest # << >> => Len(f[n].rest) <= Len(f[n - 1].rest) - 1
    BY <2>4, <2>5, TurnState DEF After
  <2>7. After(s, f[n])
    BY <2>4, <2>6, AfterTransitive
  <2>8. /\ Len(f[n - 1].rest) \in Nat /\ Len(f[n].rest) \in Nat
        /\ Len(f[n - 1].rest) = 0 <=> f[n - 1].rest = << >>
    BY <2>4, <2>7, Lengths DEF After
  <2>9. CASE n <= L
    <3>1. Len(f[n - 1].rest) <= L - (n - 1)
      BY <2>4, <2>9, <2>3, <1>1
    <3>2. Len(f[n].rest) <= L - n
      <4> HIDE DEF L, Good, Bad
      <4>1. CASE f[n - 1].rest = << >>
        BY <4>1, <1>1, <2>3, <2>6, <2>8, <2>9
      <4>2. CASE f[n - 1].rest # << >>
        <5>1. Len(f[n].rest) <= Len(f[n - 1].rest) - 1
          BY <4>2, <2>6, Zenon
        <5>2. PICK a \in Nat, b \in Nat : a = Len(f[n - 1].rest) /\ b = Len(f[n].rest)
          BY <2>8, Zenon
        <5>3. L \in Nat /\ n \in Nat /\ a <= L - (n - 1) /\ b <= a - 1
          BY <1>1, <2>3, <3>1, <5>1, <5>2
        <5>4. b <= L - n
          BY <5>3
        <5> QED BY <5>2, <5>4, Zenon
      <4> QED BY <4>1, <4>2
    <3>3. ~ (n > L)
      <4> HIDE DEF L
      <4> QED BY <2>9, <2>3, <1>1
    <3> QED BY <3>2, <3>3, <2>7, <2>1
  <2>10. CASE n > L
    <3>1. f[n - 1] = f[L] /\ f[n - 1].rest = << >>
      <4>1. CASE n - 1 = L
        BY <4>1, <2>4, <2>8, <1>1
      <4>2. CASE n - 1 > L
        <5>1. f[n - 1] = f[L]
          BY <2>4, <4>2
        <5>2. Good(L)
          BY <2>1, <1>1, <2>3, <4>2
        <5> QED BY <5>1, <5>2, <2>8, <1>1
      <4> QED BY <4>1, <4>2, <2>10, <2>3, <1>1
    <3> QED BY <3>1, <2>6, <2>7, <2>10, <2>1, <1>1, <2>3
  <2>11. n <= L \/ n > L
    <3> HIDE DEF L
    <3> QED BY <1>1, <2>3
  <2> QED BY <2>9, <2>10, <2>11
<1>5. \A n \in 0 .. K : Good(n)
  BY <1>4
<1> DEFINE h == CHOOSE h : Turns(p, s, h, L)
<1>6. Turns(p, s, h, L)
  BY <1>1, TurnsExist
<1>7. ParseFrom(p, s) = h[L]
  BY DEF ParseFrom, Turns
<1> HIDE DEF h
<1>8. h[0] = s /\ \A n \in 1 .. L : h[n] = Turn(p, h[n - 1])
  BY <1>6, <1>1 DEF Turns
<1>9. h[L] = f[L]
  <2> DEFINE Other == {n \in 0 .. L : h[n] # f[n]}
  <2>1. ASSUME Other # {} PROVE FALSE
    <3>1. PICK n \in Other : \A y \in Other : n <= y
      <4>1. Other \subseteq Nat
        BY <1>1
      <4> HIDE DEF Other
      <4> QED BY <2>1, <4>1, Least
    <3>2. n \in 1 .. L
      BY <3>1, <1>3, <1>8, <1>1
    <3>3. h[n - 1] = f[n - 1]
      <4>1. n - 1 \in 0 .. L /\ ~ (n <= n - 1)
        BY <3>2, <1>1
      <4> QED BY <4>1, <3>1
    <3>4. n \in 1 .. K
      BY <3>2, <1>1
    <3> QED BY <3>1, <3>2, <3>3, <3>4, <1>3, <1>8
  <2> QED BY <2>1, <1>1
<1>10. f[K] = f[L]
  BY <1>5, <1>1
<1> QED BY <1>3, <1>5, <1>7, <1>9, <1>10

-----------------------------------------------------------------------------
(* The words that are left to the two parsers.                             *)

(* From one place on, where the partition has an option of its own.        *)
Diverge(a, b) ==
  \E k \in DOMAIN a \cap DOMAIN b :
    /\ \A j \in 1 .. k - 1 : a[j] = b[j]
    /\ IsOptional(a[k]) /\ b[k].text \in DOMAIN PartIndex

Alike(a, b) == a = b \/ Diverge(a, b)

LEMMA OwnIsOptional ==
  ASSUME NEW w, w.text \in DOMAIN PartIndex
  PROVE  IsOptional(w)
BY BothTables DEF IsOptional

(* They begin alike.                                                       *)
LEMMA AlikeFirst ==
  ASSUME NEW a \in Seq(AnyWord), NEW b \in Seq(AnyWord), Alike(a, b)
  PROVE  /\ a = << >> <=> b = << >>
         /\ a # << >> =>
              \/ a[1] = b[1] /\ Alike(Tail(a), Tail(b))
              \/ IsOptional(a[1]) /\ b[1].text \in DOMAIN PartIndex
<1>1. CASE a = b
  BY <1>1 DEF Alike
<1>2. CASE Diverge(a, b)
  <2>1. PICK k \in DOMAIN a \cap DOMAIN b :
          /\ \A j \in 1 .. k - 1 : a[j] = b[j]
          /\ IsOptional(a[k]) /\ b[k].text \in DOMAIN PartIndex
    BY <1>2 DEF Diverge
  <2>2. /\ DOMAIN a = 1 .. Len(a) /\ DOMAIN b = 1 .. Len(b)
        /\ Len(a) \in Nat /\ Len(b) \in Nat
    BY LenProperties
  <2>3. a # << >> /\ b # << >>
    BY <2>1, <2>2, EmptySeq
  <2>4. CASE k = 1
    BY <2>1, <2>3, <2>4
  <2>5. CASE k # 1
    <3>1. k - 1 \in Nat /\ k - 1 >= 1 /\ k <= Len(a) /\ k <= Len(b)
      BY <2>1, <2>2, <2>5
    <3>2. a[1] = b[1]
      BY <2>1, <3>1
    <3>3. /\ Tail(a) \in Seq(AnyWord) /\ Len(Tail(a)) = Len(a) - 1
          /\ \A j \in 1 .. Len(a) - 1 : Tail(a)[j] = a[j + 1]
          /\ Tail(b) \in Seq(AnyWord) /\ Len(Tail(b)) = Len(b) - 1
          /\ \A j \in 1 .. Len(b) - 1 : Tail(b)[j] = b[j + 1]
      BY <2>3, FirstWord
    <3>4. k - 1 \in DOMAIN Tail(a) \cap DOMAIN Tail(b)
      BY <2>2, <3>1, <3>3, LenProperties
    <3>5. Tail(a)[k - 1] = a[k] /\ Tail(b)[k - 1] = b[k]
      BY <2>2, <3>1, <3>3
    <3>6. \A j \in 1 .. (k - 1) - 1 : Tail(a)[j] = Tail(b)[j]
      BY <2>1, <2>2, <3>1, <3>3
    <3>7. Diverge(Tail(a), Tail(b))
      BY <2>1, <3>4, <3>5, <3>6 DEF Diverge
    <3> QED BY <2>3, <3>2, <3>7 DEF Alike
  <2> QED BY <2>4, <2>5
<1> QED BY <1>1, <1>2 DEF Alike

(* So there is a value for both or for neither, and it is the same.        *)
LEMMA AlikeValue ==
  ASSUME NEW c, NEW q, IsState(c), IsState(q), Alike(c.rest, q.rest)
  PROVE  /\ HasValue(c) <=> HasValue(q)
         /\ HasValue(c) => c.rest[1] = q.rest[1] /\ Alike(Tail(c.rest), Tail(q.rest))
BY AlikeFirst, OwnIsOptional DEF HasValue, IsState

(* The same words before leave them alike.                                 *)
LEMMA AlikeAfter ==
  ASSUME NEW e \in Seq(AnyWord), NEW a \in Seq(AnyWord), NEW b \in Seq(AnyWord), Alike(a, b)
  PROVE  Alike(e \o a, e \o b)
<1>1. CASE a = b
  BY <1>1 DEF Alike
<1>2. CASE Diverge(a, b)
  <2>1. PICK k \in DOMAIN a \cap DOMAIN b :
          /\ \A j \in 1 .. k - 1 : a[j] = b[j]
          /\ IsOptional(a[k]) /\ b[k].text \in DOMAIN PartIndex
    BY <1>2 DEF Diverge
  <2>2. /\ DOMAIN a = 1 .. Len(a) /\ DOMAIN b = 1 .. Len(b)
        /\ Len(e) \in Nat /\ Len(a) \in Nat /\ Len(b) \in Nat
    BY LenProperties
  <2>3. /\ e \o a \in Seq(AnyWord) /\ Len(e \o a) = Len(e) + Len(a)
        /\ e \o b \in Seq(AnyWord) /\ Len(e \o b) = Len(e) + Len(b)
    BY ConcatProperties
  <2>4. \A i \in 1 .. Len(e) + Len(a) :
          (e \o a)[i] = IF i <= Len(e) THEN e[i] ELSE a[i - Len(e)]
    BY ConcatProperties
  <2>5. \A i \in 1 .. Len(e) + Len(b) :
          (e \o b)[i] = IF i <= Len(e) THEN e[i] ELSE b[i - Len(e)]
    BY ConcatProperties
  <2> DEFINE m == Len(e) + k
  <2>6. m \in Nat /\ m \in 1 .. Len(e) + Len(a) /\ m \in 1 .. Len(e) + Len(b)
        /\ m > Len(e) /\ m - Len(e) = k
    BY <2>1, <2>2
  <2>7. (e \o a)[m] = a[k] /\ (e \o b)[m] = b[k]
    BY <2>2, <2>4, <2>5, <2>6
  <2>8. ASSUME NEW j \in 1 .. m - 1 PROVE (e \o a)[j] = (e \o b)[j]
    <3>1. j \in 1 .. Len(e) + Len(a) /\ j \in 1 .. Len(e) + Len(b)
      BY <2>6, <2>2
    <3>2. CASE j <= Len(e)
      BY <3>1, <3>2, <2>4, <2>5
    <3>3. CASE j > Len(e)
      <4>1. j - Len(e) \in 1 .. k - 1
        BY <3>3, <2>2, <2>6
      <4> QED BY <4>1, <3>1, <3>3, <2>1, <2>2, <2>4, <2>5
    <3> QED BY <3>2, <3>3, <2>2
  <2>9. m \in DOMAIN (e \o a) \cap DOMAIN (e \o b)
    BY <2>3, <2>6, LenProperties
  <2> HIDE DEF m
  <2>10. Diverge(e \o a, e \o b)
    BY <2>1, <2>7, <2>8, <2>9 DEF Diverge
  <2> QED BY <2>10 DEF Alike
<1> QED BY <1>1, <1>2 DEF Alike

-----------------------------------------------------------------------------
(* What becomes of the line before it is parsed.                           *)

LastWords(p, argv, f) ==
  /\ f[0] = << >> /\ Preprocess(p, argv) = f[Len(argv)]
  /\ \A n \in 1 .. Len(argv) : f[n] = Expanded(p, argv[Len(argv) - n + 1]) \o f[n - 1]

LEMMA PreprocessSteps ==
  ASSUME NEW p, NEW argv, Len(argv) \in Nat
  PROVE  \E f : LastWords(p, argv, f)
<1> DEFINE L == Len(argv)
           Step(n, x) == Expanded(p, argv[L - n + 1]) \o x
           Rec(f, k) == f = [n \in 0 .. k |-> IF n = 0 THEN << >> ELSE Step(n, f[n - 1])]
           Missing == {k \in Nat : ~ \E f : Rec(f, k)}
<1>1. ASSUME Missing # {} PROVE FALSE
  <2>1. PICK k \in Missing : \A y \in Missing : k <= y
    <3> HIDE DEF Rec
    <3> QED BY <1>1, Least
  <2>2. CASE k = 0
    <3>1. Rec([n \in 0 .. 0 |-> << >>], 0)
      <4> HIDE DEF Step
      <4> QED OBVIOUS
    <3> QED BY <2>2, <3>1
  <2>3. CASE k # 0
    <3>1. PICK f : Rec(f, k - 1)
      <4>1. k - 1 \in Nat /\ ~ (k <= k - 1)
        BY <2>3
      <4> HIDE DEF Rec
      <4> QED BY <4>1, <2>1
    <3> HIDE DEF Step
    <3> DEFINE g == [n \in 0 .. k |-> IF n = k THEN Step(k, f[k - 1]) ELSE f[n]]
    <3>2. \A n \in 0 .. k - 1 : g[n] = f[n]
      BY <2>3
    <3>3. \A n \in 0 .. k : g[n] = IF n = 0 THEN << >> ELSE Step(n, g[n - 1])
      <4> TAKE n \in 0 .. k
      <4>1. CASE n = 0
        BY <2>3, <3>1, <3>2, <4>1
      <4>2. CASE n # 0
        <5>1. g[n - 1] = f[n - 1]
          BY <3>2, <4>2
        <5>2. CASE n = k
          BY <5>1, <5>2, <4>2
        <5>3. CASE n # k
          BY <5>1, <5>3, <4>2, <3>1, <3>2
        <5> QED BY <5>2, <5>3
      <4> QED BY <4>1, <4>2
    <3>4. Rec(g, k)
      <4>1. g = [n \in 0 .. k |-> g[n]]
        OBVIOUS
      <4> HIDE DEF g
      <4> QED BY <3>3, <4>1
    <3> QED BY <3>4, <2>1
  <2> QED BY <2>2, <2>3
<1>2. \E f : Rec(f, L)
  <2> HIDE DEF Rec
  <2> QED BY <1>1
<1> DEFINE f == CHOOSE f : Rec(f, L)
<1>3. Rec(f, L)
  <2> HIDE DEF Rec
  <2> QED BY <1>2
<1>4. Preprocess(p, argv) = f[L]
  BY DEF Preprocess
<1> HIDE DEF f
<1>5. f[0] = << >> /\ \A n \in 1 .. L : f[n] = Step(n, f[n - 1])
  <2> HIDE DEF Step
  <2> QED BY <1>3
<1> QED BY <1>4, <1>5 DEF LastWords

LEMMA ExpandedSeq ==
  ASSUME NEW p, NEW w \in AnyWord
  PROVE  Expanded(p, w) \in Seq(AnyWord)
<1>1. <<w>> \in Seq(AnyWord)
  OBVIOUS
<1> QED BY <1>1, WordsAssumption DEF WordsAssumption, Expanded

(* A line that uses an option of the partitions.                           *)
Uses(argv) == \E k \in DOMAIN argv : OwnOption(argv[k])

Tells(argv, b) ==
  \A j \in DOMAIN b : IsOwn(b[j].text) => Uses(argv)

LEMMA ExpandedTells ==
  ASSUME NEW argv \in Seq(AnyWord), NEW k \in DOMAIN argv
  PROVE  Tells(argv, Expanded(Partition, argv[k]))
<1> DEFINE w == argv[k]
           e == Expanded(Partition, w)
<1>1. ASSUME NEW j \in DOMAIN e PROVE e[j] \in Parts(w)
  <2>1. CASE e = <<w>>
    BY <2>1 DEF Parts
  <2>2. CASE w.text \in DOMAIN Assigned /\ e = Assigned[w.text]
    <3>1. DOMAIN e = 1 .. 2
      BY <2>2, WordsAssumption, LenProperties DEF WordsAssumption
    <3> HIDE DEF e, w
    <3>2. j = 1 \/ j = 2
      BY <3>1
    <3> QED BY <2>2, <3>2 DEF Parts
  <2> QED BY <2>1, <2>2 DEF Expanded
<1> HIDE DEF e
<1>2. ASSUME NEW j \in DOMAIN e, IsOwn(e[j].text)
      PROVE  Uses(argv)
  BY <1>1, <1>2 DEF Uses, OwnOption
<1> QED BY <1>2 DEF Tells, e

LEMMA TellsBoth ==
  ASSUME NEW argv, NEW e \in Seq(AnyWord), NEW b \in Seq(AnyWord), Tells(argv, e), Tells(argv, b)
  PROVE  Tells(argv, e \o b)
<1>1. /\ DOMAIN e = 1 .. Len(e) /\ DOMAIN b = 1 .. Len(b)
      /\ Len(e) \in Nat /\ Len(b) \in Nat
  BY LenProperties
<1>2. /\ e \o b \in Seq(AnyWord) /\ Len(e \o b) = Len(e) + Len(b)
      /\ \A i \in 1 .. Len(e) + Len(b) :
           (e \o b)[i] = IF i <= Len(e) THEN e[i] ELSE b[i - Len(e)]
  BY ConcatProperties
<1>3. DOMAIN (e \o b) = 1 .. Len(e) + Len(b)
  BY <1>2, LenProperties
<1>4. ASSUME NEW j \in 1 .. Len(e) + Len(b)
      PROVE  \/ \E i \in DOMAIN e : (e \o b)[j] = e[i]
             \/ \E i \in DOMAIN b : (e \o b)[j] = b[i]
  <2>1. CASE j <= Len(e)
    BY <1>1, <1>2, <2>1
  <2>2. CASE j > Len(e)
    <3>1. j - Len(e) \in DOMAIN b /\ (e \o b)[j] = b[j - Len(e)]
      BY <1>1, <1>2, <2>2
    <3> QED BY <3>1
  <2> QED BY <1>1, <2>1, <2>2
<1> QED BY <1>3, <1>4 DEF Tells

(* A word that only the partition takes apart is an option for both.       *)
LEMMA ExpandedAlike ==
  ASSUME NEW w \in AnyWord, NEW a \in Seq(AnyWord), NEW b \in Seq(AnyWord), Alike(a, b),
         NEW x, x = Expanded(Coordinator, w), NEW y, y = Expanded(Partition, w)
  PROVE  Alike(x \o a, y \o b)
<1>1. x \in Seq(AnyWord) /\ y \in Seq(AnyWord)
  BY ExpandedSeq
<1>2. CASE x = y
  BY <1>1, <1>2, AlikeAfter
<1>3. CASE x # y
  <2>1. /\ w.text \in DOMAIN Assigned /\ x = <<w>> /\ y = Assigned[w.text]
        /\ Assigned[w.text][1].text \in DOMAIN PartIndex
    BY <1>3, BothTables DEF Expanded
  <2>2. Len(x) = 1 /\ x[1] = w /\ IsOptional(w)
    BY <2>1 DEF IsOptional
  <2>3. Len(y) = 2 /\ y[1].text \in DOMAIN PartIndex
    BY <2>1, WordsAssumption DEF WordsAssumption
  <2>4. Len(a) \in Nat /\ Len(b) \in Nat
    BY LenProperties
  <2>5. x \o a \in Seq(AnyWord) /\ Len(x \o a) = 1 + Len(a) /\ (x \o a)[1] = w
    <3>1. /\ x \o a \in Seq(AnyWord) /\ Len(x \o a) = Len(x) + Len(a)
          /\ \A i \in 1 .. Len(x) + Len(a) :
               (x \o a)[i] = IF i <= Len(x) THEN x[i] ELSE a[i - Len(x)]
      BY <1>1, ConcatProperties
    <3>2. 1 \in 1 .. Len(x) + Len(a) /\ 1 <= Len(x)
      BY <2>2, <2>4
    <3>3. (x \o a)[1] = x[1]
      BY <3>1, <3>2
    <3> QED BY <3>1, <3>3, <2>2
  <2>6. y \o b \in Seq(AnyWord) /\ Len(y \o b) = 2 + Len(b) /\ (y \o b)[1] = y[1]
    <3>1. /\ y \o b \in Seq(AnyWord) /\ Len(y \o b) = Len(y) + Len(b)
          /\ \A i \in 1 .. Len(y) + Len(b) :
               (y \o b)[i] = IF i <= Len(y) THEN y[i] ELSE b[i - Len(y)]
      BY <1>1, ConcatProperties
    <3>2. 1 \in 1 .. Len(y) + Len(b) /\ 1 <= Len(y)
      BY <2>3, <2>4
    <3>3. (y \o b)[1] = y[1]
      BY <3>1, <3>2
    <3> QED BY <3>1, <3>3, <2>3
  <2>7. 1 \in DOMAIN (x \o a) /\ 1 \in DOMAIN (y \o b)
    BY <2>4, <2>5, <2>6, LenProperties
  <2>8. Diverge(x \o a, y \o b)
    <3>1. IsOptional((x \o a)[1]) /\ (y \o b)[1].text \in DOMAIN PartIndex
      BY <2>2, <2>3, <2>5, <2>6, Zenon
    <3>2. PICK c, d : c = x \o a /\ d = y \o b
      OBVIOUS
    <3>3. \A j \in 1 .. 1 - 1 : c[j] = d[j]
      OBVIOUS
    <3>4. /\ 1 \in DOMAIN c \cap DOMAIN d
          /\ IsOptional(c[1]) /\ d[1].text \in DOMAIN PartIndex
      BY <2>7, <3>1, <3>2, Zenon
    <3>5. Diverge(c, d)
      BY <3>3, <3>4, Zenon DEF Diverge
    <3> QED BY <3>2, <3>5, Zenon
  <2> QED BY <2>8 DEF Alike
<1> QED BY <1>2, <1>3

LEMMA PreprocessAlike ==
  ASSUME NEW argv \in Seq(AnyWord)
  PROVE  LET a == Preprocess(Coordinator, argv)
             b == Preprocess(Partition, argv)
         IN a \in Seq(AnyWord) /\ b \in Seq(AnyWord) /\ Alike(a, b) /\ Tells(argv, b)
<1> DEFINE L == Len(argv)
<1>1. L \in Nat /\ DOMAIN argv = 1 .. L /\ \A k \in 1 .. L : argv[k] \in AnyWord
  BY LenProperties
<1>a. PICK f : LastWords(Coordinator, argv, f)
  BY <1>1, PreprocessSteps
<1>b. PICK g : LastWords(Partition, argv, g)
  BY <1>1, PreprocessSteps
<1>2. /\ f[0] = << >> /\ Preprocess(Coordinator, argv) = f[L]
      /\ \A n \in 1 .. L : f[n] = Expanded(Coordinator, argv[L - n + 1]) \o f[n - 1]
  BY <1>a DEF LastWords
<1>3. /\ g[0] = << >> /\ Preprocess(Partition, argv) = g[L]
      /\ \A n \in 1 .. L : g[n] = Expanded(Partition, argv[L - n + 1]) \o g[n - 1]
  BY <1>b DEF LastWords
<1> DEFINE Good(n) == /\ f[n] \in Seq(AnyWord) /\ g[n] \in Seq(AnyWord)
                      /\ Alike(f[n], g[n]) /\ Tells(argv, g[n])
           Bad == {n \in 0 .. L : ~ Good(n)}
<1>4. ASSUME Bad # {} PROVE FALSE
  <2>1. PICK n \in Bad : \A y \in Bad : n <= y
    <3>1. Bad \subseteq Nat
      OBVIOUS
    <3> HIDE DEF Bad
    <3> QED BY <1>4, <3>1, Least
  <2>2. Good(0)
    BY <1>2, <1>3, EmptySeq DEF Alike, Tells
  <2>3. n \in 1 .. L
    BY <2>1, <2>2
  <2>4. Good(n - 1)
    <3>1. n - 1 \in 0 .. L /\ ~ (n <= n - 1)
      BY <2>3
    <3> QED BY <3>1, <2>1
  <2> DEFINE k == L - n + 1
  <2>5. k \in 1 .. L
    BY <1>1, <2>3
  <2> HIDE DEF L
  <2>6. argv[k] \in AnyWord /\ k \in DOMAIN argv
    BY <1>1, <2>5
  <2>7. f[n] = Expanded(Coordinator, argv[k]) \o f[n - 1]
    BY <1>2, <2>3
  <2>8. g[n] = Expanded(Partition, argv[k]) \o g[n - 1]
    BY <1>3, <2>3
  <2> HIDE DEF k
  <2> DEFINE x == Expanded(Coordinator, argv[k])
             y == Expanded(Partition, argv[k])
  <2>9. x \in Seq(AnyWord) /\ y \in Seq(AnyWord)
    BY <2>6, ExpandedSeq
  <2>10. Alike(f[n], g[n])
    BY <2>4, <2>6, <2>7, <2>8, ExpandedAlike
  <2>11. Tells(argv, y)
    BY <2>6, ExpandedTells
  <2> HIDE DEF x, y
  <2>12. f[n] \in Seq(AnyWord) /\ g[n] \in Seq(AnyWord)
    BY <2>4, <2>7, <2>8, <2>9, ConcatProperties DEF x, y
  <2>13. Tells(argv, g[n])
    BY <2>4, <2>8, <2>9, <2>11, TellsBoth DEF y
  <2> QED BY <2>1, <2>10, <2>12, <2>13
<1>5. Good(L)
  BY <1>1, <1>4
<1> QED BY <1>2, <1>3, <1>5

-----------------------------------------------------------------------------
(* The states of the two parsers.                                          *)

(* The values v of the coordinator are also the partition's, u, which has  *)
(* its own number and end time.                                            *)
Agree(v, u, id, end) ==
  /\ \A name \in Known : name \in DOMAIN v <=> name \in DOMAIN u
  /\ \A name \in Known : name \in DOMAIN v => v[name] = u[name]
  /\ Own \subseteq DOMAIN u /\ u["--part-id"] = id /\ u["--end-time"] = end

Same(c, q, id, end) ==
  /\ IsState(c) /\ IsState(q) /\ ~ Failed(c) /\ ~ Failed(q)
  /\ c.unknown = q.unknown
  /\ \A name \in Known : name \in c.used <=> name \in q.used
  /\ Own \subseteq q.used
  /\ Agree(c.values, q.values, id, end)

InStep(argv, id, end, c, q) ==
  Same(c, q, id, end) /\ Alike(c.rest, q.rest) /\ Tells(argv, q.rest)

(* The coordinator ends, or the partition because of one of its options,   *)
(* or they go on together.                                                 *)
Related(argv, id, end, c, q) ==
  Failed(c) \/ (Failed(q) /\ Uses(argv)) \/ InStep(argv, id, end, c, q)

LEMMA PutBoth ==
  ASSUME NEW v, NEW u, NEW id, NEW end, Agree(v, u, id, end), NEW name \in Known, NEW x
  PROVE  Agree(Put(v, name, x), Put(u, name, x), id, end)
<1>1. name \notin Own /\ "--part-id" \in Own /\ "--end-time" \in Own
  BY Tables
<1>2. name # "--part-id" /\ name # "--end-time"
  BY <1>1
<1> QED BY <1>1, <1>2 DEF Agree, Put

LEMMA TellsTail ==
  ASSUME NEW argv, NEW b \in Seq(AnyWord), b # << >>, Tells(argv, b)
  PROVE  Tells(argv, Tail(b))
<1>1. /\ Tail(b) \in Seq(AnyWord) /\ Len(Tail(b)) = Len(b) - 1 /\ Len(b) \in Nat
      /\ \A j \in 1 .. Len(b) - 1 : Tail(b)[j] = b[j + 1]
  BY FirstWord
<1>2. DOMAIN b = 1 .. Len(b) /\ DOMAIN Tail(b) = 1 .. Len(b) - 1
  BY <1>1, LenProperties
<1>3. \A j \in DOMAIN Tail(b) : j + 1 \in DOMAIN b /\ Tail(b)[j] = b[j + 1]
  BY <1>1, <1>2
<1> QED BY <1>3 DEF Tells

(* An option of both programs.                                             *)
LEMMA ConsumeTogether ==
  ASSUME NEW argv, NEW id, NEW end, NEW c, NEW q, InStep(argv, id, end, c, q),
         NEW name \in Known,
         NEW t, t = Consume(Coordinator, c, name), NEW u, u = Consume(Partition, q, name)
  PROVE  Failed(t) \/ InStep(argv, id, end, t, u)
<1>1. /\ IsState(c) /\ IsState(q) /\ ~ Failed(c) /\ ~ Failed(q) /\ c.unknown = q.unknown
      /\ \A x \in Known : x \in c.used <=> x \in q.used
      /\ Own \subseteq q.used /\ Agree(c.values, q.values, id, end)
      /\ Alike(c.rest, q.rest) /\ Tells(argv, q.rest)
  BY DEF InStep, Same
<1>2. Coordinator.options[name] = Partition.options[name]
  BY BothTables
<1>3. /\ HasValue(c) <=> HasValue(q)
      /\ HasValue(c) => c.rest[1] = q.rest[1] /\ Alike(Tail(c.rest), Tail(q.rest))
  BY <1>1, AlikeValue
<1>4. Takes(Coordinator, c, name) <=> Takes(Partition, q, name)
  BY <1>2, <1>3 DEF Takes
<1>5. Stops(Coordinator, c, name) <=> Stops(Partition, q, name)
  BY <1>1, <1>2, <1>3, <1>4 DEF Stops, Takes
<1>6. CASE Stops(Coordinator, c, name)
  BY <1>1, <1>6, ConsumeStops
<1>7. CASE ~ Stops(Coordinator, c, name)
  <2>1. /\ IsState(t) /\ t.error = c.error /\ t.unknown = c.unknown
        /\ t.used = c.used \cup {name}
        /\ t.rest = IF Takes(Coordinator, c, name) THEN Tail(c.rest) ELSE c.rest
        /\ t.values = NewValues(Coordinator, c, name)
    BY <1>1, <1>7, ConsumeGoes
  <2>2. /\ IsState(u) /\ u.error = q.error /\ u.unknown = q.unknown
        /\ u.used = q.used \cup {name}
        /\ u.rest = IF Takes(Partition, q, name) THEN Tail(q.rest) ELSE q.rest
        /\ u.values = NewValues(Partition, q, name)
    BY <1>1, <1>5, <1>7, ConsumeGoes
  <2>3. ~ Failed(t) /\ ~ Failed(u)
    BY <1>1, <2>1, <2>2, SameError
  <2>4. Agree(t.values, u.values, id, end)
    <3>1. CASE Coordinator.options[name].args = 0
      <4>1. PICK x : x = TRUE
        OBVIOUS
      <4>2. t.values = Put(c.values, name, x) /\ u.values = Put(q.values, name, x)
        BY <1>2, <2>1, <2>2, <3>1, <4>1 DEF NewValues
      <4> QED BY <1>1, <4>2, PutBoth
    <3>2. CASE Coordinator.options[name].args # 0 /\ Takes(Coordinator, c, name)
      <4>1. PICK x : x = Value(Coordinator, c, name)
        OBVIOUS
      <4>2. Value(Partition, q, name) = x
        BY <1>2, <1>3, <3>2, <4>1 DEF Value, Takes
      <4>3. t.values = Put(c.values, name, x) /\ u.values = Put(q.values, name, x)
        BY <1>2, <1>4, <2>1, <2>2, <3>2, <4>1, <4>2 DEF NewValues
      <4> QED BY <1>1, <4>3, PutBoth
    <3>3. CASE Coordinator.options[name].args # 0 /\ ~ Takes(Coordinator, c, name)
      <4>1. t.values = c.values /\ u.values = q.values
        BY <1>2, <1>4, <2>1, <2>2, <3>3 DEF NewValues
      <4> QED BY <1>1, <4>1
    <3> QED BY <3>1, <3>2, <3>3
  <2>5. /\ \A x \in Known : x \in t.used <=> x \in u.used
        /\ Own \subseteq u.used
    BY <1>1, <2>1, <2>2
  <2>6. Same(t, u, id, end)
    BY <1>1, <2>1, <2>2, <2>3, <2>4, <2>5 DEF Same
  <2>7. Alike(t.rest, u.rest)
    BY <1>1, <1>3, <1>4, <2>1, <2>2 DEF Takes
  <2>8. Tells(argv, u.rest)
    <3>1. CASE Takes(Partition, q, name)
      <4>1. q.rest \in Seq(AnyWord) /\ q.rest # << >>
        BY <1>1, <3>1 DEF Takes, HasValue, IsState
      <4>2. u.rest = Tail(q.rest)
        BY <2>2, <3>1
      <4> QED BY <1>1, <4>1, <4>2, TellsTail
    <3>2. CASE ~ Takes(Partition, q, name)
      BY <1>1, <2>2, <3>2
    <3> QED BY <3>1, <3>2
  <2> QED BY <2>6, <2>7, <2>8 DEF InStep
<1> QED BY <1>6, <1>7

(* An option of the partition's own, which it has already been given.      *)
LEMMA ConsumeOwn ==
  ASSUME NEW q, IsState(q), Own \subseteq q.used, NEW name \in Own,
         NEW u, u = Consume(Partition, q, name)
  PROVE  Failed(u)
<1>1. Stops(Partition, q, name)
  BY DEF Stops
<1> QED BY <1>1, ConsumeStops

LEMMA UnknownTogether ==
  ASSUME NEW argv, NEW id, NEW end, NEW c, NEW q, InStep(argv, id, end, c, q), NEW w,
         NEW t, t = Unknown(c, w), NEW u, u = Unknown(q, w)
  PROVE  InStep(argv, id, end, t, u)
<1>1. /\ IsState(t) /\ t.rest = c.rest /\ t.values = c.values /\ t.used = c.used
      /\ t.unknown = Append(c.unknown, w) /\ t.error = c.error
  BY Unknowns DEF InStep, Same
<1>2. /\ IsState(u) /\ u.rest = q.rest /\ u.values = q.values /\ u.used = q.used
      /\ u.unknown = Append(q.unknown, w) /\ u.error = q.error
  BY Unknowns DEF InStep, Same
<1>3. ~ Failed(t) /\ ~ Failed(u)
  BY <1>1, <1>2, SameError DEF InStep, Same
<1> QED BY <1>1, <1>2, <1>3 DEF InStep, Same

LEMMA DropTogether ==
  ASSUME NEW argv, NEW id, NEW end, NEW c, NEW q, InStep(argv, id, end, c, q),
         c.rest # << >>, c.rest[1] = q.rest[1], Alike(Tail(c.rest), Tail(q.rest)),
         NEW t, t = Drop(c), NEW u, u = Drop(q)
  PROVE  InStep(argv, id, end, t, u)
<1>1. q.rest # << >> /\ q.rest \in Seq(AnyWord)
  BY AlikeFirst DEF InStep, Same, IsState
<1>2. /\ IsState(t) /\ t.rest = Tail(c.rest) /\ t.values = c.values /\ t.used = c.used
      /\ t.unknown = c.unknown /\ t.error = c.error
  BY Drops DEF InStep, Same
<1>3. /\ IsState(u) /\ u.rest = Tail(q.rest) /\ u.values = q.values /\ u.used = q.used
      /\ u.unknown = q.unknown /\ u.error = q.error
  BY <1>1, Drops DEF InStep, Same
<1>4. ~ Failed(t) /\ ~ Failed(u)
  BY <1>2, <1>3, SameError DEF InStep, Same
<1>5. Tells(argv, u.rest)
  BY <1>1, <1>3, TellsTail DEF InStep
<1> QED BY <1>2, <1>3, <1>4, <1>5 DEF InStep, Same

(* The letters of a word.  Both stop at the first that neither knows.      *)
Stopped(p, letters, n) == \E i \in 1 .. n : letters[i] \notin DOMAIN p.index

LettersInStep(argv, id, end, letters, n, c, q) ==
  \/ Failed(c)
  \/ Failed(q) /\ HasOwn(letters)
  \/ /\ InStep(argv, id, end, c, q)
     /\ Stopped(Coordinator, letters, n) <=> Stopped(Partition, letters, n)

LEMMA LetterTogether ==
  ASSUME NEW argv, NEW id, NEW end, NEW letters, NEW n \in DOMAIN letters, n \in Nat \ {0},
         NEW w, NEW c, NEW q,
         IsState(c), IsState(q), LettersInStep(argv, id, end, letters, n - 1, c, q),
         NEW t, t = Letter(Coordinator, c, letters, n, w),
         NEW u, u = Letter(Partition, q, letters, n, w)
  PROVE  LettersInStep(argv, id, end, letters, n, t, u)
<1>1. CASE Failed(c) \/ (Failed(q) /\ HasOwn(letters))
  <2>1. (Failed(c) => Failed(t)) /\ (Failed(q) => Failed(u))
    BY LetterState DEF After
  <2> QED BY <1>1, <2>1 DEF LettersInStep
<1>2. CASE /\ InStep(argv, id, end, c, q)
           /\ Stopped(Coordinator, letters, n - 1) <=> Stopped(Partition, letters, n - 1)
  <2>1. /\ InStep(argv, id, end, c, q) /\ ~ Failed(c) /\ ~ Failed(q)
        /\ Stopped(Coordinator, letters, n - 1) <=> Stopped(Partition, letters, n - 1)
    BY <1>2 DEF InStep, Same
  <2>2. \A p : Stopped(p, letters, n) <=>
                Stopped(p, letters, n - 1) \/ letters[n] \notin DOMAIN p.index
    <3>1. 1 .. n = 1 .. n - 1 \cup {n}
      OBVIOUS
    <3> QED BY <3>1 DEF Stopped
  <2>3. \A p, s : ~ Failed(s) =>
          Letter(p, s, letters, n, w) =
            IF Stopped(p, letters, n - 1) THEN s
            ELSE IF letters[n] \in DOMAIN p.index THEN Consume(p, s, p.index[letters[n]])
            ELSE Unknown(s, w)
    BY DEF Letter, Stopped, Failed
  <2>4. /\ t = IF Stopped(Coordinator, letters, n - 1) THEN c
               ELSE IF letters[n] \in DOMAIN Coordinator.index
               THEN Consume(Coordinator, c, Coordinator.index[letters[n]]) ELSE Unknown(c, w)
        /\ u = IF Stopped(Partition, letters, n - 1) THEN q
               ELSE IF letters[n] \in DOMAIN Partition.index
               THEN Consume(Partition, q, Partition.index[letters[n]]) ELSE Unknown(q, w)
    BY <2>1, <2>3
  <2>5. CASE Stopped(Coordinator, letters, n - 1)
    BY <2>1, <2>2, <2>4, <2>5 DEF LettersInStep
  <2>6. CASE ~ Stopped(Coordinator, letters, n - 1) /\ letters[n] \in DOMAIN ArgsIndex
    <3> DEFINE name == ArgsIndex[letters[n]]
    <3>1. name \in Known
      BY <2>6, Tables
    <3>2. /\ letters[n] \in DOMAIN Coordinator.index /\ Coordinator.index[letters[n]] = name
          /\ letters[n] \in DOMAIN Partition.index /\ Partition.index[letters[n]] = name
      BY <2>6, BothTables
    <3> HIDE DEF name
    <3>3. t = Consume(Coordinator, c, name) /\ u = Consume(Partition, q, name)
      BY <2>1, <2>4, <2>6, <3>2
    <3>4. Failed(t) \/ InStep(argv, id, end, t, u)
      BY <2>1, <3>1, <3>3, ConsumeTogether
    <3> QED BY <2>1, <2>2, <3>2, <3>4 DEF LettersInStep
  <2>7. CASE ~ Stopped(Coordinator, letters, n - 1) /\ letters[n] \in DOMAIN PartIndex
    <3> DEFINE name == PartIndex[letters[n]]
    <3>1. name \in Own
      BY <2>7, Tables
    <3>2. letters[n] \in DOMAIN Partition.index /\ Partition.index[letters[n]] = name
      BY <2>7, BothTables
    <3> HIDE DEF name
    <3>3. u = Consume(Partition, q, name)
      BY <2>1, <2>4, <2>7, <3>2
    <3>4. Failed(u)
      BY <2>1, <3>1, <3>3, ConsumeOwn DEF InStep, Same
    <3>5. HasOwn(letters)
      BY <2>7 DEF HasOwn
    <3> QED BY <3>4, <3>5 DEF LettersInStep
  <2>8. CASE /\ ~ Stopped(Coordinator, letters, n - 1)
             /\ letters[n] \notin DOMAIN ArgsIndex \cup DOMAIN PartIndex
    <3>1. letters[n] \notin DOMAIN Coordinator.index /\ letters[n] \notin DOMAIN Partition.index
      BY <2>8, BothTables
    <3>2. t = Unknown(c, w) /\ u = Unknown(q, w)
      BY <2>1, <2>4, <2>8, <3>1
    <3>3. InStep(argv, id, end, t, u)
      BY <2>1, <3>2, UnknownTogether
    <3> QED BY <2>2, <3>1, <3>3 DEF LettersInStep
  <2> QED BY <2>5, <2>6, <2>7, <2>8
<1> QED BY <1>1, <1>2 DEF LettersInStep

LEMMA CompoundTogether ==
  ASSUME NEW argv, NEW id, NEW end, NEW letters \in Seq(STRING), NEW w, NEW c, NEW q,
         InStep(argv, id, end, c, q),
         NEW t, t = Compound(Coordinator, c, letters, w),
         NEW u, u = Compound(Partition, q, letters, w)
  PROVE  \/ Failed(t) \/ InStep(argv, id, end, t, u)
         \/ Failed(u) /\ HasOwn(letters)
<1>0. Len(letters) \in Nat /\ DOMAIN letters = 1 .. Len(letters)
  BY LenProperties
<1>1. PICK f : /\ f[0] = c /\ Compound(Coordinator, c, letters, w) = f[Len(letters)]
               /\ \A n \in 1 .. Len(letters) :
                    f[n] = Letter(Coordinator, f[n - 1], letters, n, w)
  BY <1>0, CompoundSteps
<1>2. PICK g : /\ g[0] = q /\ Compound(Partition, q, letters, w) = g[Len(letters)]
               /\ \A n \in 1 .. Len(letters) :
                    g[n] = Letter(Partition, g[n - 1], letters, n, w)
  BY <1>0, CompoundSteps
<1> DEFINE Good(n) == /\ IsState(f[n]) /\ IsState(g[n])
                      /\ LettersInStep(argv, id, end, letters, n, f[n], g[n])
           Bad == {n \in 0 .. Len(letters) : ~ Good(n)}
<1>3. ASSUME Bad # {} PROVE FALSE
  <2>1. PICK n \in Bad : \A y \in Bad : n <= y
    <3>1. Bad \subseteq Nat
      OBVIOUS
    <3> HIDE DEF Bad
    <3> QED BY <1>3, <3>1, Least
  <2>2. Good(0)
    BY <1>1, <1>2 DEF LettersInStep, Stopped, InStep, Same
  <2>3. n \in 1 .. Len(letters) /\ n \in Nat \ {0} /\ n \in DOMAIN letters
    BY <1>0, <2>1, <2>2
  <2>4. Good(n - 1)
    <3>1. n - 1 \in 0 .. Len(letters) /\ ~ (n <= n - 1)
      BY <2>3
    <3> QED BY <3>1, <2>1
  <2>5. f[n] = Letter(Coordinator, f[n - 1], letters, n, w)
    BY <1>1, <2>3
  <2>6. g[n] = Letter(Partition, g[n - 1], letters, n, w)
    BY <1>2, <2>3
  <2>7. IsState(f[n]) /\ IsState(g[n])
    BY <2>4, <2>5, <2>6, LetterState DEF After
  <2>8. LettersInStep(argv, id, end, letters, n, f[n], g[n])
    BY <2>3, <2>4, <2>5, <2>6, LetterTogether
  <2> QED BY <2>1, <2>7, <2>8
<1>4. Good(Len(letters))
  BY <1>0, <1>3
<1> QED BY <1>1, <1>2, <1>4 DEF LettersInStep

(* One turn of both.                                                       *)
LEMMA TurnRelated ==
  ASSUME NEW argv, NEW id, NEW end, NEW c, NEW q, IsState(c), IsState(q),
         Related(argv, id, end, c, q),
         NEW t, t = Turn(Coordinator, c), NEW u, u = Turn(Partition, q)
  PROVE  Related(argv, id, end, t, u)
<1>1. (Failed(c) => Failed(t)) /\ (Failed(q) => Failed(u))
  BY TurnState DEF After
<1>2. CASE Failed(c) \/ (Failed(q) /\ Uses(argv))
  BY <1>1, <1>2 DEF Related
<1>3. CASE InStep(argv, id, end, c, q)
  <2>1. /\ c.rest \in Seq(AnyWord) /\ q.rest \in Seq(AnyWord) /\ Alike(c.rest, q.rest)
        /\ Tells(argv, q.rest) /\ Own \subseteq q.used
    BY <1>3 DEF InStep, Same, IsState
  <2>2. CASE c.rest = << >>
    <3>1. q.rest = << >>
      BY <2>1, <2>2, AlikeFirst
    <3>2. t = c /\ u = q
      BY <2>2, <3>1, TurnState
    <3> QED BY <1>3, <3>2 DEF Related
  <2>3. CASE c.rest # << >>
    <3> DEFINE x == c.rest[1]
               y == q.rest[1]
    <3>1. q.rest # << >>
      BY <2>1, <2>3, AlikeFirst
    <3>2. 1 \in DOMAIN q.rest
      BY <2>1, <3>1, FirstWord
    <3>3. IsOwn(y.text) => Uses(argv)
      BY <2>1, <3>2 DEF Tells
    <3>4. PICK a : a = Drop(c)
      OBVIOUS
    <3>5. PICK b : b = Drop(q)
      OBVIOUS
    <3>6. IsState(b) /\ b.used = q.used
      BY <3>1, <3>5, Drops
    <3>7. /\ t = IF x.text \in DOMAIN Coordinator.index
                 THEN Consume(Coordinator, a, Coordinator.index[x.text])
                 ELSE IF x.text \in DOMAIN Letters
                 THEN Compound(Coordinator, a, Letters[x.text], x) ELSE Unknown(a, x)
          /\ u = IF y.text \in DOMAIN Partition.index
                 THEN Consume(Partition, b, Partition.index[y.text])
                 ELSE IF y.text \in DOMAIN Letters
                 THEN Compound(Partition, b, Letters[y.text], y) ELSE Unknown(b, y)
      BY <2>3, <3>1, <3>4, <3>5 DEF Turn
    <3> HIDE DEF x, y
    <3>8. CASE y.text \in DOMAIN PartIndex
      <4>1. /\ y.text \in DOMAIN Partition.index
            /\ Partition.index[y.text] = PartIndex[y.text] /\ PartIndex[y.text] \in Own
        BY <3>8, BothTables, Tables
      <4>2. u = Consume(Partition, b, PartIndex[y.text])
        BY <3>7, <4>1
      <4>3. Failed(u)
        BY <2>1, <3>6, <4>1, <4>2, ConsumeOwn
      <4> QED BY <3>3, <3>8, <4>3 DEF Related, IsOwn
    <3>9. CASE y.text \notin DOMAIN PartIndex
      <4>1. x = y /\ Alike(Tail(c.rest), Tail(q.rest))
        BY <2>1, <2>3, <3>9, AlikeFirst DEF x, y
      <4>2. InStep(argv, id, end, a, b)
        BY <1>3, <2>3, <3>4, <3>5, <4>1, DropTogether DEF x, y
      <4>3. CASE x.text \in DOMAIN ArgsIndex
        <5> DEFINE name == ArgsIndex[x.text]
        <5>1. /\ x.text \in DOMAIN Coordinator.index /\ Coordinator.index[x.text] = name
              /\ x.text \in DOMAIN Partition.index /\ Partition.index[x.text] = name
              /\ name \in Known
          BY <4>3, BothTables, Tables
        <5> HIDE DEF name
        <5>2. t = Consume(Coordinator, a, name) /\ u = Consume(Partition, b, name)
          BY <3>7, <4>1, <5>1
        <5>3. Failed(t) \/ InStep(argv, id, end, t, u)
          BY <4>2, <5>1, <5>2, ConsumeTogether
        <5> QED BY <5>3 DEF Related
      <4>4. CASE x.text \notin DOMAIN ArgsIndex
        <5>1. x.text \notin DOMAIN Coordinator.index /\ x.text \notin DOMAIN Partition.index
          BY <3>9, <4>1, <4>4, BothTables
        <5>2. CASE x.text \in DOMAIN Letters
          <6>1. PICK letters : letters = Letters[x.text]
            OBVIOUS
          <6>2. letters \in Seq(STRING)
            BY <5>2, <6>1, LettersSeq
          <6>3. t = Compound(Coordinator, a, letters, x) /\ u = Compound(Partition, b, letters, x)
            BY <3>7, <4>1, <5>1, <5>2, <6>1
          <6>4. \/ Failed(t) \/ InStep(argv, id, end, t, u)
                \/ Failed(u) /\ HasOwn(letters)
            BY <4>2, <6>2, <6>3, CompoundTogether
          <6>5. HasOwn(letters) => Uses(argv)
            BY <3>3, <4>1, <5>2, <6>1 DEF IsOwn
          <6> QED BY <6>4, <6>5 DEF Related
        <5>3. CASE x.text \notin DOMAIN Letters
          <6>1. t = Unknown(a, x) /\ u = Unknown(b, x)
            BY <3>7, <4>1, <5>1, <5>3
          <6>2. InStep(argv, id, end, t, u)
            BY <4>2, <6>1, UnknownTogether
          <6> QED BY <6>2 DEF Related
        <5> QED BY <5>2, <5>3
      <4> QED BY <4>3, <4>4
    <3> QED BY <3>8, <3>9
  <2> QED BY <2>2, <2>3
<1> QED BY <1>2, <1>3 DEF Related

-----------------------------------------------------------------------------
(* What the coordinator puts in front of the line.                         *)

LEMMA OneBefore ==
  ASSUME NEW w \in AnyWord, NEW r \in Seq(AnyWord), NEW x, x = <<w>> \o r
  PROVE  /\ x \in Seq(AnyWord) /\ x # << >> /\ Len(x) = Len(r) + 1 /\ x[1] = w /\ Tail(x) = r
         /\ \A j \in 1 .. Len(r) : x[j + 1] = r[j]
<1> DEFINE e == <<w>>
<1>1. e \in Seq(AnyWord) /\ Len(e) = 1 /\ e[1] = w
  OBVIOUS
<1>2. Len(r) \in Nat
  BY LenProperties
<1>3. /\ x \in Seq(AnyWord) /\ Len(x) = Len(e) + Len(r)
      /\ \A i \in 1 .. Len(e) + Len(r) : x[i] = IF i <= Len(e) THEN e[i] ELSE r[i - Len(e)]
  <2> HIDE DEF e
  <2> QED BY <1>1, ConcatProperties DEF e
<1> HIDE DEF e
<1>4. Len(x) = Len(r) + 1 /\ x[1] = w
  BY <1>1, <1>2, <1>3
<1>5. x # << >>
  BY <1>2, <1>3, <1>4, EmptySeq
<1>6. ASSUME NEW j \in 1 .. Len(r) PROVE x[j + 1] = r[j]
  <2>1. j + 1 \in 1 .. Len(e) + Len(r) /\ ~ (j + 1 <= Len(e)) /\ j + 1 - Len(e) = j
    BY <1>1, <1>2
  <2> QED BY <1>3, <2>1
<1>7. /\ Tail(x) \in Seq(AnyWord) /\ Len(Tail(x)) = Len(r)
      /\ \A j \in 1 .. Len(r) : Tail(x)[j] = x[j + 1]
  BY <1>2, <1>3, <1>4, <1>5, FirstWord
<1>8. Tail(x) = r
  BY <1>6, <1>7, SeqEqual
<1> QED BY <1>3, <1>4, <1>5, <1>6, <1>8

LEMMA PreprocessBefore ==
  ASSUME NEW p, NEW w \in AnyWord, NEW argv \in Seq(AnyWord)
  PROVE  Preprocess(p, <<w>> \o argv) = Expanded(p, w) \o Preprocess(p, argv)
<1> DEFINE x == <<w>> \o argv
           L == Len(argv)
<1>1. /\ x \in Seq(AnyWord) /\ Len(x) = L + 1 /\ x[1] = w
      /\ \A j \in 1 .. L : x[j + 1] = argv[j]
  BY OneBefore
<1>2. L \in Nat
  BY LenProperties
<1> HIDE DEF x
<1>3. PICK f : LastWords(p, argv, f)
  BY <1>2, PreprocessSteps
<1>a. Len(x) \in Nat
  BY <1>1, <1>2
<1>4. PICK g : LastWords(p, x, g)
  BY <1>a, PreprocessSteps
<1>5. /\ f[0] = << >> /\ Preprocess(p, argv) = f[L]
      /\ \A n \in 1 .. L : f[n] = Expanded(p, argv[L - n + 1]) \o f[n - 1]
  BY <1>3 DEF LastWords
<1>b. PICK m : m = Len(x)
  OBVIOUS
<1>6. /\ g[0] = << >> /\ Preprocess(p, x) = g[m]
      /\ \A n \in 1 .. m : g[n] = Expanded(p, x[m - n + 1]) \o g[n - 1]
  BY <1>4, <1>b DEF LastWords
<1>c. m = L + 1
  BY <1>1, <1>b
<1> HIDE DEF L
<1> DEFINE Other == {n \in 0 .. L : f[n] # g[n]}
<1>7. ASSUME Other # {} PROVE FALSE
  <2>1. PICK n \in Other : \A y \in Other : n <= y
    <3>1. Other \subseteq Nat
      BY <1>2
    <3> HIDE DEF Other
    <3> QED BY <1>7, <3>1, Least
  <2>2. n \in 1 .. L
    BY <2>1, <1>5, <1>6, <1>2
  <2>3. f[n - 1] = g[n - 1]
    <3>1. n - 1 \in 0 .. L /\ ~ (n <= n - 1)
      BY <2>2, <1>2
    <3> QED BY <3>1, <2>1
  <2>4. L - n + 1 \in 1 .. L /\ m - n + 1 = (L - n + 1) + 1 /\ n \in 1 .. m
    BY <2>2, <1>2, <1>c
  <2>5. x[m - n + 1] = argv[L - n + 1]
    BY <2>4, <1>1
  <2>6. f[n] = Expanded(p, argv[L - n + 1]) \o f[n - 1]
    BY <1>5, <2>2
  <2>7. g[n] = Expanded(p, x[m - n + 1]) \o g[n - 1]
    BY <1>6, <2>4
  <2> QED BY <2>1, <2>3, <2>5, <2>6, <2>7
<1>8. f[L] = g[L]
  BY <1>2, <1>7
<1>9. g[m] = Expanded(p, x[1]) \o g[L]
  <2>1. m \in 1 .. m /\ m - m + 1 = 1 /\ m - 1 = L
    BY <1>2, <1>c
  <2> QED BY <1>6, <2>1
<1> QED BY <1>1, <1>5, <1>6, <1>8, <1>9 DEF x

Front(w1, w2, w3, w4, argv) == <<w1, w2, w3, w4>> \o argv

LEMMA Before ==
  ASSUME NEW w1 \in AnyWord, NEW w2 \in AnyWord, NEW w3 \in AnyWord, NEW w4 \in AnyWord,
         NEW argv \in Seq(AnyWord), NEW y4, y4 = <<w4>> \o argv, NEW y3, y3 = <<w3>> \o y4,
         NEW y2, y2 = <<w2>> \o y3, NEW y1, y1 = <<w1>> \o y2
  PROVE  Front(w1, w2, w3, w4, argv) = y1
<1> DEFINE e == <<w1, w2, w3, w4>>
           L == Len(argv)
           a == <<w4>> \o argv
           b == <<w3>> \o a
           c == <<w2>> \o b
           d == <<w1>> \o c
<1>1. L \in Nat
  BY LenProperties
<1>2. /\ a \in Seq(AnyWord) /\ Len(a) = L + 1 /\ a[1] = w4
      /\ \A j \in 1 .. L : a[j + 1] = argv[j]
  BY OneBefore
<1> HIDE DEF a
<1>3. /\ b \in Seq(AnyWord) /\ Len(b) = Len(a) + 1 /\ b[1] = w3
      /\ \A j \in 1 .. Len(a) : b[j + 1] = a[j]
  BY <1>2, OneBefore
<1> HIDE DEF b
<1>4. /\ c \in Seq(AnyWord) /\ Len(c) = Len(b) + 1 /\ c[1] = w2
      /\ \A j \in 1 .. Len(b) : c[j + 1] = b[j]
  BY <1>3, OneBefore
<1> HIDE DEF c
<1>5. /\ d \in Seq(AnyWord) /\ Len(d) = Len(c) + 1 /\ d[1] = w1
      /\ \A j \in 1 .. Len(c) : d[j + 1] = c[j]
  BY <1>4, OneBefore
<1> HIDE DEF d
<1>6. e \in Seq(AnyWord) /\ Len(e) = 4 /\ e[1] = w1 /\ e[2] = w2 /\ e[3] = w3 /\ e[4] = w4
  OBVIOUS
<1>7. /\ e \o argv \in Seq(AnyWord) /\ Len(e \o argv) = 4 + L
      /\ \A i \in 1 .. 4 + L : (e \o argv)[i] = IF i <= 4 THEN e[i] ELSE argv[i - 4]
  <2> HIDE DEF e
  <2>1. /\ e \o argv \in Seq(AnyWord) /\ Len(e \o argv) = Len(e) + L
        /\ \A i \in 1 .. Len(e) + L :
             (e \o argv)[i] = IF i <= Len(e) THEN e[i] ELSE argv[i - Len(e)]
    BY <1>6, ConcatProperties
  <2>2. PICK m : m = Len(e)
    OBVIOUS
  <2> QED BY <2>1, <2>2, <1>6
<1>8. PICK x : x = e \o argv
  OBVIOUS
<1> HIDE DEF e, L
<1>9. /\ d[1] = w1 /\ d[2] = w2 /\ d[3] = w3 /\ d[4] = w4 /\ Len(d) = 4 + L
  <2>1. d[2] = c[1] /\ c[2] = b[1] /\ b[2] = a[1]
    <3>1. 1 \in 1 .. Len(c) /\ 1 \in 1 .. Len(b) /\ 1 \in 1 .. Len(a)
      BY <1>1, <1>2, <1>3, <1>4
    <3>2. d[1 + 1] = c[1] /\ c[1 + 1] = b[1] /\ b[1 + 1] = a[1]
      BY <3>1, <1>3, <1>4, <1>5
    <3> QED BY <3>2
  <2>2. d[3] = c[2] /\ c[3] = b[2]
    <3>1. 2 \in 1 .. Len(c) /\ 2 \in 1 .. Len(b)
      BY <1>1, <1>2, <1>3, <1>4
    <3>2. d[2 + 1] = c[2] /\ c[2 + 1] = b[2]
      BY <3>1, <1>4, <1>5
    <3> QED BY <3>2
  <2>3. d[4] = c[3]
    <3>1. 3 \in 1 .. Len(c)
      BY <1>1, <1>2, <1>3, <1>4
    <3>2. d[3 + 1] = c[3]
      BY <3>1, <1>5
    <3> QED BY <3>2
  <2> QED BY <2>1, <2>2, <2>3, <1>1, <1>2, <1>3, <1>4, <1>5
<1>10. ASSUME NEW j \in 1 .. L PROVE d[j + 4] = argv[j]
  <2>1. j + 1 \in 1 .. Len(a) /\ j + 2 \in 1 .. Len(b) /\ j + 3 \in 1 .. Len(c)
    BY <1>1, <1>2, <1>3, <1>4
  <2>2. a[j + 1] = argv[j] /\ b[(j + 1) + 1] = a[j + 1] /\ c[(j + 2) + 1] = b[j + 2]
        /\ d[(j + 3) + 1] = c[j + 3]
    BY <2>1, <1>2, <1>3, <1>4, <1>5
  <2> QED BY <2>2
<1>11. ASSUME NEW i \in 1 .. 4 + L PROVE x[i] = d[i]
  <2>1. CASE i <= 4
    <3>1. i = 1 \/ i = 2 \/ i = 3 \/ i = 4
      BY <2>1, <1>1
    <3> QED BY <3>1, <2>1, <1>6, <1>7, <1>8, <1>9
  <2>2. CASE i > 4
    <3>1. i - 4 \in 1 .. L /\ (i - 4) + 4 = i /\ ~ (i <= 4)
      BY <2>2, <1>1
    <3> QED BY <3>1, <1>7, <1>8, <1>10
  <2> QED BY <2>1, <2>2, <1>1
<1>12. x \in Seq(AnyWord) /\ Len(x) = 4 + L
  BY <1>7, <1>8
<1>13. x = d
  BY <1>5, <1>9, <1>11, <1>12, SeqEqual
<1> QED BY <1>8, <1>13, Zenon DEF d, c, b, a, e, Front

LEMMA WordIs ==
  ASSUME NEW text \in DOMAIN Partition.index
  PROVE  Word(text) \in AnyWord /\ Word(text).text = text
<1>1. << >> \in Seq(Int)
  BY EmptySeq
<1> QED BY <1>1 DEF Word, AnyWord

LEMMA NumberIs ==
  ASSUME NEW n \in Int
  PROVE  Number(n) \in AnyWord /\ Number(n).text = "number" /\ Number(n).number = <<n>>
<1>1. <<n>> \in Seq(Int)
  OBVIOUS
<1>2. Number(n) = [text |-> "number", number |-> <<n>>]
  BY DEF Number
<1>3. Number(n).text = "number" /\ Number(n).number = <<n>>
  BY <1>2
<1> HIDE DEF Number
<1>4. Number(n) \in AnyWord
  BY <1>1, <1>2 DEF AnyWord
<1> QED BY <1>3, <1>4

LEMMA NumberIsValue ==
  ASSUME NEW n \in Int
  PROVE  ~ IsOptional(Number(n))
BY Tables, BothTables, WordsAssumption DEF WordsAssumption, IsOptional, Number

(* The turn in which the partition takes one of its own options.           *)
OneOption(o, n, r) == <<Word(o)>> \o (<<Number(n)>> \o r)

LEMMA OwnTurn ==
  ASSUME NEW s, IsState(s), ~ Failed(s), NEW o \in DOMAIN PartIndex, NEW n \in Int,
         NEW r \in Seq(AnyWord), s.rest = OneOption(o, n, r),
         NEW name, name = PartIndex[o], name \notin s.used, NEW t, t = Turn(Partition, s)
  PROVE  /\ IsState(t) /\ ~ Failed(t) /\ t.rest = r /\ t.used = s.used \cup {name}
         /\ t.unknown = s.unknown /\ t.values = Put(s.values, name, n)
<1>1. PICK y : y = <<Number(n)>> \o r
  OBVIOUS
<1>2. y \in Seq(AnyWord) /\ y # << >> /\ y[1] = Number(n) /\ Tail(y) = r
  BY <1>1, OneBefore, NumberIs
<1>b. o \in DOMAIN Partition.index
  BY BothTables
<1>3. /\ s.rest # << >> /\ s.rest[1] = Word(o) /\ Tail(s.rest) = y
  <2>1. PICK x : x = <<Word(o)>> \o y
    OBVIOUS
  <2>2. s.rest = x
    BY <1>1, <2>1 DEF OneOption
  <2>3. x # << >> /\ x[1] = Word(o) /\ Tail(x) = y
    BY <1>2, <1>b, <2>1, OneBefore, WordIs
  <2> QED BY <2>2, <2>3
<1>4. PICK a : a = Drop(s)
  OBVIOUS
<1>5. /\ IsState(a) /\ a.rest = y /\ a.values = s.values /\ a.used = s.used
      /\ a.unknown = s.unknown /\ a.error = s.error
  BY <1>3, <1>4, Drops
<1>6. s.rest[1].text = o
  BY <1>3, <1>b, WordIs
<1>7. /\ o \in DOMAIN Partition.index /\ Partition.index[o] = name /\ name \in Own
      /\ Partition.options[name].args = 1 /\ Partition.options[name].number = TRUE
      /\ ~ (name \in {"--help", "--version"})
  BY Tables, BothTables
<1>8. t = Consume(Partition, a, name)
  BY <1>3, <1>4, <1>6, <1>7 DEF Turn
<1>9. HasValue(a) /\ a.rest[1].number = <<n>>
  BY <1>2, <1>5, NumberIsValue, NumberIs DEF HasValue
<1>10. Takes(Partition, a, name)
  BY <1>7, <1>9 DEF Takes
<1>11. ~ Stops(Partition, a, name)
  BY <1>5, <1>7, <1>9 DEF Stops
<1>a. /\ IsState(t) /\ t.error = a.error /\ t.unknown = a.unknown
      /\ t.used = a.used \cup {name}
      /\ t.rest = IF Takes(Partition, a, name) THEN Tail(a.rest) ELSE a.rest
      /\ t.values = NewValues(Partition, a, name)
  <2>1. IsState(a)
    BY <1>5
  <2> QED BY <2>1, <1>8, <1>11, ConsumeGoes
<1>12. /\ IsState(t) /\ t.error = a.error /\ t.unknown = a.unknown
       /\ t.used = a.used \cup {name} /\ t.rest = Tail(a.rest)
       /\ t.values = NewValues(Partition, a, name)
  BY <1>10, <1>a
<1>13. NewValues(Partition, a, name) = Put(s.values, name, n)
  BY <1>5, <1>7, <1>9, <1>10 DEF NewValues, Value
<1>14. ~ Failed(t)
  BY <1>5, <1>12, SameError
<1> QED BY <1>2, <1>5, <1>12, <1>13, <1>14

Given(id, end, argv) == <<Word("-P"), Number(id), Word("-T"), Number(end)>> \o argv

LEMMA FreshState ==
  ASSUME NEW rest \in Seq(AnyWord), NEW s, s = Fresh(rest)
  PROVE  /\ IsState(s) /\ ~ Failed(s) /\ s.rest = rest /\ s.used = {} /\ s.unknown = << >>
         /\ s.values = << >>
BY DEF Fresh, IsState, Failed

(* It takes them first, and then is where the coordinator begins.          *)
LEMMA StartTogether ==
  ASSUME NEW argv \in Seq(AnyWord), NEW id \in Int, NEW end \in Int,
         NEW c, c = Fresh(Preprocess(Coordinator, argv)),
         NEW q, q = Fresh(Preprocess(Partition, Given(id, end, argv))),
         NEW r, r = Turn(Partition, q), NEW s, s = Turn(Partition, r)
  PROVE  IsState(c) /\ IsState(q) /\ InStep(argv, id, end, c, s)
<1> DEFINE a == Preprocess(Coordinator, argv)
           b == Preprocess(Partition, argv)
<1>1. a \in Seq(AnyWord) /\ b \in Seq(AnyWord) /\ Alike(a, b) /\ Tells(argv, b)
  BY PreprocessAlike
<1>2. /\ Word("-P") \in AnyWord /\ Word("-T") \in AnyWord
      /\ Number(id) \in AnyWord /\ Number(end) \in AnyWord
  <2>1. "-P" \in DOMAIN Partition.index /\ "-T" \in DOMAIN Partition.index
    BY BothTables, Tables
  <2> QED BY <2>1, WordIs, NumberIs
<1> DEFINE l4 == <<Number(end)>> \o argv
           l3 == <<Word("-T")>> \o l4
           l2 == <<Number(id)>> \o l3
           b4 == <<Number(end)>> \o b
           b3 == <<Word("-T")>> \o b4
           b2 == <<Number(id)>> \o b3
           b1 == <<Word("-P")>> \o b2
<1>3. Given(id, end, argv) = <<Word("-P")>> \o l2
  <2>1. PICK w1, w2, w3, w4 :
          w1 = Word("-P") /\ w2 = Number(id) /\ w3 = Word("-T") /\ w4 = Number(end)
    OBVIOUS
  <2>2. w1 \in AnyWord /\ w2 \in AnyWord /\ w3 \in AnyWord /\ w4 \in AnyWord
    BY <1>2, <2>1
  <2>3. PICK y4 : y4 = <<w4>> \o argv
    OBVIOUS
  <2>4. PICK y3 : y3 = <<w3>> \o y4
    OBVIOUS
  <2>5. PICK y2 : y2 = <<w2>> \o y3
    OBVIOUS
  <2>6. PICK y1 : y1 = <<w1>> \o y2
    OBVIOUS
  <2>7. Front(w1, w2, w3, w4, argv) = y1
    BY <2>2, <2>3, <2>4, <2>5, <2>6, Before
  <2>8. Given(id, end, argv) = Front(w1, w2, w3, w4, argv)
    BY <2>1, Zenon DEF Given, Front
  <2>9. y1 = <<Word("-P")>> \o l2
    BY <2>1, <2>3, <2>4, <2>5, <2>6, Zenon DEF l2, l3, l4
  <2> QED BY <2>7, <2>8, <2>9, Zenon
<1>4. ASSUME NEW w \in {Word("-P"), Word("-T"), Number(id), Number(end)}
      PROVE  Expanded(Partition, w) = <<w>>
  <2>1. w.text \in {"-P", "-T", "number"}
    BY DEF Word, Number
  <2>2. w.text \notin DOMAIN Assigned
    BY <2>1, Tables, BothTables, WordsAssumption DEF WordsAssumption
  <2> QED BY <2>2 DEF Expanded
<1>5. l4 \in Seq(AnyWord)
  BY <1>2, OneBefore
<1>6. l3 \in Seq(AnyWord)
  <2> HIDE DEF l4
  <2> QED BY <1>2, <1>5, OneBefore
<1>7. l2 \in Seq(AnyWord)
  <2> HIDE DEF l3
  <2> QED BY <1>2, <1>6, OneBefore
<1>8. b4 \in Seq(AnyWord)
  <2> HIDE DEF b
  <2> QED BY <1>1, <1>2, OneBefore
<1>9. b3 \in Seq(AnyWord)
  <2> HIDE DEF b4
  <2> QED BY <1>2, <1>8, OneBefore
<1>10. b2 \in Seq(AnyWord)
  <2> HIDE DEF b3
  <2> QED BY <1>2, <1>9, OneBefore
<1>11. b1 \in Seq(AnyWord)
  <2> HIDE DEF b2
  <2> QED BY <1>2, <1>10, OneBefore
<1>12. Preprocess(Partition, l4) = b4
  BY <1>2, <1>4, PreprocessBefore, ZenonT(40)
<1>13. Preprocess(Partition, l3) = b3
  <2> HIDE DEF l4, b4
  <2> QED BY <1>2, <1>4, <1>5, <1>12, PreprocessBefore, ZenonT(40)
<1>14. Preprocess(Partition, l2) = b2
  <2> HIDE DEF l3, b3
  <2> QED BY <1>2, <1>4, <1>6, <1>13, PreprocessBefore, ZenonT(40)
<1>15. Preprocess(Partition, Given(id, end, argv)) = b1
  <2> HIDE DEF l2, b2
  <2> QED BY <1>2, <1>3, <1>4, <1>7, <1>14, PreprocessBefore
<1> HIDE DEF a, b, b1, l4, l3, l2
<1>16. /\ IsState(q) /\ ~ Failed(q) /\ q.rest = b1 /\ q.used = {} /\ q.unknown = << >>
       /\ q.values = << >>
  BY <1>11, <1>15, FreshState
<1>17. /\ IsState(c) /\ ~ Failed(c) /\ c.rest = a /\ c.used = {} /\ c.unknown = << >>
       /\ c.values = << >>
  BY <1>1, FreshState DEF a
<1>18. /\ "-P" \in DOMAIN PartIndex /\ PartIndex["-P"] = "--part-id"
       /\ "-T" \in DOMAIN PartIndex /\ PartIndex["-T"] = "--end-time"
       /\ Own = {"--part-id", "--end-time"} /\ Known \cap Own = {}
  <2>1. /\ DOMAIN PartIndex = {"--part-id", "--end-time", "-P", "-T"}
        /\ PartIndex["-P"] = "--part-id" /\ PartIndex["-T"] = "--end-time"
        /\ Own = {"--part-id", "--end-time"} /\ Known \cap Own = {}
    BY Tables
  <2> QED BY <2>1
<1>19. /\ IsState(r) /\ ~ Failed(r) /\ r.rest = b3 /\ r.used = {"--part-id"}
       /\ r.unknown = << >> /\ r.values = Put(<< >>, "--part-id", id)
  <2>1. q.rest = <<Word("-P")>> \o (<<Number(id)>> \o b3)
    BY <1>16 DEF b1
  <2> HIDE DEF b3
  <2>2. "--part-id" \notin q.used
    BY <1>16
  <2>3. PICK o \in DOMAIN PartIndex : o = "-P"
    BY <1>18
  <2>4. PICK name : name = PartIndex[o]
    OBVIOUS
  <2>5. name = "--part-id"
    BY <1>18, <2>3, <2>4
  <2>6. name \notin q.used
    BY <2>2, <2>5
  <2>7. q.rest = OneOption(o, id, b3)
    BY <2>1, <2>3 DEF OneOption
  <2>8. /\ IsState(r) /\ ~ Failed(r) /\ r.rest = b3 /\ r.used = q.used \cup {name}
        /\ r.unknown = q.unknown /\ r.values = Put(q.values, name, id)
    BY <1>9, <1>16, <2>4, <2>6, <2>7, OwnTurn
  <2> QED BY <1>16, <2>5, <2>8
<1>20. /\ IsState(s) /\ ~ Failed(s) /\ s.rest = b /\ s.used = {"--part-id", "--end-time"}
       /\ s.unknown = << >>
       /\ s.values = Put(Put(<< >>, "--part-id", id), "--end-time", end)
  <2>1. r.rest = <<Word("-T")>> \o (<<Number(end)>> \o b)
    BY <1>19
  <2>2. "--end-time" \notin r.used
    BY <1>19
  <2> HIDE DEF b3, b4
  <2>3. /\ IsState(s) /\ ~ Failed(s) /\ s.rest = b /\ s.used = r.used \cup {"--end-time"}
        /\ s.unknown = r.unknown /\ s.values = Put(r.values, "--end-time", end)
    <3>3. PICK o \in DOMAIN PartIndex : o = "-T"
      BY <1>18
    <3>4. PICK name : name = PartIndex[o]
      OBVIOUS
    <3>5. name = "--end-time"
      BY <1>18, <3>3, <3>4
    <3>6. name \notin r.used
      BY <2>2, <3>5
    <3>7. r.rest = OneOption(o, end, b)
      BY <2>1, <3>3 DEF OneOption
    <3>8. b \in Seq(AnyWord)
      BY <1>1 DEF b
    <3>9. /\ IsState(s) /\ ~ Failed(s) /\ s.rest = b /\ s.used = r.used \cup {name}
          /\ s.unknown = r.unknown /\ s.values = Put(r.values, name, end)
      BY <1>19, <3>4, <3>6, <3>7, <3>8, OwnTurn
    <3> QED BY <3>5, <3>9
  <2> QED BY <1>19, <2>3
<1>21. Agree(c.values, s.values, id, end)
  BY <1>17, <1>18, <1>20 DEF Agree, Put
<1>22. \A name \in Known : name \in c.used <=> name \in s.used
  BY <1>17, <1>18, <1>20
<1> QED BY <1>1, <1>16, <1>17, <1>18, <1>20, <1>21, <1>22 DEF InStep, Same

(* When they are in step at one time, they are for the rest of the line.   *)
LEMMA GoOnTogether ==
  ASSUME NEW argv, NEW id, NEW end, NEW c, NEW q, IsState(c), IsState(q),
         NEW r, r = Turn(Partition, q), NEW s, s = Turn(Partition, r),
         InStep(argv, id, end, c, s),
         NEW t, t = ParseFrom(Coordinator, c), NEW u, u = ParseFrom(Partition, q)
  PROVE  Related(argv, id, end, t, u)
<1>1. Len(c.rest) \in Nat /\ Len(q.rest) \in Nat
  BY Lengths
<1>2. ASSUME NEW m \in Nat, Len(c.rest) <= m
      PROVE  \E f : /\ f[0] = c /\ t = f[m]
                    /\ \A n \in 1 .. m : f[n] = Turn(Coordinator, f[n - 1])
                    /\ \A n \in 0 .. m : After(c, f[n])
  BY <1>2, ParseSteps
<1>3. PICK k \in Nat, K \in Nat : K = k + 2 /\ Len(c.rest) <= k /\ Len(q.rest) <= K
  <2>1. PICK l \in Nat, m \in Nat : l = Len(c.rest) /\ m = Len(q.rest)
    BY <1>1
  <2>2. PICK a \in Nat, b \in Nat : a = l + m /\ b = (l + m) + 2
    <3>1. l + m \in Nat /\ (l + m) + 2 \in Nat
      OBVIOUS
    <3> QED BY <3>1, Zenon
  <2>3. l <= l + m /\ m <= (l + m) + 2
    OBVIOUS
  <2>4. PICK k \in Nat, K \in Nat : k = l + m /\ K = k + 2
    BY <2>2
  <2>5. l <= k /\ m <= K
    BY <2>3, <2>4
  <2> QED BY <2>1, <2>4, <2>5
<1>4. PICK f : /\ f[0] = c /\ t = f[k]
               /\ \A n \in 1 .. k : f[n] = Turn(Coordinator, f[n - 1])
               /\ \A n \in 0 .. k : After(c, f[n])
  BY <1>2, <1>3
<1>5. PICK g : /\ g[0] = q /\ u = g[k + 2]
               /\ \A n \in 1 .. k + 2 : g[n] = Turn(Partition, g[n - 1])
               /\ \A n \in 0 .. k + 2 : After(q, g[n])
  <2>1. PICK g : /\ g[0] = q /\ u = g[K]
                 /\ \A n \in 1 .. K : g[n] = Turn(Partition, g[n - 1])
                 /\ \A n \in 0 .. K : After(q, g[n])
    BY <1>3, ParseSteps
  <2> QED BY <1>3, <2>1
<1>6. Related(argv, id, end, f[0], g[2])
  <2>1. g[1] = Turn(Partition, q) /\ g[2] = Turn(Partition, g[1])
    <3>1. 1 \in 1 .. k + 2 /\ 2 \in 1 .. k + 2 /\ 1 - 1 = 0 /\ 2 - 1 = 1
      BY <1>3
    <3>2. g[1] = Turn(Partition, g[1 - 1]) /\ g[2] = Turn(Partition, g[2 - 1])
      BY <1>5, <3>1
    <3> QED BY <3>1, <3>2, <1>5
  <2>2. InStep(argv, id, end, c, g[2])
    BY <2>1
  <2> QED BY <1>4, <2>2 DEF Related
<1> DEFINE Bad == {n \in 0 .. k : ~ Related(argv, id, end, f[n], g[n + 2])}
<1>7. ASSUME Bad # {} PROVE FALSE
  <2>1. PICK n \in Bad : \A y \in Bad : n <= y
    <3>1. Bad \subseteq Nat
      OBVIOUS
    <3> HIDE DEF Bad
    <3> QED BY <1>7, <3>1, Least
  <2>2. n # 0
    <3>1. CASE n = 0
      <4>1. ~ Related(argv, id, end, f[0], g[0 + 2])
        BY <2>1, <3>1
      <4>2. 0 + 2 = 2
        OBVIOUS
      <4> QED BY <4>1, <4>2, <1>6
    <3> QED BY <3>1
  <2>3. n \in 1 .. k /\ n - 1 \in 0 .. k /\ ~ (n <= n - 1) /\ n \in 0 .. k
    BY <2>1, <2>2, <1>3
  <2>4. n + 2 \in 1 .. k + 2 /\ n + 2 \in 0 .. k + 2 /\ (n - 1) + 2 \in 0 .. k + 2
        /\ (n + 2) - 1 = (n - 1) + 2
    BY <2>3, <1>3
  <2>5. Related(argv, id, end, f[n - 1], g[(n - 1) + 2])
    BY <2>1, <2>3
  <2>6. IsState(f[n - 1]) /\ IsState(g[(n - 1) + 2])
    BY <1>4, <1>5, <2>3, <2>4 DEF After
  <2>7. f[n] = Turn(Coordinator, f[n - 1]) /\ g[n + 2] = Turn(Partition, g[(n - 1) + 2])
    <3>1. g[n + 2] = Turn(Partition, g[(n + 2) - 1])
      BY <1>5, <2>4
    <3> QED BY <1>4, <2>3, <2>4, <3>1
  <2>8. Related(argv, id, end, f[n], g[n + 2])
    BY <2>5, <2>6, <2>7, TurnRelated
  <2> QED BY <2>1, <2>8
<1>8. k \in 0 .. k
  BY <1>3
<1> QED BY <1>4, <1>5, <1>7, <1>8

(* So the whole lines are read in step.                                    *)
LEMMA ParsedTogether ==
  ASSUME NEW argv \in Seq(AnyWord), NEW id \in Int, NEW end \in Int,
         NEW c, c = Fresh(Preprocess(Coordinator, argv)),
         NEW q, q = Fresh(Preprocess(Partition, Given(id, end, argv))),
         NEW t, t = ParseFrom(Coordinator, c), NEW u, u = ParseFrom(Partition, q)
  PROVE  Related(argv, id, end, t, u)
<1>1. PICK r : r = Turn(Partition, q)
  OBVIOUS
<1>2. PICK s : s = Turn(Partition, r)
  OBVIOUS
<1>3. IsState(c) /\ IsState(q) /\ InStep(argv, id, end, c, s)
  BY <1>1, <1>2, StartTogether
<1> QED BY <1>1, <1>2, <1>3, GoOnTogether

(* How they end.                                                           *)
Outcome(argv, id, end, t, u) ==
  \/ Failed(u) /\ Uses(argv)
  \/ ~ Failed(u) /\ t.unknown = u.unknown /\ Agree(t.values, u.values, id, end)

(* Of the options that must be given the partition always has its own.     *)
LEMMA ValidatedTogether ==
  ASSUME NEW argv, NEW id, NEW end, NEW c, NEW q, Related(argv, id, end, c, q),
         NEW t, t = Validated(Coordinator, c), NEW u, u = Validated(Partition, q), ~ Failed(t)
  PROVE  Outcome(argv, id, end, t, u)
<1>1. \A name \in DOMAIN Coordinator.options : ~ Coordinator.options[name].required
  BY Tables, BothTables DEF Known
<1>2. t = c
  BY <1>1 DEF Validated
<1>3. ~ Failed(c)
  BY <1>2
<1>4. CASE Failed(q) /\ Uses(argv)
  <2>1. u = q
    BY <1>4 DEF Validated, Failed
  <2> QED BY <1>4, <2>1 DEF Outcome
<1>5. CASE InStep(argv, id, end, c, q)
  <2>1. /\ ~ Failed(q) /\ c.unknown = q.unknown /\ Own \subseteq q.used
        /\ Agree(c.values, q.values, id, end)
    BY <1>5 DEF InStep, Same
  <2>2. \A name \in DOMAIN Partition.options \ q.used : ~ Partition.options[name].required
    BY <2>1, Tables, BothTables
  <2>3. u = q
    BY <2>2 DEF Validated
  <2> QED BY <1>2, <2>1, <2>3 DEF Outcome
<1> QED BY <1>3, <1>4, <1>5 DEF Related

(* A line that cannot be parsed is none that Args makes something of.      *)
LEMMA ArgsFail ==
  ASSUME NEW p, NEW x, NEW t, t = ParseKnownArgs(p, x), Failed(t)
  PROVE  Failed(Args(p, x))
<1>1. Args(p, x) = [error |-> t.error]
  BY Zenon DEF Args, Failed
<1>2. PICK r : r = [error |-> t.error]
  OBVIOUS
<1>3. r.error = t.error
  BY <1>2
<1> QED BY <1>1, <1>2, <1>3, SameError

(* What they make of the same values is the same.                          *)
SameResult(there, here) ==
  LET t == ParseKnownArgs(Coordinator, there)
      u == ParseKnownArgs(Partition, here)
  IN /\ ~ Failed(t) /\ ~ Failed(u) /\ t.unknown = u.unknown
     /\ \A name \in Known : Get(Coordinator, t, name) = Get(Partition, u, name)

LEMMA ArgsTogether ==
  ASSUME NEW there, NEW here, SameResult(there, here)
  PROVE  Args(Coordinator, there) = Args(Partition, here)
<1>1. /\ "--num-threads" \in Known /\ "--part-threads" \in Known /\ "--cfg" \in Known
      /\ "--remote-port" \in Known /\ "--data-dir" \in Known /\ Flags \subseteq Known
  BY DEF Known, ArgsOptions
<1>2. /\ "--gui" \in Known /\ "--skip-part" \in Known /\ "--keep-poly" \in Known
      /\ "--log-handled-vehicles" \in Known /\ "--pin-to-cpu" \in Known
      /\ "--log-msg-num" \in Known /\ "--verbose" \in Known
  BY <1>1 DEF Flags
<1> QED BY <1>1, <1>2, Zenon DEF Args, Failed, SameResult

(* A partition, which is given the coordinator's line after its number and *)
(* the end time, understands all of it as the coordinator did, and these   *)
(* two as they were meant; or it ends, which only happens when one of the  *)
(* words of the line is an option that only partitions have, or hides one  *)
(* (startSim, Args, PartArgs::parse_known_args).                           *)
THEOREM SameUnderstanding ==
  ASSUME NEW argv \in Seq(AnyWord), NEW id \in Int, NEW end \in Int,
         Args(Coordinator, argv).error = ""
  PROVE  \/ Args(Partition, Given(id, end, argv)).error # "" /\ Uses(argv)
         \/ /\ Args(Partition, Given(id, end, argv)) = Args(Coordinator, argv)
            /\ Get(Partition, ParseKnownArgs(Partition, Given(id, end, argv)), "--part-id") = id
            /\ Get(Partition, ParseKnownArgs(Partition, Given(id, end, argv)), "--end-time") = end
<1>1. PICK x : x = Given(id, end, argv)
  OBVIOUS
<1>2. PICK c, q : /\ c = Fresh(Preprocess(Coordinator, argv))
                  /\ q = Fresh(Preprocess(Partition, x))
  OBVIOUS
<1>3. PICK t0, u0 : t0 = ParseFrom(Coordinator, c) /\ u0 = ParseFrom(Partition, q)
  OBVIOUS
<1>4. PICK t, u : t = Validated(Coordinator, t0) /\ u = Validated(Partition, u0)
  OBVIOUS
<1>5. t = ParseKnownArgs(Coordinator, argv) /\ u = ParseKnownArgs(Partition, x)
  BY <1>2, <1>3, <1>4 DEF ParseKnownArgs
<1>6. Related(argv, id, end, t0, u0)
  BY <1>1, <1>2, <1>3, ParsedTogether
<1>a. ~ Failed(Args(Coordinator, argv))
  BY Zenon DEF Failed
<1>7. ~ Failed(t)
  BY <1>5, <1>a, ArgsFail
<1>8. CASE Failed(u) /\ Uses(argv)
  <2>1. Failed(Args(Partition, x))
    BY <1>5, <1>8, ArgsFail
  <2>2. Args(Partition, x).error # ""
    BY <2>1, Zenon DEF Failed
  <2> QED BY <1>1, <1>8, <2>2, Zenon
<1>9. CASE /\ ~ Failed(u) /\ t.unknown = u.unknown
           /\ Agree(t.values, u.values, id, end)
  <2>1. \A name \in Known : Get(Coordinator, t, name) = Get(Partition, u, name)
    BY <1>9, BothTables DEF Get, Agree
  <2>2. Args(Partition, x) = Args(Coordinator, argv)
    <3>1. SameResult(argv, x)
      BY <1>5, <1>7, <1>9, <2>1, Zenon DEF SameResult
    <3> QED BY <3>1, ArgsTogether, Zenon
  <2>3. Get(Partition, u, "--part-id") = id /\ Get(Partition, u, "--end-time") = end
    BY <1>9, Tables DEF Get, Agree
  <2> QED BY <1>1, <1>5, <2>2, <2>3, Zenon
<1>10. Outcome(argv, id, end, t, u)
  BY <1>4, <1>6, <1>7, ValidatedTogether
<1> QED BY <1>8, <1>9, <1>10, Zenon DEF Outcome

-----------------------------------------------------------------------------


(* What is assumed about METIS and the lines, in pieces.                   *)
LEMMA LineIsWords ==
  ASSUME NEW l \in Line
  PROVE  l \in Seq(AnyWord)
BY FilesAssumption DEF FilesAssumption

LEMMA Asked ==
  ASSUME NEW l \in Line, NEW a, a = Args(Coordinator, l), ~ Failed(a)
  PROVE  /\ a.numThreads \in DOMAIN Actual /\ a.numThreads \in Nat
         /\ Actual[a.numThreads] \in 1 .. a.numThreads
<1>1. Args(Coordinator, l).error = ""
  BY Zenon DEF Failed
<1>2. Args(Coordinator, l).numThreads \in DOMAIN Actual
  BY <1>1, FilesAssumption, Zenon DEF FilesAssumption
<1>3. a.numThreads \in DOMAIN Actual
  BY <1>2, Zenon
<1> QED BY <1>3, FilesAssumption, Zenon DEF FilesAssumption

LEMMA Sizes ==
  \A n \in {0} \cup {Actual[m] : m \in DOMAIN Actual} : n \in Nat
<1>1. ASSUME NEW m \in DOMAIN Actual PROVE Actual[m] \in Nat
  <2>1. m \in Nat /\ Actual[m] \in 1 .. m
    BY FilesAssumption, Zenon DEF FilesAssumption
  <2> QED BY <2>1
<1> QED BY <1>1

(* What partArgs.json says.                                                *)
LEMMA Saved ==
  ASSUME NEW a, NEW r, r = CheckArgs(a)
  PROVE  r # Nothing /\ r.num_parts = a.numThreads
<1>1. r.num_parts = a.numThreads
  BY DEF CheckArgs
<1>2. "num_parts" \in DOMAIN r
  BY DEF CheckArgs
<1>3. DOMAIN Nothing = {}
  BY DEF Nothing
<1> QED BY <1>1, <1>2, <1>3

(* A program that runs, and its line.                                      *)
LEMMA Running ==
  ASSUME LineRead, stage # "idle"
  PROVE  /\ line \in Line /\ line \in Seq(AnyWord) /\ args = Args(Coordinator, line)
         /\ ~ Failed(args) /\ endTime \in Int
         /\ args.numThreads \in DOMAIN Actual /\ args.numThreads \in Nat
         /\ Actual[args.numThreads] \in 1 .. args.numThreads
<1>1. line \in Line /\ args = Args(Coordinator, line) /\ args.error = "" /\ endTime \in Int
  BY DEF LineRead
<1>2. ~ Failed(args)
  BY <1>1, Zenon DEF Failed
<1>3. line \in Seq(AnyWord)
  BY <1>1, LineIsWords
<1> QED BY <1>1, <1>2, <1>3, Asked

(* The first m numbers.                                                    *)
LEMMA HowMany ==
  ASSUME NEW m \in Nat
  PROVE  Cardinality(0 .. m - 1) = m
<1>1. Cardinality(0 .. m - 1) = IF 0 > m - 1 THEN 0 ELSE (m - 1) - 0 + 1
  BY FS_Interval
<1> QED BY <1>1

(* At first nothing is there.                                              *)
LEMMA Initially ==
  Init => IInv
<1> SUFFICES ASSUME Init PROVE IInv
  OBVIOUS
<1>1. LineRead
  BY DEF Init, LineRead
<1>2. OneCut
  BY DEF Init, OneCut, CutInto, Nothing
<1>3. Partitioning
  BY DEF Init, Partitioning
<1>4. Counted /\ Processes
  BY DEF Init, Counted, Processes
<1> QED BY <1>1, <1>2, <1>3, <1>4 DEF IInv

-----------------------------------------------------------------------------
(* Steps that leave the folder alone.                                      *)

LEMMA FolderKept ==
  ASSUME OneCut, folder' = folder
  PROVE  OneCut'
<1>1. PICK n \in {0} \cup {Actual[m] : m \in DOMAIN Actual} : CutInto(n)
  BY DEF OneCut
<1>2. CutInto(n)'
  BY <1>1 DEF CutInto
<1>3. folder' = [args |-> folder'.args, numParts |-> folder'.numParts, net |-> folder'.net,
                 data |-> folder'.data]
  BY DEF OneCut
<1> QED BY <1>2, <1>3 DEF OneCut

(* Steps before there are any processes.                                   *)
LEMMA NoProcesses ==
  ASSUME Counted, stage # "starting", UNCHANGED part, stage' # "starting"
  PROVE  Counted' /\ Processes'
<1>1. part' = << >>
  BY DEF Counted
<1>2. DOMAIN part' = {}
  BY <1>1
<1> QED BY <1>1, <1>2 DEF Counted, Processes

LEMMA LaunchStep ==
  ASSUME IInv, NEW l \in Line, Launch(l)
  PROVE  IInv'
<1>1. LineRead' /\ stage' \in {"idle", "parsed"}
  <2>1. PICK a : a = Args(Coordinator, l)
    OBVIOUS
  <2>2. CASE a.error # ""
    <3>1. UNCHANGED <<stage, coordinator>>
      BY <2>1, <2>2, Zenon DEF Launch
    <3> QED BY <3>1 DEF IInv, LineRead, coordinator, Launch
  <2>3. CASE a.error = ""
    <3>1. stage' = "parsed" /\ line' = l /\ args' = a /\ numThreads' = a.numThreads
          /\ endTime' = endTime
      BY <2>1, <2>3, Zenon DEF Launch
    <3>2. args'.error = ""
      BY <2>3, <3>1, Zenon
    <3> QED BY <2>1, <3>1, <3>2 DEF IInv, LineRead
  <2> QED BY <2>2, <2>3
<1>2. OneCut'
  BY FolderKept DEF IInv, Launch
<1>3. Partitioning'
  BY <1>1 DEF Partitioning
<1>4. Counted' /\ Processes'
  BY <1>1, NoProcesses DEF IInv, Launch
<1> QED BY <1>1, <1>2, <1>3, <1>4 DEF IInv

LEMMA ReadConfigStep ==
  ASSUME IInv, ReadConfig
  PROVE  IInv'
<1>1. stage' = IF args.skipPart THEN "partitioned" ELSE "createParts"
  BY DEF ReadConfig
<1>2. stage' \in {"partitioned", "createParts"} /\ (stage' = "partitioned" => args'.skipPart)
  BY <1>1 DEF ReadConfig
<1>3. LineRead'
  <2>1. endTime' \in Int
    BY FilesAssumption DEF FilesAssumption, ReadConfig
  <2> QED BY <1>2, <2>1 DEF IInv, LineRead, ReadConfig
<1>4. OneCut'
  BY FolderKept DEF IInv, ReadConfig
<1>5. Partitioning'
  BY <1>2 DEF Partitioning
<1>6. Counted' /\ Processes'
  BY <1>2, NoProcesses DEF IInv, ReadConfig
<1> QED BY <1>3, <1>4, <1>5, <1>6 DEF IInv

LEMMA ExitStep ==
  ASSUME IInv, Exit
  PROVE  IInv'
<1>1. LineRead'
  BY DEF IInv, LineRead, Exit, coordinator
<1>2. OneCut'
  BY FolderKept DEF IInv, Exit
<1>3. Partitioning'
  BY DEF Partitioning, Exit
<1>4. Counted' /\ Processes'
  BY NoProcesses DEF IInv, Exit
<1> QED BY <1>1, <1>2, <1>3, <1>4 DEF IInv

LEMMA WorkerStep ==
  ASSUME IInv, Worker
  PROVE  IInv'
<1>1. /\ stage' \in {"partitioned", "clearing"}
      /\ stage' = "partitioned" => folder'.args = CheckArgs(args')
  BY DEF Worker, coordinator
<1>2. LineRead'
  BY <1>1 DEF IInv, LineRead, Worker, coordinator
<1>3. OneCut'
  BY FolderKept DEF IInv, Worker
<1>4. Partitioning'
  BY <1>1 DEF Partitioning
<1>5. Counted' /\ Processes'
  BY <1>1, NoProcesses DEF IInv, Worker
<1> QED BY <1>2, <1>3, <1>4, <1>5 DEF IInv

LEMMA ClearedStep ==
  ASSUME IInv, Cleared
  PROVE  IInv'
<1>1. LineRead'
  BY DEF IInv, LineRead, Cleared, coordinator
<1>2. OneCut'
  BY FolderKept DEF IInv, Cleared
<1>3. Partitioning'
  BY DEF Partitioning, Cleared, FolderEmpty
<1>4. Counted' /\ Processes'
  BY NoProcesses DEF IInv, Cleared
<1> QED BY <1>1, <1>2, <1>3, <1>4 DEF IInv
-----------------------------------------------------------------------------
(* The steps of createParts.py on the folder.                              *)

Folder(a, k, f, d) == [args |-> a, numParts |-> k, net |-> f, data |-> d]

(* A change of one of its files.                                           *)
LEMMA Changes ==
  ASSUME NEW f, f = Folder(f.args, f.numParts, f.net, f.data), NEW x, NEW g
  PROVE  /\ g = [f EXCEPT !.args = x] => g = Folder(x, f.numParts, f.net, f.data)
         /\ g = [f EXCEPT !.numParts = x] => g = Folder(f.args, x, f.net, f.data)
         /\ g = [f EXCEPT !.net = x] => g = Folder(f.args, f.numParts, x, f.data)
         /\ g = [f EXCEPT !.data = x] => g = Folder(f.args, f.numParts, f.net, x)
BY DEF Folder

LEMMA Fields ==
  ASSUME NEW a, NEW k, NEW f, NEW d, NEW g, g = Folder(a, k, f, d)
  PROVE  /\ g.args = a /\ g.numParts = k /\ g.net = f /\ g.data = d
         /\ g = [args |-> g.args, numParts |-> g.numParts, net |-> g.net, data |-> g.data]
BY DEF Folder

LEMMA FolderIs ==
  ASSUME OneCut
  PROVE  folder = Folder(folder.args, folder.numParts, folder.net, folder.data)
BY DEF OneCut, Folder

(* Nothing that is removed can be of another cut.                          *)
LEMMA Less ==
  ASSUME OneCut, NEW a, NEW k, NEW f, NEW d, folder' = Folder(a, k, f, d),
         a \in {Nothing, folder.args}, k \in {Nothing, folder.numParts},
         DOMAIN f \subseteq DOMAIN folder.net, \A i \in DOMAIN f : f[i] = folder.net[i],
         DOMAIN d \subseteq DOMAIN folder.data, \A i \in DOMAIN d : d[i] = folder.data[i]
  PROVE  OneCut'
<1>1. PICK n \in {0} \cup {Actual[m] : m \in DOMAIN Actual} : CutInto(n)
  BY DEF OneCut
<1>2. /\ folder'.args = a /\ folder'.numParts = k /\ folder'.net = f /\ folder'.data = d
      /\ folder' = [args |-> folder'.args, numParts |-> folder'.numParts, net |-> folder'.net,
                    data |-> folder'.data]
  BY Fields
<1>3. CutInto(n)'
  BY <1>1, <1>2 DEF CutInto
<1> QED BY <1>2, <1>3 DEF OneCut

LEMMA RemoveFileStep ==
  ASSUME IInv, RemoveFile
  PROVE  IInv'
<1>1. LineRead'
  BY DEF IInv, LineRead, RemoveFile, coordinator
<1>2. OneCut'
  <2>1. OneCut
    BY DEF IInv
  <2>2. CASE folder' = [folder EXCEPT !.args = Nothing]
    <3>1. folder' = Folder(Nothing, folder.numParts, folder.net, folder.data)
      BY <2>1, <2>2, FolderIs, Changes
    <3> QED BY <2>1, <3>1, Less
  <2>3. CASE folder' = [folder EXCEPT !.numParts = Nothing]
    <3>1. folder' = Folder(folder.args, Nothing, folder.net, folder.data)
      BY <2>1, <2>3, FolderIs, Changes
    <3> QED BY <2>1, <3>1, Less
  <2>4. ASSUME NEW i, folder' = [folder EXCEPT !.net = Without(@, i)] PROVE OneCut'
    <3>1. PICK f : f = Without(folder.net, i)
      OBVIOUS
    <3>2. folder' = Folder(folder.args, folder.numParts, f, folder.data)
      BY <2>1, <2>4, <3>1, FolderIs, Changes
    <3>3. DOMAIN f \subseteq DOMAIN folder.net /\ \A j \in DOMAIN f : f[j] = folder.net[j]
      BY <3>1 DEF Without
    <3> QED BY <2>1, <3>2, <3>3, Less
  <2>5. ASSUME NEW i, folder' = [folder EXCEPT !.data = Without(@, i)] PROVE OneCut'
    <3>1. PICK f : f = Without(folder.data, i)
      OBVIOUS
    <3>2. folder' = Folder(folder.args, folder.numParts, folder.net, f)
      BY <2>1, <2>5, <3>1, FolderIs, Changes
    <3>3. DOMAIN f \subseteq DOMAIN folder.data /\ \A j \in DOMAIN f : f[j] = folder.data[j]
      BY <3>1 DEF Without
    <3> QED BY <2>1, <3>2, <3>3, Less
  <2> QED BY <2>2, <2>3, <2>4, <2>5 DEF RemoveFile
<1>3. Partitioning'
  BY DEF Partitioning, RemoveFile
<1>4. Counted' /\ Processes'
  BY NoProcesses DEF IInv, RemoveFile
<1> QED BY <1>1, <1>2, <1>3, <1>4 DEF IInv

(* What is written is of the cut into numParts partitions.                 *)
LEMMA More ==
  ASSUME IInv, stage \in {"metis", "networks", "data"},
         numParts' = Actual[args.numThreads], CutInto(numParts)'
  PROVE  \E n \in {0} \cup {Actual[m] : m \in DOMAIN Actual} : CutInto(n)'
<1>1. args.numThreads \in DOMAIN Actual
  BY Running DEF IInv
<1>2. PICK n : n = Actual[args.numThreads]
  OBVIOUS
<1>3. n \in {0} \cup {Actual[m] : m \in DOMAIN Actual}
  BY <1>1, <1>2
<1>4. CutInto(n)'
  BY <1>2 DEF CutInto
<1> QED BY <1>3, <1>4

LEMMA ConvertToMetisStep ==
  ASSUME IInv, ConvertToMetis
  PROVE  IInv'
<1>1. PICK n : n = Actual[args.numThreads]
  OBVIOUS
<1>2. /\ folder.args = Nothing /\ DOMAIN folder.net = {} /\ DOMAIN folder.data = {}
  BY DEF IInv, Partitioning, ConvertToMetis, FolderEmpty
<1>3. folder' = Folder(Nothing, <<n>>, folder.net, folder.data)
  <2>1. folder' = [folder EXCEPT !.numParts = <<n>>]
    BY <1>1 DEF ConvertToMetis
  <2> QED BY <1>2, <2>1, FolderIs, Changes DEF IInv
<1>4. /\ folder'.args = Nothing /\ folder'.numParts = <<n>> /\ folder'.net = folder.net
      /\ folder'.data = folder.data
      /\ folder' = [args |-> folder'.args, numParts |-> folder'.numParts, net |-> folder'.net,
                    data |-> folder'.data]
  BY <1>3, Fields
<1>5. numParts' = n /\ stage' = "networks" /\ args' = args
  BY <1>1 DEF ConvertToMetis, coordinator
<1>6. CutInto(numParts)'
  BY <1>2, <1>4, <1>5 DEF CutInto
<1>7. LineRead'
  BY DEF IInv, LineRead, ConvertToMetis, coordinator
<1>8. OneCut'
  BY <1>1, <1>4, <1>5, <1>6, More DEF OneCut, ConvertToMetis
<1>9. Partitioning'
  BY <1>1, <1>2, <1>4, <1>5, <1>6 DEF Partitioning
<1>10. Counted' /\ Processes'
  BY NoProcesses DEF IInv, ConvertToMetis
<1> QED BY <1>7, <1>8, <1>9, <1>10 DEF IInv
(* Between metis and partArgs.json.                                        *)
LEMMA Writing ==
  ASSUME IInv, stage \in {"networks", "data", "saving"}
  PROVE  /\ numParts = Actual[args.numThreads] /\ numParts \in Nat /\ numParts >= 1
         /\ folder.args = Nothing /\ CutInto(numParts)
         /\ folder = Folder(folder.args, folder.numParts, folder.net, folder.data)
<1>1. LineRead /\ stage # "idle"
  BY DEF IInv
<1>2. numParts = Actual[args.numThreads] /\ folder.args = Nothing /\ CutInto(numParts)
  BY DEF IInv, Partitioning
<1>3. numParts \in Nat /\ numParts >= 1
  BY <1>1, <1>2, Running
<1> QED BY <1>2, <1>3, FolderIs DEF IInv

LEMMA ProcessPartitionStep ==
  ASSUME IInv, NEW i, ProcessPartition(i)
  PROVE  IInv'
<1>1. /\ numParts = Actual[args.numThreads] /\ numParts \in Nat /\ numParts >= 1
      /\ folder.args = Nothing /\ CutInto(numParts)
      /\ folder = Folder(folder.args, folder.numParts, folder.net, folder.data)
  BY Writing DEF ProcessPartition
<1>2. PICK f : f = Put(folder.net, i, numParts)
  OBVIOUS
<1>3. /\ DOMAIN f = DOMAIN folder.net \cup {i} /\ f[i] = numParts
      /\ \A j \in DOMAIN folder.net : j # i => f[j] = folder.net[j]
  BY <1>2 DEF Put
<1>4. folder' = Folder(folder.args, folder.numParts, f, folder.data)
  <2>1. folder' = [folder EXCEPT !.net = f]
    BY <1>2 DEF ProcessPartition
  <2> QED BY <1>1, <2>1, Changes
<1>5. /\ folder'.args = Nothing /\ folder'.numParts = folder.numParts /\ folder'.net = f
      /\ folder'.data = folder.data
      /\ folder' = [args |-> folder'.args, numParts |-> folder'.numParts, net |-> folder'.net,
                    data |-> folder'.data]
  BY <1>1, <1>4, Fields
<1>6. /\ numParts' = numParts /\ stage' \in {"networks", "data"} /\ args' = args
      /\ i \in 0 .. numParts - 1 /\ DOMAIN folder.data = {}
  BY DEF ProcessPartition, coordinator, IInv, Partitioning
<1>7. CutInto(numParts)'
  BY <1>1, <1>3, <1>5, <1>6 DEF CutInto
<1>8. LineRead'
  BY <1>6 DEF IInv, LineRead, ProcessPartition, coordinator
<1>9. OneCut'
  BY <1>1, <1>5, <1>6, <1>7, More DEF OneCut, ProcessPartition
<1>10. Partitioning'
  <2>1. \E k \in 0 .. numParts' - 1 : DOMAIN folder'.data = 0 .. k - 1
    <3>1. 0 \in 0 .. numParts' - 1 /\ 0 .. 0 - 1 = {}
      BY <1>1, <1>6
    <3> QED BY <1>5, <1>6, <3>1
  <2> QED BY <1>1, <1>5, <1>6, <1>7, <2>1 DEF Partitioning
<1>11. Counted' /\ Processes'
  BY <1>6, NoProcesses DEF IInv, ProcessPartition
<1> QED BY <1>8, <1>9, <1>10, <1>11 DEF IInv

LEMMA WritePartDataStep ==
  ASSUME IInv, WritePartData
  PROVE  IInv'
<1>1. /\ numParts = Actual[args.numThreads] /\ numParts \in Nat /\ numParts >= 1
      /\ folder.args = Nothing /\ CutInto(numParts)
      /\ folder = Folder(folder.args, folder.numParts, folder.net, folder.data)
  BY Writing DEF WritePartData
<1>2. PICK k \in 0 .. numParts - 1 : DOMAIN folder.data = 0 .. k - 1
  BY DEF IInv, Partitioning, WritePartData
<1>3. Cardinality(DOMAIN folder.data) = k /\ k \in Nat
  BY <1>1, <1>2, HowMany
<1>4. PICK f : f = Put(folder.data, k, numParts)
  OBVIOUS
<1>5. /\ DOMAIN f = DOMAIN folder.data \cup {k} /\ f[k] = numParts
      /\ \A j \in DOMAIN folder.data : j # k => f[j] = folder.data[j]
  BY <1>4 DEF Put
<1>6. DOMAIN f = 0 .. (k + 1) - 1
  BY <1>2, <1>3, <1>5
<1>7. folder' = Folder(folder.args, folder.numParts, folder.net, f)
  <2>1. folder' = [folder EXCEPT !.data = f]
    BY <1>3, <1>4 DEF WritePartData
  <2>2. folder = Folder(folder.args, folder.numParts, folder.net, folder.data)
    BY <1>1
  <2> QED BY <2>1, <2>2, Changes, SMTT(60)
<1>8. /\ folder'.args = Nothing /\ folder'.numParts = folder.numParts
      /\ folder'.net = folder.net /\ folder'.data = f
      /\ folder' = [args |-> folder'.args, numParts |-> folder'.numParts, net |-> folder'.net,
                    data |-> folder'.data]
  BY <1>1, <1>7, Fields
<1>9. /\ numParts' = numParts /\ args' = args
      /\ stage' = IF DOMAIN f = 0 .. numParts - 1 THEN "saving" ELSE "data"
  BY <1>8 DEF WritePartData, coordinator
<1>10. CutInto(numParts)'
  <2>1. k \in 0 .. numParts - 1 /\ DOMAIN folder.data \subseteq 0 .. numParts - 1
    BY <1>1, <1>2
  <2> QED BY <1>1, <1>5, <1>8, <1>9, <2>1 DEF CutInto
<1>11. LineRead'
  BY <1>9 DEF IInv, LineRead, WritePartData, coordinator
<1>12. OneCut'
  BY <1>1, <1>8, <1>9, <1>10, More DEF OneCut, WritePartData
<1>13. Partitioning'
  <2>1. ASSUME stage' = "data"
        PROVE  \E m \in 0 .. numParts' - 1 : DOMAIN folder'.data = 0 .. m - 1
    <3>1. k + 1 # numParts
      BY <1>6, <1>9, <2>1
    <3>2. k + 1 \in 0 .. numParts - 1
      BY <1>1, <1>2, <3>1
    <3> QED BY <1>6, <1>8, <1>9, <3>2
  <2>2. stage' \in {"saving", "data"}
    BY <1>9
  <2> QED BY <1>1, <1>8, <1>9, <1>10, <2>1, <2>2 DEF Partitioning
<1>14. Counted' /\ Processes'
  BY <1>9, NoProcesses DEF IInv, WritePartData
<1> QED BY <1>11, <1>12, <1>13, <1>14 DEF IInv

LEMMA SaveArgsStep ==
  ASSUME IInv, SaveArgs
  PROVE  IInv'
<1>1. /\ numParts = Actual[args.numThreads] /\ numParts \in Nat /\ numParts >= 1
      /\ folder.args = Nothing /\ CutInto(numParts)
      /\ folder = Folder(folder.args, folder.numParts, folder.net, folder.data)
  BY Writing DEF SaveArgs
<1>2. PICK a : a = CheckArgs(args)
  OBVIOUS
<1>3. folder' = Folder(a, folder.numParts, folder.net, folder.data)
  <2>1. folder' = [folder EXCEPT !.args = a]
    BY <1>2 DEF SaveArgs
  <2> QED BY <1>1, <2>1, Changes
<1>4. /\ folder'.args = a /\ folder'.numParts = folder.numParts
      /\ folder'.net = folder.net /\ folder'.data = folder.data
      /\ folder' = [args |-> folder'.args, numParts |-> folder'.numParts, net |-> folder'.net,
                    data |-> folder'.data]
  BY <1>3, Fields
<1>5. a # Nothing /\ a.num_parts = args.numThreads
  BY <1>2, Saved
<1>6. args.numThreads \in DOMAIN Actual
  BY Running DEF IInv, SaveArgs
<1>7. PICK n : n = numParts
  OBVIOUS
<1>8. CutInto(n)'
  BY <1>1, <1>4, <1>5, <1>6, <1>7 DEF CutInto
<1>9. n \in {0} \cup {Actual[m] : m \in DOMAIN Actual}
  BY <1>1, <1>6, <1>7
<1>10. OneCut'
  BY <1>4, <1>8, <1>9 DEF OneCut
<1>11. LineRead'
  BY DEF IInv, LineRead, SaveArgs, coordinator
<1>12. Partitioning'
  BY <1>2, <1>4 DEF Partitioning, SaveArgs, coordinator
<1>13. Counted' /\ Processes'
  BY NoProcesses DEF IInv, SaveArgs
<1> QED BY <1>10, <1>11, <1>12, <1>13 DEF IInv
-----------------------------------------------------------------------------
(* The processes.                                                          *)

RealNumThreads ==
  IF args.numThreads > 1 /\ folder.numParts # Nothing THEN folder.numParts[1]
  ELSE args.numThreads

(* There will be a number of them.                                         *)
LEMMA ANumber ==
  ASSUME LineRead, OneCut, stage # "idle"
  PROVE  RealNumThreads \in Nat
<1>1. PICK n \in {0} \cup {Actual[m] : m \in DOMAIN Actual} : CutInto(n)
  BY DEF OneCut
<1>2. n \in Nat
  BY Sizes
<1>3. folder.numParts # Nothing => folder.numParts[1] = n
  BY <1>1 DEF CutInto
<1>4. args.numThreads \in Nat
  BY Running
<1> QED BY <1>2, <1>3, <1>4 DEF RealNumThreads

LEMMA LoadRealNumThreadsStep ==
  ASSUME IInv, LoadRealNumThreads
  PROVE  IInv'
<1>1. RealNumThreads \in Nat
  BY ANumber DEF IInv, LoadRealNumThreads
<1>2. numThreads = args.numThreads
  BY DEF IInv, LineRead, LoadRealNumThreads
<1>3. /\ stage' = "starting" /\ numThreads' = RealNumThreads /\ part' = << >> /\ folder' = folder
      /\ args' = args
  BY <1>2 DEF LoadRealNumThreads, RealNumThreads, IInv, Counted
<1>4. Counted'
  <2>1. DOMAIN part' = 0 .. 0 - 1 /\ 0 \in 0 .. numThreads'
    BY <1>1, <1>3
  <2> QED BY <1>3, <2>1 DEF Counted, RealNumThreads
<1>5. Processes'
  BY <1>3 DEF Processes
<1>6. LineRead'
  BY DEF IInv, LineRead, LoadRealNumThreads
<1>7. OneCut'
  BY <1>3, FolderKept DEF IInv
<1>8. Partitioning'
  BY DEF IInv, Partitioning, LoadRealNumThreads
<1> QED BY <1>4, <1>5, <1>6, <1>7, <1>8 DEF IInv

(* While they are started, and do what they do, only they change.          *)
LEMMA OthersKept ==
  ASSUME IInv, stage = "starting", UNCHANGED <<stage, coordinator, numParts, folder>>
  PROVE  LineRead' /\ OneCut' /\ Partitioning'
<1>1. LineRead'
  BY DEF IInv, LineRead, coordinator
<1>2. OneCut'
  BY FolderKept DEF IInv
<1>3. Partitioning'
  BY DEF IInv, Partitioning, coordinator
<1> QED BY <1>1, <1>2, <1>3

(* So far as many have been started.                                       *)
LEMMA SoMany ==
  ASSUME IInv, stage = "starting"
  PROVE  /\ numThreads = RealNumThreads /\ numThreads \in Nat
         /\ \E m \in 0 .. numThreads :
              DOMAIN part = 0 .. m - 1 /\ Cardinality(DOMAIN part) = m /\ m \in Nat
<1>1. numThreads = RealNumThreads /\ numThreads \in Nat
  BY ANumber DEF IInv, Counted, RealNumThreads
<1>2. PICK m \in 0 .. numThreads : DOMAIN part = 0 .. m - 1
  BY DEF IInv, Counted
<1>3. Cardinality(DOMAIN part) = m /\ m \in Nat
  BY <1>1, <1>2, HowMany
<1> QED BY <1>1, <1>2, <1>3

LEMMA SpawnStep ==
  ASSUME IInv, Spawn
  PROVE  IInv'
<1>1. LineRead' /\ OneCut' /\ Partitioning'
  BY OthersKept DEF Spawn
<1>2. /\ numThreads \in Nat
  BY SoMany DEF Spawn
<1>3. PICK m \in 0 .. numThreads :
        DOMAIN part = 0 .. m - 1 /\ Cardinality(DOMAIN part) = m /\ m \in Nat
  BY SoMany DEF Spawn
<1>4. PICK q : q = [line |-> Forwarded(m), state |-> "started", args |-> << >>, data |-> 0]
  OBVIOUS
<1>5. m < numThreads /\ part' = Put(part, m, q)
  BY <1>3, <1>4 DEF Spawn
<1>6. /\ DOMAIN part' = DOMAIN part \cup {m} /\ part'[m] = q
      /\ \A j \in DOMAIN part : j # m => part'[j] = part[j]
  BY <1>5 DEF Put
<1>7. DOMAIN part' = 0 .. (m + 1) - 1 /\ m + 1 \in 0 .. numThreads
  BY <1>2, <1>3, <1>5, <1>6
<1>8. Counted'
  BY <1>7 DEF IInv, Counted, Spawn, coordinator
<1>9. Process(m, q)'
  BY <1>4 DEF Process, Forwarded, Spawn, coordinator
<1>10. ASSUME NEW j \in DOMAIN part, j # m PROVE Process(j, part[j])'
  <2>1. PICK r : r = part[j]
    OBVIOUS
  <2>2. Process(j, r)
    BY <2>1 DEF IInv, Processes
  <2>3. Process(j, r)'
    BY <2>2 DEF Process, Forwarded, Spawn, coordinator
  <2>4. part'[j] = r
    BY <1>6, <1>10, <2>1
  <2> QED BY <2>3, <2>4
<1>11. Processes'
  <2> SUFFICES ASSUME NEW j \in DOMAIN part' PROVE Process(j, part[j])'
    BY DEF Processes
  <2>1. CASE j = m
    BY <1>6, <1>9, <2>1
  <2>2. CASE j # m
    BY <1>6, <1>10, <2>2
  <2> QED BY <2>1, <2>2
<1> QED BY <1>1, <1>8, <1>11 DEF IInv
(* A partition has understood its line, or has ended for a reason.         *)
LEMMA Comes ==
  ASSUME IInv, stage # "idle", NEW i \in Int
  PROVE  \/ /\ Failed(Args(Partition, Forwarded(i)))
            /\ \E k \in DOMAIN line : OwnOption(line[k])
         \/ /\ Args(Partition, Forwarded(i)) = args /\ ~ Failed(args)
            /\ Get(Partition, ParseKnownArgs(Partition, Forwarded(i)), "--part-id") = i
            /\ Get(Partition, ParseKnownArgs(Partition, Forwarded(i)), "--end-time") = endTime
<1>1. line \in Seq(AnyWord) /\ args = Args(Coordinator, line) /\ ~ Failed(args)
      /\ endTime \in Int
  BY Running DEF IInv
<1>2. Forwarded(i) = Given(i, endTime, line)
  BY Zenon DEF Forwarded, Given
<1>3. Args(Coordinator, line).error = ""
  BY <1>1, Zenon DEF Failed
<1>4. \/ Args(Partition, Given(i, endTime, line)).error # "" /\ Uses(line)
      \/ /\ Args(Partition, Given(i, endTime, line)) = Args(Coordinator, line)
         /\ Get(Partition, ParseKnownArgs(Partition, Given(i, endTime, line)), "--part-id") = i
         /\ Get(Partition, ParseKnownArgs(Partition, Given(i, endTime, line)), "--end-time")
              = endTime
  <2>1. line \in Seq(AnyWord)
    BY <1>1
  <2>2. endTime \in Int
    BY <1>1
  <2> QED BY <1>3, <2>1, <2>2, SameUnderstanding, ZenonT(60)
<1> QED BY <1>1, <1>2, <1>4, Zenon DEF Failed, Uses

(* What the process is afterwards.                                         *)
Loading(a, id) == a.error = "" /\ id \in DOMAIN folder.data \cap DOMAIN folder.net

Becomes(q, a, id, e) ==
  IF Loading(a, id)
  THEN [q EXCEPT !.state = "loaded", !.data = folder.data[id],
                 !.args = [args |-> a, id |-> id, endTime |-> e]]
  ELSE [q EXCEPT !.state = "exited"]

LEMMA BecomesLoaded ==
  ASSUME NEW q, q = [line |-> q.line, state |-> q.state, args |-> q.args, data |-> q.data],
         NEW a, NEW id, NEW e, Loading(a, id), NEW r, r = Becomes(q, a, id, e)
  PROVE  r = [line |-> q.line, state |-> "loaded", data |-> folder.data[id],
              args |-> [args |-> a, id |-> id, endTime |-> e]]
BY DEF Becomes

LEMMA BecomesExited ==
  ASSUME NEW q, q = [line |-> q.line, state |-> q.state, args |-> q.args, data |-> q.data],
         NEW a, NEW id, NEW e, ~ Loading(a, id), NEW r, r = Becomes(q, a, id, e)
  PROVE  r = [line |-> q.line, state |-> "exited", data |-> q.data, args |-> q.args]
BY DEF Becomes

LEMMA PartitionMainStep ==
  ASSUME IInv, NEW i \in DOMAIN part, PartitionMain(i)
  PROVE  IInv'
<1>1. stage = "starting"
  BY DEF IInv, Counted
<1>2. LineRead' /\ OneCut' /\ Partitioning'
  BY <1>1, OthersKept DEF PartitionMain
<1>3. PICK q : q = part[i]
  OBVIOUS
<1>4. Process(i, q)
  BY <1>3 DEF IInv, Processes
<1>5. PICK a, id, e :
        /\ a = Args(Partition, Forwarded(i))
        /\ id = Get(Partition, ParseKnownArgs(Partition, Forwarded(i)), "--part-id")
        /\ e = Get(Partition, ParseKnownArgs(Partition, Forwarded(i)), "--end-time")
  OBVIOUS
<1>6. PICK r : r = Becomes(q, a, id, e)
  OBVIOUS
<1>7. part' = [part EXCEPT ![i] = r]
  <2>1. q.line = Forwarded(i)
    BY <1>4 DEF Process
  <2> QED BY <1>3, <1>5, <1>6, <2>1, Zenon DEF PartitionMain, Becomes, Loading
<1>8. DOMAIN part' = DOMAIN part /\ part'[i] = r /\ \A j \in DOMAIN part : j # i => part'[j] = part[j]
  BY <1>7
<1>9. Counted'
  BY <1>1, <1>8 DEF IInv, Counted, PartitionMain, coordinator
<1>10. i \in Int
  <2>1. PICK m \in Nat : DOMAIN part = 0 .. m - 1
    BY <1>1, SoMany
  <2> QED BY <2>1
<1>11. Process(i, r)
  <2>1. CASE Loading(a, id)
    <3>1. ~ Failed(a)
      BY <2>1, Zenon DEF Loading, Failed
    <3>2. a = args /\ id = i /\ e = endTime
      BY <1>1, <1>5, <1>10, <3>1, Comes
    <3>3. r = [line |-> q.line, state |-> "loaded", data |-> folder.data[i],
               args |-> [args |-> args, id |-> i, endTime |-> endTime]]
      BY <1>4, <1>6, <2>1, <3>2, BecomesLoaded DEF Process
    <3>4. i \in DOMAIN folder.data \cap DOMAIN folder.net
      BY <2>1, <3>2 DEF Loading
    <3> QED BY <1>4, <3>3, <3>4 DEF Process
  <2>2. CASE ~ Loading(a, id)
    <3>1. r = [line |-> q.line, state |-> "exited", data |-> q.data, args |-> q.args]
      BY <1>4, <1>6, <2>2, BecomesExited DEF Process
    <3>2. \/ i \notin DOMAIN folder.data \cap DOMAIN folder.net
          \/ \E k \in DOMAIN line : OwnOption(line[k])
      <4>1. CASE a = args /\ ~ Failed(args) /\ id = i
        BY <2>2, <4>1, Zenon DEF Loading, Failed
      <4> QED BY <1>1, <1>5, <1>10, <4>1, Comes
    <3> QED BY <1>4, <3>1, <3>2 DEF Process
  <2> QED BY <2>1, <2>2
<1>12. ASSUME NEW j, NEW p, Process(j, p) PROVE Process(j, p)'
  BY <1>12 DEF Process, Forwarded, PartitionMain, coordinator
<1>13. Processes'
  <2> SUFFICES ASSUME NEW j \in DOMAIN part' PROVE Process(j, part[j])'
    BY DEF Processes
  <2>1. CASE j = i
    <3>1. Process(i, r)'
      BY <1>11, <1>12
    <3> QED BY <1>8, <2>1, <3>1
  <2>2. CASE j # i
    <3>1. PICK p : p = part[j]
      OBVIOUS
    <3>2. Process(j, p)
      BY <1>8, <3>1 DEF IInv, Processes
    <3>3. Process(j, p)'
      BY <1>12, <3>2
    <3>4. part'[j] = p
      BY <1>8, <2>2, <3>1
    <3> QED BY <3>3, <3>4
  <2> QED BY <2>1, <2>2
<1> QED BY <1>2, <1>9, <1>13 DEF IInv

LEMMA EndStep ==
  ASSUME IInv, End
  PROVE  IInv'
<1>1. LineRead'
  BY DEF IInv, LineRead, End, coordinator
<1>2. OneCut'
  BY FolderKept DEF IInv, End
<1>3. Partitioning'
  BY DEF Partitioning, End
<1>4. Counted' /\ Processes'
  BY DEF Counted, Processes, End
<1> QED BY <1>1, <1>2, <1>3, <1>4 DEF IInv

LEMMA NothingStep ==
  ASSUME IInv, UNCHANGED vars
  PROVE  IInv'
<1>1. LineRead'
  BY DEF IInv, LineRead, vars, coordinator
<1>2. OneCut'
  BY FolderKept DEF IInv, vars
<1>3. Partitioning'
  BY DEF IInv, Partitioning, FolderEmpty, CutInto, vars, coordinator
<1>4. Counted'
  BY DEF IInv, Counted, vars, coordinator
<1>5. Processes'
  BY DEF IInv, Processes, Process, Forwarded, vars, coordinator
<1> QED BY <1>1, <1>2, <1>3, <1>4, <1>5 DEF IInv

-----------------------------------------------------------------------------
(* IInv is an invariant of the start-up, for every set of command lines,   *)
(* whatever METIS answers, and however often the program is started and    *)
(* interrupted (main, createParts.py, startSim).                           *)
THEOREM Invariance == Spec => []IInv
<1>1. Init => IInv
  BY Initially
<1>2. IInv /\ [Next]_vars => IInv'
  <2> SUFFICES ASSUME IInv, [Next]_vars PROVE IInv'
    OBVIOUS
  <2>1. ASSUME NEW l \in Line, Launch(l) PROVE IInv'
    BY <2>1, LaunchStep
  <2>2. CASE ReadConfig
    BY <2>2, ReadConfigStep
  <2>3. CASE Exit
    BY <2>3, ExitStep
  <2>4. CASE CreateParts
    <3>1. CASE Worker
      BY <3>1, WorkerStep
    <3>2. CASE RemoveFile
      BY <3>2, RemoveFileStep
    <3>3. CASE Cleared
      BY <3>3, ClearedStep
    <3>4. CASE ConvertToMetis
      BY <3>4, ConvertToMetisStep
    <3>5. ASSUME NEW i, ProcessPartition(i) PROVE IInv'
      BY <3>5, ProcessPartitionStep
    <3>6. CASE WritePartData
      BY <3>6, WritePartDataStep
    <3>7. CASE SaveArgs
      BY <3>7, SaveArgsStep
    <3> QED BY <2>4, <3>1, <3>2, <3>3, <3>4, <3>5, <3>6, <3>7 DEF CreateParts
  <2>5. CASE LoadRealNumThreads
    BY <2>5, LoadRealNumThreadsStep
  <2>6. CASE Spawn
    BY <2>6, SpawnStep
  <2>7. CASE End
    BY <2>7, EndStep
  <2>8. CASE Over
    BY <2>8, NothingStep DEF Over
  <2>9. ASSUME NEW i \in DOMAIN part, PartitionMain(i) PROVE IInv'
    BY <2>9, PartitionMainStep
  <2>10. CASE UNCHANGED vars
    BY <2>10, NothingStep
  <2> QED BY <2>1, <2>2, <2>3, <2>4, <2>5, <2>6, <2>7, <2>8, <2>9, <2>10 DEF Next
<1> QED BY <1>1, <1>2, PTL DEF Spec

(* A partition understands its line as the coordinator does, has its own   *)
(* number and the end time, and exits only for want of files or because of *)
(* an option that is not the coordinator's (startSim, PartArgs).           *)
THEOREM LinesUnderstood == Spec => []LineUnderstood
<1>1. IInv => LineUnderstood
  <2> SUFFICES ASSUME IInv, NEW i \in DOMAIN part
               PROVE  /\ part[i].state = "loaded" =>
                           part[i].args = [args |-> args, id |-> i, endTime |-> endTime]
                      /\ part[i].state = "exited" =>
                           \/ i \notin DOMAIN folder.data \cap DOMAIN folder.net
                           \/ \E k \in DOMAIN line : OwnOption(line[k])
    BY DEF LineUnderstood
  <2> QED BY DEF IInv, Processes, Process
<1> QED BY <1>1, Invariance, PTL

(* What loads has been cut together: data of as many partitions as run,    *)
(* and no neighbour that is not there, through all that the folder has     *)
(* been through (createParts.py, loadRealNumThreads, startSim).            *)
THEOREM AlwaysCutTogether == Spec => []CutTogether
<1>1. ASSUME IInv, AllLoaded, args.skipPart => AlreadyRun /\ args.numThreads > 1,
             NEW i \in DOMAIN part
      PROVE  /\ part[i].data = numThreads
             /\ Neighbors[part[i].data][part[i].args.id] \subseteq DOMAIN part
  <2>1. stage = "starting"
    BY <1>1 DEF AllLoaded
  <2>2. numThreads = RealNumThreads /\ numThreads \in Nat
    BY <1>1, <2>1, SoMany
  <2>3. DOMAIN part = 0 .. numThreads - 1
    <3>1. PICK m \in 0 .. numThreads :
            DOMAIN part = 0 .. m - 1 /\ Cardinality(DOMAIN part) = m /\ m \in Nat
      BY <1>1, <2>1, SoMany
    <3>2. m = numThreads
      BY <1>1, <3>1 DEF AllLoaded
    <3> QED BY <3>1, <3>2
  <2>4. ASSUME NEW j \in DOMAIN part
        PROVE  j \in DOMAIN folder.data /\ part[j].data = folder.data[j] /\ part[j].args.id = j
    <3>1. Process(j, part[j]) /\ part[j].state = "loaded"
      BY <1>1 DEF IInv, Processes, AllLoaded
    <3> QED BY <3>1 DEF Process
  <2>5. PICK n \in {0} \cup {Actual[m] : m \in DOMAIN Actual} : CutInto(n)
    BY <1>1 DEF IInv, OneCut
  <2>6. ASSUME NEW j \in DOMAIN part PROVE part[j].data = n /\ j < n
    <3>1. n \in Nat
      BY Sizes
    <3>2. j \in 0 .. n - 1 /\ folder.data[j] = n
      BY <2>4, <2>5 DEF CutInto
    <3> QED BY <2>4, <3>1, <3>2
  <2>7. /\ args.numThreads \in DOMAIN Actual /\ args.numThreads \in Nat
        /\ Actual[args.numThreads] \in 1 .. args.numThreads
    BY <1>1, <2>1, Running DEF IInv
  <2>8. folder.args # Nothing
    <3>1. CASE args.skipPart
      BY <1>1, <3>1 DEF AlreadyRun
    <3>2. CASE ~ args.skipPart
      BY <1>1, <2>1, <3>2, Saved DEF IInv, Partitioning
    <3> QED BY <3>1, <3>2
  <2>9. folder.args.num_parts \in DOMAIN Actual /\ n = Actual[folder.args.num_parts]
    BY <2>5, <2>8 DEF CutInto
  <2>10. numThreads = n
    <3>1. CASE args.numThreads > 1 /\ folder.numParts # Nothing
      BY <2>2, <2>5, <3>1 DEF RealNumThreads, CutInto
    <3>2. CASE ~ (args.numThreads > 1 /\ folder.numParts # Nothing)
      <4>1. ~ args.skipPart
        BY <1>1, <3>2 DEF AlreadyRun
      <4>2. n = Actual[args.numThreads]
        BY <1>1, <2>1, <2>9, <4>1, Saved DEF IInv, Partitioning
      <4>3. numThreads = args.numThreads
        BY <2>2, <3>2 DEF RealNumThreads
      <4>4. n \in 1 .. numThreads
        BY <2>7, <4>2, <4>3
      <4>5. numThreads - 1 \in DOMAIN part
        BY <2>2, <2>3, <4>4
      <4>6. numThreads - 1 < n
        BY <2>6, <4>5
      <4> QED BY <2>2, <4>4, <4>6
    <3> QED BY <3>1, <3>2
  <2>11. part[i].data = n /\ part[i].args.id = i /\ i \in 0 .. n - 1
    BY <2>3, <2>4, <2>6, <2>10
  <2>12. Neighbors[n][i] \subseteq 0 .. n - 1
    BY <2>9, <2>11, FilesAssumption, Zenon DEF FilesAssumption
  <2> QED BY <2>3, <2>10, <2>11, <2>12
<1>2. IInv => CutTogether
  BY <1>1 DEF CutTogether
<1> QED BY <1>2, Invariance, PTL
=============================================================================
