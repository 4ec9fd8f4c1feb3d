----------------------------- MODULE Arguments -----------------------------
(***************************************************************************)
(* How the two programs understand a command line: argparse::              *)
(* ArgumentParser::parse_known_args with the options that Args and         *)
(* PartArgs define, and what Args makes of the result.                     *)
(*                                                                         *)
(* A line is a sequence of words.  A word that is a number is the number   *)
(* with a tag; of a word that is none of the options it matters whether it *)
(* begins with a dash, whether it is "--name=value", and whether it is     *)
(* several letters behind one dash.                                        *)
(***************************************************************************)
EXTENDS Integers, Sequences

Word(text) == [text |-> text, number |-> << >>]
Number(n)  == [text |-> "number", number |-> <<n>>]

CONSTANTS
  Undashed,   \* the words that begin with no dash
  Dashed,     \* the other words that do
  Letters,    \* what the words of several letters stand for
  Assigned    \* what the words with an assignment stand for

(* Functions: one with a value put in, and two together.                   *)
Put(f, x, value) == [y \in DOMAIN f \cup {x} |-> IF y = x THEN value ELSE f[y]]
Together(f, g)   == [y \in DOMAIN f \cup DOMAIN g |-> IF y \in DOMAIN f THEN f[y] ELSE g[y]]

-----------------------------------------------------------------------------
(* The options.                                                            *)

Flag        == [args |-> 0, number |-> FALSE, required |-> FALSE, default |-> <<FALSE>>]
Integral(n) == [args |-> 1, number |-> TRUE, required |-> FALSE, default |-> <<n>>]
Text(t)     == [args |-> 1, number |-> FALSE, required |-> FALSE, default |-> <<Word(t)>>]

Flags == {"--help", "--version", "--gui", "--skip-part", "--keep-poly", "--pin-to-cpu",
          "--log-handled-vehicles", "--log-msg-num", "--verbose"}

(* The options of the coordinator; -v was first the option for the version.*)
ArgsOptions ==
  [name \in Flags \cup {"--cfg", "--num-threads", "--part-threads", "--remote-port",
                        "--data-dir"} |->
    CASE name = "--cfg"          -> Text("simpleNet.sumocfg")
      [] name = "--num-threads"  -> Integral(4)
      [] name = "--part-threads" -> Integral(8)
      [] name = "--remote-port"  -> Integral(-1)
      [] name = "--data-dir"     -> Text("data")
      [] OTHER                   -> Flag]

PartOptions ==
  [name \in {"--part-id", "--end-time"} |->
    IF name = "--end-time" THEN Integral(-1)
    ELSE [Integral(0) EXCEPT !.required = TRUE, !.default = << >>]]

ArgsIndex ==
  [name \in DOMAIN ArgsOptions \cup {"-h", "-c", "-N", "-v"} |->
    CASE name = "-h" -> "--help"
      [] name = "-c" -> "--cfg"
      [] name = "-N" -> "--num-threads"
      [] name = "-v" -> "--verbose"
      [] OTHER       -> name]

PartIndex ==
  [name \in DOMAIN PartOptions \cup {"-P", "-T"} |->
    CASE name = "-P" -> "--part-id" [] name = "-T" -> "--end-time" [] OTHER -> name]

Coordinator == [options |-> ArgsOptions, index |-> ArgsIndex]
Partition   == [options |-> Together(ArgsOptions, PartOptions),
                index |-> Together(ArgsIndex, PartIndex)]

AnyWord ==
  [text : {"number"} \cup Undashed \cup DOMAIN Partition.index \cup Dashed \cup DOMAIN Letters
            \cup DOMAIN Assigned,
   number : Seq(Int)]

(* A word with an assignment is no option, and its two halves are words; a *)
(* number begins with no dash.                                             *)
ASSUME WordsAssumption ==
  /\ \A t \in DOMAIN Assigned :
       /\ t \notin DOMAIN Partition.index
       /\ Assigned[t] \in Seq(AnyWord) /\ Len(Assigned[t]) = 2
  /\ \A t \in DOMAIN Letters : Letters[t] \in Seq(STRING)
  /\ "number" \notin Dashed \cup DOMAIN Letters \cup DOMAIN Assigned

-----------------------------------------------------------------------------
(* Parsing.                                                                *)

(* Options begin with a dash, whichever program's they are.                *)
IsOptional(w) ==
  w.text \in DOMAIN Partition.index \cup Dashed \cup DOMAIN Letters \cup DOMAIN Assigned

Expanded(p, w) ==
  IF w.text \in DOMAIN Assigned /\ Assigned[w.text][1].text \in DOMAIN p.index
  THEN Assigned[w.text] ELSE <<w>>

(* What becomes of the last n words of the line.                           *)
Preprocess(p, line) ==
  LET last[n \in 0 .. Len(line)] ==
        IF n = 0 THEN << >> ELSE Expanded(p, line[Len(line) - n + 1]) \o last[n - 1]
  IN last[Len(line)]

(* s.rest is what is left of the line.                                     *)
Throw(s, what)        == [s EXCEPT !.error = what, !.rest = << >>]
Drop(s)               == [s EXCEPT !.rest = Tail(@)]
Mark(s, name)         == [s EXCEPT !.used = @ \cup {name}]
Store(s, name, value) == [s EXCEPT !.values = Put(@, name, value)]
Unknown(s, w)         == [s EXCEPT !.unknown = Append(@, w)]

(* Whether an option has been given before; a faulty parser that forgets.  *)
NeverUsed(s, name) == FALSE
IsUsed(s, name) == name \in s.used

(* Argument::consume.                                                      *)
Consume(p, s, name) ==
  LET o == p.options[name]
      w == s.rest[1]
      t == Mark(s, name)
  IN IF IsUsed(s, name) THEN Throw(s, "Duplicate argument")
     ELSE IF name \in {"--help", "--version"} THEN Throw(s, "exit")
     ELSE IF o.args = 0 THEN Store(t, name, TRUE)
     ELSE IF s.rest = << >> \/ IsOptional(w)
          THEN IF o.default # << >> THEN t ELSE Throw(s, "Too few arguments")
     ELSE IF o.number /\ w.number = << >> THEN Throw(s, "pattern does not match to integer")
     ELSE Drop(Store(t, name, IF o.number THEN w.number[1] ELSE w))

(* The letters of one word, until one is unknown: then the word is passed  *)
(* on, and the letters before it have had their effect.                    *)
Letter(p, s, letters, n, w) ==
  IF s.error # "" \/ \E i \in 1 .. n - 1 : letters[i] \notin DOMAIN p.index THEN s
  ELSE IF letters[n] \in DOMAIN p.index THEN Consume(p, s, p.index[letters[n]])
  ELSE Unknown(s, w)

Compound(p, s, letters, w) ==
  LET after[n \in 0 .. Len(letters)] ==
        IF n = 0 THEN s ELSE Letter(p, after[n - 1], letters, n, w)
  IN after[Len(letters)]

(* One turn of the loop over the words.                                    *)
Turn(p, s) ==
  LET w == s.rest[1]
      t == Drop(s)
  IN IF s.rest = << >> THEN s
     ELSE IF w.text \in DOMAIN p.index THEN Consume(p, t, p.index[w.text])
     ELSE IF w.text \in DOMAIN Letters THEN Compound(p, t, Letters[w.text], w)
     ELSE Unknown(t, w)

ParseFrom(p, s) ==
  LET after[n \in 0 .. Len(s.rest)] == IF n = 0 THEN s ELSE Turn(p, after[n - 1])
  IN after[Len(s.rest)]

Validated(p, s) ==
  IF s.error = "" /\ \E name \in DOMAIN p.options \ s.used : p.options[name].required
  THEN Throw(s, "required") ELSE s

Fresh(rest) ==
  [rest |-> rest, values |-> << >>, used |-> {}, unknown |-> << >>, error |-> ""]

ParseKnownArgs(p, line) == Validated(p, ParseFrom(p, Fresh(Preprocess(p, line))))

Get(p, s, name) == IF name \in DOMAIN s.values THEN s.values[name] ELSE p.options[name].default[1]

-----------------------------------------------------------------------------
(* What Args makes of it.                                                  *)

Pipe(words) == CHOOSE i \in 1 .. Len(words) + 1 :
  /\ i = Len(words) + 1 \/ words[i] = Word("--")
  /\ \A j \in 1 .. i - 1 : words[j] # Word("--")

Args(p, line) ==
  LET s == ParseKnownArgs(p, line)
      pipe == Pipe(s.unknown)
      At(name) == Get(p, s, name)
  IN IF s.error # "" THEN [error |-> s.error]
     ELSE IF At("--num-threads") <= 0 \/ At("--part-threads") <= 0 THEN [error |-> "wrong number"]
     ELSE [error |-> "",
           cfg |-> At("--cfg"), numThreads |-> At("--num-threads"),
           partitioningThreads |-> At("--part-threads"), remotePort |-> At("--remote-port"),
           gui |-> At("--gui"), skipPart |-> At("--skip-part"), keepPoly |-> At("--keep-poly"),
           pinToCpu |-> At("--log-handled-vehicles"), logHandledVehicles |-> At("--pin-to-cpu"),
           logMsgNum |-> At("--log-msg-num"), dataDir |-> At("--data-dir"),
           verbose |-> At("--verbose"),
           sumoArgs |-> SubSeq(s.unknown, 1, pipe - 1),
           partitioningArgs |-> SubSeq(s.unknown, pipe + 1, Len(s.unknown))]

(* Words that mean more to a partition than to the coordinator.            *)
Parts(w) == {w} \cup
  IF w.text \in DOMAIN Assigned THEN {Assigned[w.text][1], Assigned[w.text][2]} ELSE {}

HasOwn(letters) == \E i \in DOMAIN letters : letters[i] \in DOMAIN PartIndex

IsOwn(text) ==
  text \in DOMAIN PartIndex \/ (text \in DOMAIN Letters /\ HasOwn(Letters[text]))

OwnOption(w) == \E u \in Parts(w) : IsOwn(u.text)
=============================================================================
