----------------------------- MODULE StartupInv -----------------------------
(***************************************************************************)
(* The inductive invariant of Startup.  The program may be interrupted at  *)
(* any step of createParts.py and be started again with another line: what *)
(* lasts is that all that is in the folder comes from one cut (OneCut).    *)
(***************************************************************************)
EXTENDS Startup

(* The line of the program that runs, and how it has been understood.      *)
LineRead ==
  /\ endTime \in Int
  /\ stage # "idle" => line \in Line /\ args = Args(Coordinator, line) /\ args.error = ""
  /\ stage \notin {"idle", "starting"} => numThreads = args.numThreads

(* What is left in the folder comes from a cut into n partitions, and n is *)
(* what METIS gave for the number in partArgs.json, if that is there.      *)
CutInto(n) ==
  /\ folder.numParts \in {Nothing, <<n>>}
  /\ \A i \in DOMAIN folder.net : i \in 0 .. n - 1 /\ folder.net[i] = n
  /\ \A i \in DOMAIN folder.data : i \in 0 .. n - 1 /\ folder.data[i] = n
  /\ folder.args # Nothing =>
       folder.args.num_parts \in DOMAIN Actual /\ n = Actual[folder.args.num_parts]

OneCut ==
  /\ folder = [args |-> folder.args, numParts |-> folder.numParts, net |-> folder.net,
               data |-> folder.data]
  /\ \E n \in {0} \cup {Actual[m] : m \in DOMAIN Actual} : CutInto(n)

(* createParts.py makes the files in an empty folder and writes            *)
(* partArgs.json last; without --skip-part the simulation starts only when *)
(* that says what the line says.                                           *)
Partitioning ==
  /\ stage = "metis" => FolderEmpty
  /\ stage \in {"networks", "data", "saving"} =>
       folder.args = Nothing /\ numParts = Actual[args.numThreads] /\ CutInto(numParts)
  /\ stage = "networks" => DOMAIN folder.data = {}
  /\ stage = "data" => \E k \in 0 .. numParts - 1 : DOMAIN folder.data = 0 .. k - 1
  /\ stage \in {"partitioned", "starting"} /\ ~args.skipPart => folder.args = CheckArgs(args)

(* How many partitions there will be, and how many have been started.      *)
Counted ==
  /\ stage # "starting" => part = << >>
  /\ stage = "starting" =>
       /\ numThreads = IF args.numThreads > 1 /\ folder.numParts # Nothing
                       THEN folder.numParts[1] ELSE args.numThreads
       /\ \E m \in 0 .. numThreads : DOMAIN part = 0 .. m - 1

(* A process has the line it was started with, and what it has loaded is   *)
(* what is in the folder under its number.                                 *)
Process(i, q) ==
  /\ q = [line |-> q.line, state |-> q.state, args |-> q.args, data |-> q.data]
  /\ q.line = Forwarded(i)
  /\ q.state = "loaded" =>
       /\ i \in DOMAIN folder.data \cap DOMAIN folder.net
       /\ q.data = folder.data[i]
       /\ q.args = [args |-> args, id |-> i, endTime |-> endTime]
  /\ q.state = "exited" =>
       \/ i \notin DOMAIN folder.data \cap DOMAIN folder.net
       \/ \E k \in DOMAIN line : OwnOption(line[k])

Processes == \A i \in DOMAIN part : Process(i, part[i])

IInv == LineRead /\ OneCut /\ Partitioning /\ Counted /\ Processes
=============================================================================
