------------------------------ MODULE Startup ------------------------------
(***************************************************************************)
(* What happens before the first barrier: main parses its command line and *)
(* reads the configuration, createParts.py cuts the network into files of  *)
(* the data folder or finds that it has done so before, and startSim       *)
(* starts a process for each partition, which parses its command line and  *)
(* loads its files.  The files stay, and the user starts the program again *)
(* with another command line, also after it has been interrupted.          *)
(*                                                                         *)
(* METIS is external: asked for n partitions of the network it gives       *)
(* Actual[n], of which i borders on Neighbors[Actual[n]][i].               *)
(***************************************************************************)
EXTENDS Arguments, FiniteSets

CONSTANTS
  Line,        \* the command lines that the user may give
  EndTimes,    \* the end times that the configuration may have, -1 for none
  Actual,      \* numbers of partitions with edges, by number asked for
  Neighbors,   \* the neighbours of each partition, by number of partitions
  MaxRuns      \* bound on how often the user starts the program

(* METIS is asked for as many partitions as a line says and gives no more  *)
(* than that; neighbours are partitions.                                   *)
ASSUME FilesAssumption ==
  /\ Line \subseteq Seq(AnyWord) /\ EndTimes \subseteq Int
  /\ \A n \in DOMAIN Actual : n \in Nat /\ Actual[n] \in 1 .. n
  /\ \A l \in Line :
       Args(Coordinator, l).error = "" => Args(Coordinator, l).numThreads \in DOMAIN Actual
  /\ \A n \in DOMAIN Actual : \A i \in 0 .. Actual[n] - 1 :
       Neighbors[Actual[n]][i] \subseteq 0 .. Actual[n] - 1

Nothing == << >>

VARIABLES
  runs,      \* how often the program has been started
  stage,     \* how far it is
  line, args, endTime, numThreads,   \* of ParallelSim
  numParts,  \* num_parts of partition_network
  folder,    \* the data folder: partArgs.json, numParts.txt, networks and data
  part       \* the partition processes

coordinator == <<line, args, endTime, numThreads>>
vars == <<runs, stage, coordinator, numParts, folder, part>>

Init ==
  /\ runs = 0 /\ stage = "idle"
  /\ line = << >> /\ args = << >> /\ endTime = -1 /\ numThreads = 0
  /\ numParts = 0
  /\ folder = [args |-> Nothing, numParts |-> Nothing, net |-> << >>, data |-> << >>]
  /\ part = << >>

(* createParts.py compares what it is called with to what it was.          *)
CheckArgs(a) == [num_parts |-> a.numThreads, cfg_file |-> a.cfg, keep_poly |-> a.keepPoly]

Forced(a) == \E i \in DOMAIN a.partitioningArgs : a.partitioningArgs[i] = Word("--force")

-----------------------------------------------------------------------------
(* The coordinator up to the partitioning.                                 *)

Launch(l) ==
  /\ stage = "idle" /\ runs < MaxRuns
  /\ runs' = runs + 1
  /\ LET a == Args(Coordinator, l)
     IN IF a.error # "" THEN UNCHANGED <<stage, coordinator>>
        ELSE /\ stage' = "parsed"
             /\ line' = l /\ args' = a /\ numThreads' = a.numThreads
             /\ UNCHANGED endTime
  /\ UNCHANGED <<numParts, folder, part>>

(* The constructor of ParallelSim, and getFilePaths.                       *)
ReadConfig ==
  /\ stage = "parsed"
  /\ endTime' \in EndTimes
  /\ stage' = IF args.skipPart THEN "partitioned" ELSE "createParts"
  /\ UNCHANGED <<runs, line, args, numThreads, numParts, folder, part>>

Exit ==
  /\ stage \in {"parsed", "createParts", "clearing", "metis", "networks", "data", "saving"}
  /\ stage' = "idle"
  /\ UNCHANGED <<runs, coordinator, numParts, folder, part>>

-----------------------------------------------------------------------------
(* createParts.py.  Exit may come between any two of its steps.            *)

Worker ==
  /\ stage = "createParts"
  /\ stage' = IF folder.args = CheckArgs(args) /\ ~Forced(args) THEN "partitioned" ELSE "clearing"
  /\ UNCHANGED <<runs, coordinator, numParts, folder, part>>

Without(f, i) == [j \in DOMAIN f \ {i} |-> f[j]]

(* The files of the folder are removed one by one, in any order.           *)
RemoveFile ==
  /\ stage = "clearing"
  /\ \/ folder.args # Nothing /\ folder' = [folder EXCEPT !.args = Nothing]
     \/ folder.numParts # Nothing /\ folder' = [folder EXCEPT !.numParts = Nothing]
     \/ \E i \in DOMAIN folder.net : folder' = [folder EXCEPT !.net = Without(@, i)]
     \/ \E i \in DOMAIN folder.data : folder' = [folder EXCEPT !.data = Without(@, i)]
  /\ UNCHANGED <<runs, stage, coordinator, numParts, part>>

FolderEmpty ==
  folder.args = Nothing /\ folder.numParts = Nothing /\ DOMAIN folder.net \cup DOMAIN folder.data = {}

Cleared ==
  /\ stage = "clearing" /\ FolderEmpty
  /\ stage' = "metis"
  /\ UNCHANGED <<runs, coordinator, numParts, folder, part>>

ConvertToMetis ==
  /\ stage = "metis"
  /\ numParts' = Actual[args.numThreads]
  /\ folder' = [folder EXCEPT !.numParts = <<Actual[args.numThreads]>>]
  /\ stage' = "networks"
  /\ UNCHANGED <<runs, coordinator, part>>

(* _process_partition, by the threads of a pool.                           *)
ProcessPartition(i) ==
  /\ stage = "networks" /\ i \in (0 .. numParts - 1) \ DOMAIN folder.net
  /\ folder' = [folder EXCEPT !.net = Put(@, i, numParts)]
  /\ stage' = IF DOMAIN folder'.net = 0 .. numParts - 1 THEN "data" ELSE stage
  /\ UNCHANGED <<runs, coordinator, numParts, part>>

(* generate_partition_data, one partition after the other.                 *)
WritePartData ==
  /\ stage = "data"
  /\ folder' = [folder EXCEPT !.data = Put(@, Cardinality(DOMAIN @), numParts)]
  /\ stage' = IF DOMAIN folder'.data = 0 .. numParts - 1 THEN "saving" ELSE stage
  /\ UNCHANGED <<runs, coordinator, numParts, part>>

SaveArgs ==
  /\ stage = "saving"
  /\ folder' = [folder EXCEPT !.args = CheckArgs(args)]
  /\ stage' = "partitioned"
  /\ UNCHANGED <<runs, coordinator, numParts, part>>

-----------------------------------------------------------------------------
(* startSim.                                                               *)

(* A faulty startSim that believes its command line.                       *)
LoadNothing ==
  /\ stage = "partitioned" /\ stage' = "starting"
  /\ UNCHANGED <<runs, coordinator, numParts, folder, part>>

LoadRealNumThreads ==
  /\ stage = "partitioned"
  /\ numThreads' = IF numThreads > 1 /\ folder.numParts # Nothing THEN folder.numParts[1] ELSE numThreads
  /\ stage' = "starting"
  /\ UNCHANGED <<runs, line, args, endTime, numParts, folder, part>>

Forwarded(i) == <<Word("-P"), Number(i), Word("-T"), Number(endTime)>> \o line

Spawn ==
  /\ stage = "starting" /\ Cardinality(DOMAIN part) < numThreads
  /\ LET i == Cardinality(DOMAIN part)
     IN part' = Put(part, i, [line |-> Forwarded(i), state |-> "started", args |-> << >>, data |-> 0])
  /\ UNCHANGED <<runs, stage, coordinator, numParts, folder>>

(* main of the partition: parse, make the options, load the data.          *)
PartitionMain(i) ==
  /\ part[i].state = "started"
  /\ LET s == ParseKnownArgs(Partition, part[i].line)
         a == Args(Partition, part[i].line)
         id == Get(Partition, s, "--part-id")
         loads == a.error = "" /\ id \in DOMAIN folder.data \cap DOMAIN folder.net
     IN part' = [part EXCEPT ![i] =
          IF loads
          THEN [@ EXCEPT !.state = "loaded", !.data = folder.data[id],
                         !.args = [args |-> a, id |-> id, endTime |-> Get(Partition, s, "--end-time")]]
          ELSE [@ EXCEPT !.state = "exited"]]
  /\ UNCHANGED <<runs, stage, coordinator, numParts, folder>>

(* The simulation, and the end of all processes (ParallelSim).             *)
End ==
  /\ stage = "starting" /\ Cardinality(DOMAIN part) = numThreads
  /\ \A i \in DOMAIN part : part[i].state # "started"
  /\ stage' = "idle" /\ part' = << >>
  /\ UNCHANGED <<runs, coordinator, numParts, folder>>

Over == stage = "idle" /\ runs = MaxRuns /\ UNCHANGED vars

CreateParts ==
  \/ Worker \/ RemoveFile \/ Cleared \/ ConvertToMetis
  \/ \E i \in 0 .. numParts - 1 : ProcessPartition(i)
  \/ WritePartData \/ SaveArgs

Next ==
  \/ \E l \in Line : Launch(l)
  \/ ReadConfig \/ Exit \/ CreateParts
  \/ LoadRealNumThreads \/ Spawn \/ End \/ Over
  \/ \E i \in DOMAIN part : PartitionMain(i)

Spec == Init /\ [][Next]_vars

-----------------------------------------------------------------------------
(* Correctness.                                                            *)

AllLoaded ==
  /\ stage = "starting" /\ Cardinality(DOMAIN part) = numThreads
  /\ \A i \in DOMAIN part : part[i].state = "loaded"

(* What --skip-part asks for: "needs to already have run the program       *)
(* without this option before" (args.hpp:49), and to its end.              *)
AlreadyRun == folder.args # Nothing /\ folder.numParts # Nothing

(* When all the partitions load their data, they have been cut together    *)
(* and nobody has a neighbour that is not there, whatever the folder has   *)
(* been through before.  One line is left out: -N 1 --skip-part does not   *)
(* ask how many there are (startSim, _check_args, partition_network).      *)
CutTogether ==
  AllLoaded /\ (args.skipPart => AlreadyRun /\ args.numThreads > 1) =>
    \A i \in DOMAIN part :
      /\ part[i].data = numThreads
      /\ Neighbors[part[i].data][part[i].args.id] \subseteq DOMAIN part

(* A partition understands its line as the coordinator does, and has its   *)
(* own number and the end time of the configuration; or it exits, which    *)
(* for want of files or because the line uses one of the options that are  *)
(* only for the partitions, be it for createParts.py after the "--"        *)
(* (startSim, PartArgs::parse_known_args).                                 *)
LineUnderstood ==
  \A i \in DOMAIN part :
    /\ part[i].state = "loaded" => part[i].args = [args |-> args, id |-> i, endTime |-> endTime]
    /\ part[i].state = "exited" =>
         \/ i \notin DOMAIN folder.data \cap DOMAIN folder.net
         \/ \E k \in DOMAIN line : OwnOption(line[k])
=============================================================================
