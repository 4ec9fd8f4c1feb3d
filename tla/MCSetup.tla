------------------------------- MODULE MCSetup -------------------------------
(* The parts that turn data from one form into another, each by itself: a   *)
(* program edits documents, a file is written and read, routes are cut, the *)
(* program is started several times over the same data folder, and a stub   *)
(* and a handler exchange messages.                                         *)
EXTENDS XmlTree, StartupInv, RouteSplit, Messages

VARIABLES
  active,
  edited,
  heap, file, error, phase

editing   == <<edited>>
files     == <<heap, file, error, phase>>
starting  == <<runs, stage, line, args, endTime, numThreads, numParts, folder, part>>

MCDoc == {1, 2}
MCNode == 3 .. 14

-----------------------------------------------------------------------------
Edit == INSTANCE XmlEdit WITH
  heap <- edited, Node <- 3 .. 8, MaxNodes <- 3, AttrValue <- {<<"0">>},
  Label <- {[kind |-> "element", value |-> <<"a">>]}

(* Three pieces in the root element, or in the elements they make. The     *)
(* ampersand of the first begins no entity.                                *)
Piece == {
  <<"&", "b">>, <<" ">>, <<"&", "amp", ";">>, <<"&", "#", "10", ";">>, <<"&", "#", "13", ";">>,
  <<"<![CDATA[", "&", "]]>">>, <<"<!--", "CR", "-->">>, <<"<!", "b", ">">>,
  <<"<", "b", " ", "k", "=", "'", "&", "lt", ";", "\"", "'", "/>">>,
  <<"<", "b", ">">>, <<"<", "/", "b", ">">>, <<"<", "/", "a", ">">>}

Document(x, y, z) == <<"<?", "b", "?>", "LF", "<", "a", ">">> \o x \o y \o z \o <<"<", "/", "a", ">">>

Files == INSTANCE XmlFile WITH
  Writer <- 1, Reader <- 2, Name <- {"a", "b", "k"}, MaxDepth <- 4,
  File <- {Document(x, y, z) : x, y, z \in Piece}

(* Edge b is a border edge, x and y are inside the two partitions.         *)
Turns(n, here, there) == [i \in 1 .. n |-> IF i % 2 = 1 THEN here ELSE there]

MCEdges == [p \in 0 .. 1 |-> IF p = 0 THEN {"b", "x"} ELSE {"b", "y"}]
MCRoute ==
  UNION {[1 .. n -> {"b", "x", "y"}] : n \in 1 .. 5}
    \cup {Turns(n, "x", "y") : n \in 17 .. 22} \cup {Turns(n, "y", "x") : n \in 17 .. 22}
    \cup {<<"b">> \o Turns(n, "x", "y") : n \in 17 .. 22}

MCLine == {
  <<Word("-N"), Number(3), Word("-W"), Word("--")>>,
  <<Word("-N"), Number(3), Word("--"), Word("--force")>>,
  <<Word("-N"), Number(2)>>,
  <<Word("--num-threads=2"), Word("--skip-part"), Word("x")>>,
  <<Word("-N"), Number(1), Word("--skip-part"), Word("-vW")>>,
  <<Word("-N"), Number(2), Word("--"), Word("-T"), Number(4)>>,
  <<Word("-N"), Word("--gui"), Word("-vT")>>,
  <<Word("-N"), Word("x")>>}

MCEndTimes == {-1, 9}
MCActual == <<1, 2, 3, 3>>

MCNeighbors == <<0 :> {}, 0 :> {1} @@ 1 :> {0}, 0 :> {1} @@ 1 :> {0, 2} @@ 2 :> {1}>>

MCUndashed == {"x"}
MCDashed == {"-W", "--", "--force"}
MCLetters == "-vT" :> <<"-v", "-T">> @@ "-vW" :> <<"-v", "-W">>
MCAssigned == "--num-threads=2" :> <<Word("--num-threads"), Number(2)>>

(* One name begins another; a list has none, one or two of them.           *)
MCId == {<<"v">>, <<"v", "w">>}
MCLaneIndex == {0, 4}
MCReal == {"speed", "position"}
MCFound == {<< >>, <<<<"v">>>>, <<<<"v", "w">>, <<"v">>>>}

-----------------------------------------------------------------------------
MCInit ==
  /\ active \in {"edit", "files", "routes", "start", "talk"}
  /\ Edit!Init /\ Init /\ MsgInit
  /\ Files!Init /\ (active # "files" => file = Document(<<" ">>, <<" ">>, <<" ">>))
  /\ RouteInit /\ (active # "routes" => route = <<"b">>)

MCNext ==
  \/ active = "edit" /\ Edit!Next /\ UNCHANGED <<active, files, split, starting, messages>>
  \/ active = "files" /\ Files!Next /\ UNCHANGED <<active, editing, split, starting, messages>>
  \/ active = "routes" /\ RouteNext /\ UNCHANGED <<active, editing, files, starting, messages>>
  \/ active = "start" /\ Next /\ UNCHANGED <<active, editing, files, split, messages>>
  \/ active = "talk" /\ MsgNext /\ UNCHANGED <<active, editing, files, split, starting>>

MCSpec == MCInit /\ [][MCNext]_<<active, editing, files, split, starting, messages>>

WellLinked       == Edit!WellLinked
ImplementsForest == Edit!ImplementsForest
RoundTrip        == Files!RoundTrip
CutShortNoticed  == Files!CutShortNoticed
NothingLeftOver  == Files!NothingLeftOver
=============================================================================
