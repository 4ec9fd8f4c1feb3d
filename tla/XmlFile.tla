------------------------------ MODULE XmlFile ------------------------------
(***************************************************************************)
(* A file that one program reads, writes again and may fail to finish      *)
(* writing, and another program reads: the way the configuration and the   *)
(* routes take from the partitioning to the partitions.                    *)
(***************************************************************************)
EXTENDS XmlText

CONSTANTS
  File,             \* the contents that the file may have
  Writer, Reader    \* their documents

VARIABLES
  heap,
  file,    \* the contents of the file
  error,   \* the error of the last LoadFile
  phase    \* where the two programs stand

vars == <<heap, file, error, phase>>

Init ==
  /\ heap = XMLDocuments
  /\ file \in File
  /\ error = ""
  /\ phase = "found"

Load(d) ==
  LET s == LoadFile(heap, d, file)
  IN heap' = s.h /\ error' = s.error /\ UNCHANGED file

Read == phase = "found" /\ phase' = "read" /\ Load(Writer)

Save ==
  /\ phase = "read" /\ error = ""
  /\ file' = SaveFile(heap, Writer)
  /\ phase' = "saved"
  /\ UNCHANGED <<heap, error>>

(* The writer ends in the middle of it, between two symbols.               *)
Crash ==
  /\ phase = "read" /\ error = ""
  /\ LET all == SaveFile(heap, Writer)
     IN \E k \in 0 .. Len(all) - 1 : file' = SubSeq(all, 1, k)
  /\ phase' = "cut"
  /\ UNCHANGED <<heap, error>>

ReadAgain ==
  /\ phase \in {"saved", "cut"}
  /\ phase' = IF phase = "saved" THEN "reread" ELSE "rereadCut"
  /\ Load(Reader)

Over == phase \in {"read", "reread", "rereadCut"} /\ UNCHANGED vars

Next == Read \/ Save \/ Crash \/ ReadAgain \/ Over

Spec == Init /\ [][Next]_vars

-----------------------------------------------------------------------------
(* Correctness.                                                            *)

(* What a document holds, in the order of its nodes.  White space alone    *)
(* between two tags is no text, and a carriage return is read as a line    *)
(* feed.                                                                   *)
Plain(n) == heap.node[n].kind = "text" /\ ~heap.node[n].cdata
Blank(n) == Plain(n) /\ ToSet(heap.node[n].value) \subseteq White

RECURSIVE Content(_)
Content(n) ==
  LET node == heap.node[n]
      kept == SelectSeq(Children(heap, n), LAMBDA c : ~Blank(c))
  IN [kind |-> node.kind, cdata |-> node.cdata, value |-> GetStr(node.value, FALSE),
      attributes |-> [i \in DOMAIN node.attributes |->
        [node.attributes[i] EXCEPT !.value = GetStr(@, FALSE)]],
      children |-> [i \in DOMAIN kept |-> Content(kept[i])]]

TextOutside(d) == \E n \in ToSet(Children(heap, d)) : Plain(n)

(* What is read, written and read again is the same, whatever entities,    *)
(* references, comments and mixed text it holds (XMLPrinter, ParseDeep).   *)
RoundTrip ==
  phase = "reread" /\ ~TextOutside(Writer) => error = "" /\ Content(Reader) = Content(Writer)

Root(d) == FirstChildElement(heap, d, << >>)

(* A file whose writing was cut short is not read as a smaller one: there  *)
(* is an error, or no root element, or all of it (XMLNode::ParseDeep;      *)
(* getFilePaths and loadRouteMetadata test for the first two).             *)
CutShortNoticed ==
  phase = "rereadCut" /\ Root(Writer) = LastChildElement(heap, Writer, << >>) /\ Root(Reader) # Null =>
    error # "" \/ Content(Root(Reader)) = Content(Root(Writer))

(* However the reading ends, every node it has made is in the tree or      *)
(* destroyed, and the tree is well linked (XMLNode::ParseDeep).            *)
NothingLeftOver ==
  LinksAgree(heap) /\ \A d \in Doc : heap.unlinked[d] = << >>
=============================================================================
