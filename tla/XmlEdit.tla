------------------------------ MODULE XmlEdit ------------------------------
(***************************************************************************)
(* A program that edits documents with the operations of tinyxml2.  It     *)
(* puts no node below itself, and only below documents and elements, and   *)
(* stops when a copy has left it with more nodes than MaxNodes.            *)
(***************************************************************************)
EXTENDS XmlTree, FiniteSets

CONSTANTS
  MaxNodes,   \* the nodes it makes, the documents and copies not counted
  Label,      \* the kinds and values of the nodes it makes
  AttrValue   \* the values of attribute "k" that it sets

VARIABLE heap

Live == DOMAIN heap.node
Inner == {n \in Live : heap.node[n].kind \in {"document", "element"}}
Element == {n \in Live : heap.node[n].kind = "element"}
Few == Cardinality(Live \ Doc) <= MaxNodes
Room == Cardinality(Live \ Doc) < MaxNodes

Init == heap = XMLDocuments

NewNode(d) == Room /\ \E l \in Label : heap' = CreateUnlinkedNode(heap, d, l.kind, l.value)

InsertNew(p) ==
  /\ Room /\ p \in Element
  /\ \E l \in Label :
       heap' = InsertEndChild(CreateUnlinkedNode(heap, heap.node[p].document, l.kind, l.value),
                              p, Alloc(heap))

Insert(p, n) ==
  /\ p \notin Below(heap, n)
  /\ \/ heap' = InsertEndChild(heap, p, n)
     \/ heap' = InsertFirstChild(heap, p, n)
     \/ \E a \in ToSet(Children(heap, p)) :
          /\ ~(heap.node[a].next = n /\ heap.node[n].next = Null)
          /\ heap' = InsertAfterChild(heap, p, a, n)

Edit(n) ==
  \/ Room /\ heap' = SetText(heap, n, <<"t">>)
  \/ \E v \in AttrValue : heap' = SetAttribute(heap, n, "k", v)
  \/ heap' = DeleteAttribute(heap, n, "k")

Delete(n) == n \notin Doc /\ heap' = DeleteNode(heap, n)

DeleteAll(n) ==
  \/ heap' = DeleteChildren(heap, n)
  \/ n \in Doc /\ heap' = Clear(heap, n)

Copy(n, d) ==
  /\ Cardinality(Below(heap, n)) <= Cardinality(Node \ Live) + (IF n \in Doc THEN 1 ELSE 0)
  /\ heap' = IF n \in Doc THEN DeepCopy(heap, n, d) ELSE DeepClone(heap, n, d)

Next ==
  \/ /\ Few
     /\ \/ \E d \in Doc : NewNode(d) \/ \E n \in Live : Copy(n, d)
        \/ \E p \in Inner : InsertNew(p) \/ DeleteAll(p) \/ \E n \in Live \ Doc : Insert(p, n)
        \/ \E n \in Element : Edit(n)
        \/ \E n \in Live : Delete(n)
  \/ ~Few /\ UNCHANGED heap

Spec == Init /\ [][Next]_heap

-----------------------------------------------------------------------------
(* Correctness.                                                            *)

(* The links of every node agree, every node is in one place, and whoever  *)
(* looks for elements finds them in order (XMLNode::Unlink, the            *)
(* insertions, XMLDocument::MarkInUse).                                    *)
WellLinked ==
  LinksAgree(heap) /\ \A name \in {<< >>, <<"a">>} : ElementsInOrder(heap, name)

Forest == INSTANCE XmlForest WITH
  kids  <- [n \in Live |-> Children(heap, n)],
  label <- [n \in Live |-> <<heap.node[n].kind, heap.node[n].value, heap.node[n].attributes>>],
  home  <- [n \in Live |-> heap.node[n].document]

(* The links are ordered trees: an operation moves, removes or copies what *)
(* it is asked to and leaves everything else where it was (the API of      *)
(* XMLNode and XMLDocument).                                               *)
ImplementsForest == Forest!Spec
=============================================================================
