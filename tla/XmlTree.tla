------------------------------ MODULE XmlTree ------------------------------
(***************************************************************************)
(* What tinyxml2 does with whole trees: it deletes and copies them, and    *)
(* searches among the children of a node.                                  *)
(***************************************************************************)
EXTENDS XmlLinks

-----------------------------------------------------------------------------
(* Deleting.  XMLNode::DeleteNode destroys a node that is in no tree, the  *)
(* destructor its children one by one; XMLDocument::DeleteNode any node.   *)

RECURSIVE DestroyNode(_, _), DeleteChildren(_, _)
DestroyNode(h, n) ==
  LET g == DeleteChildren(MarkInUse(h, n), n)
  IN [g EXCEPT !.node = [m \in DOMAIN @ \ {n} |-> @[m]]]

DeleteChildren(h, p) ==
  LET c == h.node[p].firstChild
  IN IF c = Null THEN h ELSE DeleteChildren(DestroyNode(Unlink(h, p, c), c), p)

DeleteChild(h, p, n) == DestroyNode(Unlink(h, p, n), n)

DeleteNode(h, n) ==
  IF h.node[n].parent # Null THEN DeleteChild(h, h.node[n].parent, n) ELSE DestroyNode(h, n)

RECURSIVE DestroyUnlinked(_, _)
DestroyUnlinked(h, d) ==
  IF h.unlinked[d] = << >> THEN h ELSE DestroyUnlinked(DestroyNode(h, h.unlinked[d][1]), d)

Clear(h, d) == DestroyUnlinked(DeleteChildren(h, d), d)

-----------------------------------------------------------------------------
(* Attributes and text.                                                    *)

FindAttribute(e, name) == {i \in DOMAIN e.attributes : e.attributes[i].name = name}

SetAttribute(h, n, name, value) ==
  [h EXCEPT !.node[n].attributes =
     LET found == FindAttribute(h.node[n], name)
     IN IF found = {} THEN Append(@, [name |-> name, value |-> value])
        ELSE [@ EXCEPT ![CHOOSE i \in found : TRUE].value = value]]

DeleteAttribute(h, n, name) ==
  [h EXCEPT !.node[n].attributes = SelectSeq(@, LAMBDA a : a.name # name)]

IsKind(h, n, kind) == n # Null /\ h.node[n].kind = kind

SetText(h, n, text) ==
  IF IsKind(h, h.node[n].firstChild, "text")
  THEN [h EXCEPT !.node[h.node[n].firstChild].value = text]
  ELSE InsertFirstChild(CreateUnlinkedNode(h, h.node[n].document, "text", text), n, Alloc(h))

RECURSIVE SkipComments(_, _)
SkipComments(h, n) == IF IsKind(h, n, "comment") THEN SkipComments(h, h.node[n].next) ELSE n

GetText(h, n) ==
  LET c == SkipComments(h, h.node[n].firstChild)
  IN IF IsKind(h, c, "text") THEN {h.node[c].value} ELSE {}

-----------------------------------------------------------------------------
(* Navigation.  The name << >> stands for any.                                *)

ToElementWithName(h, n, name) ==
  h.node[n].kind = "element" /\ (name = << >> \/ h.node[n].value = name)

RECURSIVE SeekElement(_, _, _, _)
SeekElement(h, n, name, link) ==
  IF n = Null \/ ToElementWithName(h, n, name) THEN n
  ELSE SeekElement(h, h.node[n][link], name, link)

FirstChildElement(h, n, name) == SeekElement(h, h.node[n].firstChild, name, "next")
LastChildElement(h, n, name) == SeekElement(h, h.node[n].lastChild, name, "prev")
NextSiblingElement(h, n, name) == SeekElement(h, h.node[n].next, name, "next")
PreviousSiblingElement(h, n, name) == SeekElement(h, h.node[n].prev, name, "prev")

RECURSIVE From(_, _, _)
From(h, n, link) == IF n = Null THEN << >> ELSE <<n>> \o From(h, h.node[n][link], link)

Children(h, n) == From(h, h.node[n].firstChild, "next")

-----------------------------------------------------------------------------
(* Copies.                                                                 *)

ShallowClone(h, n, d) ==
  LET g == CreateUnlinkedNode(h, d, h.node[n].kind, h.node[n].value)
  IN [g EXCEPT !.node[Alloc(h)].attributes = h.node[n].attributes,
               !.node[Alloc(h)].cdata = h.node[n].cdata]

RECURSIVE DeepClone(_, _, _), CloneChildren(_, _, _, _)
DeepClone(h, n, d) == CloneChildren(ShallowClone(h, n, d), h.node[n].firstChild, Alloc(h), d)

(* A faulty CloneChildren that puts each before the ones already copied.   *)
RECURSIVE CloneBackwards(_, _, _, _)
CloneBackwards(h, child, clone, d) ==
  IF child = Null THEN h
  ELSE CloneBackwards(InsertFirstChild(DeepClone(h, child, d), clone, Alloc(h)),
                      h.node[child].next, clone, d)

CloneChildren(h, child, clone, d) ==
  IF child = Null THEN h
  ELSE CloneChildren(InsertEndChild(DeepClone(h, child, d), clone, Alloc(h)),
                     h.node[child].next, clone, d)

DeepCopy(h, source, target) ==
  IF source = target THEN h
  ELSE CloneChildren(Clear(h, target), h.node[source].firstChild, target, target)

(* Attributes are compared by their values, not by their names.            *)
ShallowEqual(e, f) ==
  /\ e.kind = f.kind /\ e.kind # "document" /\ e.value = f.value
  /\ [i \in DOMAIN e.attributes |-> e.attributes[i].value]
       = [i \in DOMAIN f.attributes |-> f.attributes[i].value]

-----------------------------------------------------------------------------
(* What the links add up to.                                               *)

RECURSIVE Below(_, _)
Below(h, n) == {n} \cup UNION {Below(h, m) : m \in ToSet(Children(h, n))}

LinksAgree(h) == InOnePlace(h, [p \in DOMAIN h.node |-> Children(h, p)])

(* The searches for elements go through the children in order.             *)
ElementsInOrder(h, name) ==
  \A p \in DOMAIN h.node :
    LET s == SelectSeq(Children(h, p), LAMBDA n : ToElementWithName(h, n, name))
        At(i) == IF i \in DOMAIN s THEN s[i] ELSE Null
    IN /\ FirstChildElement(h, p, name) = At(1)
       /\ LastChildElement(h, p, name) = At(Len(s))
       /\ \A i \in DOMAIN s :
            /\ NextSiblingElement(h, s[i], name) = At(i + 1)
            /\ PreviousSiblingElement(h, s[i], name) = At(i - 1)
=============================================================================
