------------------------------ MODULE XmlLinks ------------------------------
(***************************************************************************)
(* The documents of tinyxml2 as they lie in memory: nodes with links to    *)
(* parent, children and siblings, and in each document the list _unlinked  *)
(* of the nodes that are in no tree yet.  The operators take the heap they *)
(* work on as their first argument and give the heap they leave behind.    *)
(*                                                                         *)
(* A node is a number, Null is no node.  A value is a sequence of symbols, *)
(* of which nothing is known here; that of an element is its name.         *)
(***************************************************************************)
EXTENDS Integers, Sequences, SequencesExt, TLC

CONSTANTS
  Doc,   \* the documents
  Node   \* the places for other nodes

Null == 0

ASSUME NodesAssumption == Doc \cup Node \subseteq Nat \ {Null} /\ Doc \cap Node = {}

-----------------------------------------------------------------------------
(* Nodes and the pool they come from.                                      *)

XMLNode(d, kind, value) ==
  [document |-> d, kind |-> kind, value |-> value, cdata |-> FALSE,
   attributes |-> << >>, parent |-> Null, firstChild |-> Null,
   lastChild |-> Null, prev |-> Null, next |-> Null]

XMLDocuments ==
  [node |-> [d \in Doc |-> XMLNode(d, "document", << >>)],
   unlinked |-> [d \in Doc |-> << >>]]

Alloc(h) == CHOOSE n \in Node \ DOMAIN h.node : \A m \in Node \ DOMAIN h.node : n <= m

CreateUnlinkedNode(h, d, kind, value) ==
  [node |-> [n \in DOMAIN h.node \cup {Alloc(h)} |->
               IF n = Alloc(h) THEN XMLNode(d, kind, value) ELSE h.node[n]],
   unlinked |-> [h.unlinked EXCEPT ![d] = Append(@, Alloc(h))]]

SwapRemove(s, i) == Front([s EXCEPT ![i] = Last(s)])

(* A faulty MarkInUse that leaves the node in the list.                    *)
MarkNothing(h, n) == h

MarkInUse(h, n) ==
  LET s == h.unlinked[h.node[n].document]
  IN IF Contains(s, n)
     THEN [h EXCEPT !.unlinked[h.node[n].document] =
             SwapRemove(s, CHOOSE i \in DOMAIN s : s[i] = n)]
     ELSE h

-----------------------------------------------------------------------------
(* Links.                                                                  *)

Unlink(h, p, child) ==
  LET c == h.node[child]
  IN [h EXCEPT !.node = [n \in DOMAIN h.node |->
       LET e == h.node[n] IN
       CASE n = p -> [e EXCEPT !.firstChild = IF e.firstChild = child THEN c.next ELSE e.firstChild,
                              !.lastChild = IF e.lastChild = child THEN c.prev ELSE e.lastChild]
         [] n = child -> [e EXCEPT !.parent = Null, !.prev = Null, !.next = Null]
         [] n = c.prev -> [e EXCEPT !.next = c.next]
         [] n = c.next -> [e EXCEPT !.prev = c.prev]
         [] OTHER -> e]]

InsertChildPreamble(h, n) ==
  IF h.node[n].parent # Null THEN Unlink(h, h.node[n].parent, n) ELSE MarkInUse(h, n)

(* A faulty LinkBetween that does not tell the child to the right.         *)
LinkForwards(h, p, n, left, right) ==
  [h EXCEPT !.node = [m \in DOMAIN h.node |->
     LET e == h.node[m] IN
     CASE m = n -> [e EXCEPT !.parent = p, !.prev = left, !.next = right]
       [] m = p -> [e EXCEPT !.firstChild = IF left = Null THEN n ELSE e.firstChild,
                            !.lastChild = IF right = Null THEN n ELSE e.lastChild]
       [] m = left -> [e EXCEPT !.next = n]
       [] OTHER -> e]]

(* Node n becomes a child of p, between two children or Null.              *)
LinkBetween(h, p, n, left, right) ==
  [h EXCEPT !.node = [m \in DOMAIN h.node |->
     LET e == h.node[m] IN
     CASE m = n -> [e EXCEPT !.parent = p, !.prev = left, !.next = right]
       [] m = p -> [e EXCEPT !.firstChild = IF left = Null THEN n ELSE e.firstChild,
                            !.lastChild = IF right = Null THEN n ELSE e.lastChild]
       [] m = left -> [e EXCEPT !.next = n]
       [] m = right -> [e EXCEPT !.prev = n]
       [] OTHER -> e]]

InsertEndChild(h, p, n) ==
  IF h.node[n].document # h.node[p].document THEN h
  ELSE LET g == InsertChildPreamble(h, n) IN LinkBetween(g, p, n, g.node[p].lastChild, Null)

InsertFirstChild(h, p, n) ==
  IF h.node[n].document # h.node[p].document THEN h
  ELSE LET g == InsertChildPreamble(h, n) IN LinkBetween(g, p, n, Null, g.node[p].firstChild)

(* Undefined, for it follows a null pointer, when n is the last child and  *)
(* comes right after a: after InsertChildPreamble nothing does.            *)
InsertAfterChild(h, p, a, n) ==
  IF \/ h.node[n].document # h.node[p].document
     \/ h.node[a].parent # p
     \/ a = n THEN h
  ELSE IF h.node[a].next = Null THEN InsertEndChild(h, p, n)
  ELSE LET g == InsertChildPreamble(h, n) IN LinkBetween(g, p, n, a, g.node[a].next)

-----------------------------------------------------------------------------
(* What the links add up to.                                               *)

IsNode(e) ==
  e = [document |-> e.document, kind |-> e.kind, value |-> e.value, cdata |-> e.cdata,
       attributes |-> e.attributes, parent |-> e.parent, firstChild |-> e.firstChild,
       lastChild |-> e.lastChild, prev |-> e.prev, next |-> e.next]

IsHeap(h) ==
  /\ h = [node |-> h.node, unlinked |-> h.unlinked]
  /\ h.node = [n \in DOMAIN h.node |-> h.node[n]] /\ h.unlinked = [d \in Doc |-> h.unlinked[d]]
  /\ Doc \subseteq DOMAIN h.node /\ DOMAIN h.node \subseteq Doc \cup Node
  /\ \A n \in DOMAIN h.node : IsNode(h.node[n]) /\ h.node[n].document \in Doc

Nth(s, i) == IF i \in DOMAIN s THEN s[i] ELSE Null

(* The children of p are s, read forwards and backwards, and each knows    *)
(* its parent and its document.                                            *)
LinkedInOrder(h, p, s) ==
  /\ h.node[p].firstChild = Nth(s, 1) /\ h.node[p].lastChild = Nth(s, Len(s))
  /\ \A i \in DOMAIN s :
       LET e == h.node[s[i]]
       IN /\ s[i] # p /\ e.parent = p /\ e.document = h.node[p].document
          /\ e.prev = Nth(s, i - 1) /\ e.next = Nth(s, i + 1)

(* Each node has its children, once, and no other is linked anywhere.      *)
Trees(h, kids) ==
  /\ kids \in [DOMAIN h.node -> Seq(DOMAIN h.node \ Doc)]
  /\ \A p \in DOMAIN h.node : IsInjective(kids[p]) /\ LinkedInOrder(h, p, kids[p])
  /\ \A n \in DOMAIN h.node :
       \/ h.node[n].parent \in DOMAIN h.node /\ n \in ToSet(kids[h.node[n].parent])
       \/ h.node[n].parent = Null /\ h.node[n].prev = Null /\ h.node[n].next = Null

(* A node that is in no tree is in the list of its document, once, but for *)
(* those that are held.                                                    *)
Listed(h, held) ==
  \A d \in Doc :
    /\ h.unlinked[d] \in Seq(DOMAIN h.node) /\ IsInjective(h.unlinked[d])
    /\ ToSet(h.unlinked[d]) = {n \in DOMAIN h.node \ Doc :
                                h.node[n].document = d /\ h.node[n].parent = Null} \ held

(* Every node is in one place.                                             *)
InOnePlace(h, kids) == IsHeap(h) /\ Trees(h, kids) /\ Listed(h, {})

(* The children without n.                                                 *)
RestOf(kids, n) ==
  [p \in DOMAIN kids |->
    IF n \in ToSet(kids[p]) THEN RemoveAt(kids[p], CHOOSE i \in DOMAIN kids[p] : kids[p][i] = n)
    ELSE kids[p]]
=============================================================================
