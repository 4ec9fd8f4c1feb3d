----------------------------- MODULE XmlForest -----------------------------
(***************************************************************************)
(* What the document object model of tinyxml2 promises its user: ordered   *)
(* trees.  Each document and each node has a sequence of children and a    *)
(* label (its kind, value and attributes), and belongs to one document for *)
(* ever.  XmlTree, with its links and its list of unlinked nodes,          *)
(* implements this specification.                                          *)
(***************************************************************************)
EXTENDS Integers, Sequences, SequencesExt

CONSTANTS Doc, Node

VARIABLES kids, label, home

forest == <<kids, label, home>>

Alive == DOMAIN kids

Init ==
  /\ kids = [d \in Doc |-> << >>]
  /\ DOMAIN label = Doc
  /\ home = [d \in Doc |-> d]

RECURSIVE Under(_)
Under(n) == {n} \cup UNION {Under(m) : m \in ToSet(kids[n])}

RECURSIVE Shape(_, _, _)
Shape(k, l, n) == <<l[n], [i \in DOMAIN k[n] |-> Shape(k, l, k[n][i])]>>

Without(n) == [p \in Alive |-> SelectSeq(kids[p], LAMBDA m : m # n)]

(* Nothing happens to the nodes of N but that they and only they remain.   *)
Keep(N) ==
  /\ DOMAIN kids' = N
  /\ \A n \in N : label'[n] = label[n] /\ home'[n] = home[n]

-----------------------------------------------------------------------------
(* A node comes into being.                                                *)
New(n, d) ==
  /\ kids' = [m \in Alive \cup {n} |-> IF m = n THEN << >> ELSE kids[m]]
  /\ \A m \in Alive : label'[m] = label[m] /\ home'[m] = home[m]
  /\ home'[n] = d

NewIn(n, p, i) ==
  /\ kids' = [m \in Alive \cup {n} |->
                IF m = n THEN << >> ELSE IF m = p THEN InsertAt(kids[p], i, n) ELSE kids[m]]
  /\ \A m \in Alive : label'[m] = label[m] /\ home'[m] = home[m]
  /\ home'[n] = home[p]

(* It gets a place, or another one.                                        *)
Put(n, p, i) ==
  /\ home[n] = home[p] /\ p \notin Under(n)
  /\ i <= Len(Without(n)[p]) + 1
  /\ kids' = [Without(n) EXCEPT ![p] = InsertAt(@, i, n)]
  /\ Keep(Alive)

Relabel(n) ==
  /\ UNCHANGED <<kids, home>>
  /\ \A m \in Alive \ {n} : label'[m] = label[m]

(* It goes, with all that is below.                                        *)
Delete(n) ==
  /\ Keep(Alive \ Under(n))
  /\ \A m \in Alive \ Under(n) : kids'[m] = Without(n)[m]

DeleteBelow(p) ==
  /\ Keep((Alive \ Under(p)) \cup {p})
  /\ \A m \in Alive \ Under(p) : kids'[m] = kids[m]
  /\ kids'[p] = << >>

Clear(d) ==
  /\ Keep({n \in Alive : home[n] # d \/ n = d})
  /\ \A n \in DOMAIN kids' : kids'[n] = IF n = d THEN << >> ELSE kids[n]

(* A copy of what is below p, or of n and what is below, in document d.    *)
Copy(p, d) ==
  /\ \A n \in Alive : home[n] # d =>
       n \in DOMAIN kids' /\ kids'[n] = kids[n] /\ label'[n] = label[n] /\ home'[n] = home[n]
  /\ \A n \in DOMAIN kids' : home'[n] = d \/ n \in Alive
  /\ Shape(kids', label', d) = Shape(kids, label, p)

Clone(n, d) ==
  /\ \A m \in Alive :
       m \in DOMAIN kids' /\ kids'[m] = kids[m] /\ label'[m] = label[m] /\ home'[m] = home[m]
  /\ \A m \in DOMAIN kids' \ Alive : home'[m] = d
  /\ \E c \in DOMAIN kids' \ Alive : Shape(kids', label', c) = Shape(kids, label, n)

Next ==
  \/ \E n \in Node \ Alive, d \in Doc : New(n, d)
  \/ \E n \in Node \ Alive, p \in Alive : \E i \in 1 .. Len(kids[p]) + 1 : NewIn(n, p, i)
  \/ \E n \in Alive \ Doc, p \in Alive : \E i \in 1 .. Len(kids[p]) + 1 : Put(n, p, i)
  \/ \E n \in Alive \ Doc : Relabel(n) \/ Delete(n)
  \/ \E p \in Alive : DeleteBelow(p)
  \/ \E d \in Doc : Clear(d)
  \/ \E p, d \in Doc : p # d /\ Copy(p, d)
  \/ \E n \in Alive \ Doc, d \in Doc : Clone(n, d)

Spec == Init /\ [][Next]_forest
=============================================================================
