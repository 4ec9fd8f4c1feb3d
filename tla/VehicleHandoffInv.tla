-------------------------- MODULE VehicleHandoffInv --------------------------
(***************************************************************************)
(* The inductive invariant of VehicleHandoff, in three parts that build on *)
(* each other: what the data of a partition look like (Sound), how the     *)
(* barriers separate the operations of one step from the next (InStep),    *)
(* and where a vehicle of a simple route is (Whereabouts).                 *)
(***************************************************************************)
EXTENDS VehicleHandoff

-----------------------------------------------------------------------------
(* A copy is inside its partition; what is to be sent to the neighbour is  *)
(* on a border edge; operations wait only at neighbours.                   *)
Standing ==
  \A p \in Part : \A v \in Vehicle : pos[p][v] # 0 => Inside(p, v, pos[p][v])

Handing ==
  \A p \in Part :
    /\ phase[p] # "handout" => leaving[p] = {} /\ asked[p] = None
    /\ \A v \in leaving[p] : pos[p][v] # 0 /\ Route[v][pos[p][v]] \in Border
    /\ asked[p] # None =>
         /\ asked[p].at = pos[p][asked[p].veh]
         /\ Route[asked[p].veh][asked[p].at] \in Border

Waiting ==
  \A p, q \in Part : \A i \in DOMAIN queue[q][p] :
    LET op == queue[q][p][i] IN
    /\ op.at \in Places(op.veh) /\ p # q
    /\ Inside(q, op.veh, op.at) /\ Inside(p, op.veh, op.at)

Sound == TypeOK /\ Standing /\ Handing /\ Waiting

-----------------------------------------------------------------------------
(* Nobody is more than one barrier behind, and the phases say who waits.   *)
Barriers ==
  /\ waits \in [Part -> {"none", "barrier", "step"}]
  /\ crossed \in [Part -> Nat] /\ opened \in Nat
  /\ vote \in [Part -> BOOLEAN] /\ heard \in [Part -> BOOLEAN] /\ verdict \in BOOLEAN
  /\ \A p \in Part :
       /\ crossed[p] = opened \/ (waits[p] # "none" /\ crossed[p] + 1 = opened)
       /\ waits[p] = "barrier" <=> phase[p] \in {"started", "ended"}
       /\ waits[p] = "step" <=> phase[p] = "voted"

Behind(p) == crossed[p] # opened

MaybeFinished(p) == time[p] > LastDepart(p) + 1 /\ Present(p) = {}

Votes == \A p \in Part : phase[p] = "voted" /\ vote[p] => MaybeFinished(p)

(* An operation waits because its sender, who still has the vehicle, has   *)
(* not passed the barrier of the step; or because the receiver, who has    *)
(* to pass it or has passed it, has still to apply it.                     *)
Undelivered(q, p) ==
  \/ phase[q] \in {"handout", "voted"} /\ ~Behind(q) /\ Present(q) # {}
  \/ phase[p] = "voted" /\ Behind(p)
  \/ phase[p] = "apply" /\ q \in todo[p]

Deliveries == \A p, q \in Part : queue[q][p] # <<>> => Undelivered(q, p)

(* The verdict that ends the run: nothing is left, and it stays so.        *)
Finished ==
  /\ \A p \in Part : MaybeFinished(p) /\ \A q \in Part : queue[q][p] = <<>>
  /\ \A p \in Part :
       \/ phase[p] = "voted" /\ Behind(p)
       \/ phase[p] \in {"apply", "loop", "ended", "done"} /\ heard[p]

Verdict == IF verdict THEN Finished ELSE \A p \in Part : ~heard[p]

InStep == Barriers /\ Votes /\ Deliveries /\ Verdict

-----------------------------------------------------------------------------
(* Where a simple vehicle v is.                                            *)

Owner(p, v) == Inside(p, v, 1)

(* v leaves partition p at place i for the next one.                       *)
Exit(p, v, i) == i \in Ends(p, v) /\ i # Len(Route[v])

(* The route goes on in q when it has left p.                              *)
Beyond(p, q, v) ==
  \E k \in Places(v) : Inside(q, v, k) /\ \A i \in Places(v) : Inside(p, v, i) => i < k

Asked(p, v)  == asked[p].veh = v /\ asked[p] # None
Handed(p, v) == v \in leaving[p] \/ Asked(p, v)

(* p has heard nothing of v.                                               *)
Untouched(p, v) ==
  /\ pos[p][v] = 0 /\ v \notin ids[p] /\ v \notin sent[p] /\ ~Handed(p, v)
  /\ \A e \in Border : v \notin prev[p][e]

(* p may still have v on the border edge on which it sent it off, at or    *)
(* before the place i.                                                     *)
Behindhand(p, v, i) ==
  /\ ~Handed(p, v)
  /\ pos[p][v] # 0 => Exit(p, v, pos[p][v]) /\ v \in sent[p] /\ pos[p][v] <= i

NotQueued(v) == \A p, q \in Part : \A i \in DOMAIN queue[q][p] : queue[q][p][i].veh # v

Departed(v) == \A p \in Part : Owner(p, v) => time[p] > Depart[v]

ToDepart(v) ==
  /\ \A p \in Part : Untouched(p, v) /\ (Owner(p, v) => time[p] <= Depart[v])
  /\ NotQueued(v)

(* At the exit v has just arrived, or it is being handed out.              *)
AtExit(p, v) ==
  \/ phase[p] = "stepped" /\ ~Handed(p, v) /\ v \notin prev[p][Route[v][pos[p][v]]]
  \/ phase[p] = "handout" /\ (v \in leaving[p] <=> ~Asked(p, v))

DrivenBy(p, v) ==
  /\ pos[p][v] # 0 /\ v \notin sent[p]
  /\ IF Exit(p, v, pos[p][v]) THEN AtExit(p, v) ELSE ~Handed(p, v)
  /\ \A i \in Places(v) : Exit(p, v, i) /\ i # pos[p][v] => v \notin prev[p][Route[v][i]]
  /\ \A q \in Part \ {p} :
       /\ Behindhand(q, v, pos[p][v])
       /\ Beyond(p, q, v) => Untouched(q, v)
  /\ NotQueued(v)

(* The one operation about v, that q is to go on with it at place i.       *)
OnItsWay(p, q, v, i) ==
  \E k \in DOMAIN queue[p][q] :
    /\ queue[p][q][k] = [veh |-> v, at |-> i]
    /\ \A r, s \in Part : \A l \in DOMAIN queue[r][s] :
         queue[r][s][l].veh = v => r = p /\ s = q /\ l = k

(* p has handed v over to q.                                               *)
Between(p, q, v, i) ==
  /\ Exit(p, v, i) /\ q = Other(p, Route[v][i])
  /\ OnItsWay(p, q, v, i)
  /\ \A r \in Part :
       /\ Behindhand(r, v, i)
       /\ Beyond(p, r, v) => Untouched(r, v)

AtItsEnd(v) ==
  /\ v \in arrived /\ NotQueued(v)
  /\ \A p \in Part : Behindhand(p, v, Len(Route[v]))

Whereabouts(v) ==
  /\ v \notin misplaced
  /\ \/ ToDepart(v)
     \/ /\ Departed(v)
        /\ \/ \E p \in Part : DrivenBy(p, v)
           \/ \E p, q \in Part, i \in Places(v) : Between(p, q, v, i)
           \/ AtItsEnd(v)

Located == \A v \in Vehicle : Simple(v) => Whereabouts(v)

IInv == Sound /\ InStep /\ Located
=============================================================================
