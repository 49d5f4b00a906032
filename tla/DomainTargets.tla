---------------------------- MODULE DomainTargets ----------------------------
(***************************************************************************)
(* Blocking and steering by domain name: the addresses that DNS answers    *)
(* teach are written, with a deadline, into the set of blocked addresses   *)
(* or into the map that steers them to a WAN.  Three parties share them:   *)
(* the coordinator publishes the list of domains, one loop learns and      *)
(* accumulates, one writer hands whole batches to nft, and an index in     *)
(* memory mirrors what the kernel is believed to hold.  A deadline is an   *)
(* age: 0 granted, 1 less than a third left, 2 over.                       *)
(*                                                                         *)
(* The mirror is not exact: an address goes astray when the list changes   *)
(* while a write of it is unanswered, when it is taught again before the   *)
(* loop has taken its removal, when a removal comes back for an address    *)
(* wanted again, when a removal is dropped though the element is there,    *)
(* and when provisioning empties the kernel behind the index.              *)
(***************************************************************************)
EXTENDS Integers, FiniteSets, Sequences

CONSTANTS
    Domains,       \* 1..n: the domains, in the order of their names
    Marks,         \* the marks of the WANs a domain may be steered to
    Addrs,         \* 1..n: addresses that DNS answers carry
    MaxPorDominio, \* live addresses of one domain
    Scenarios      \* what a behaviour may go through: the rows it starts with, the
                   \* addresses DNS teaches, and bounds on changes of the list and on
                   \* failures and restarts

ASSUME DomainAssumption ==
    /\ Domains \subseteq Nat /\ IsFiniteSet(Domains) /\ Addrs \subseteq Nat
    /\ MaxPorDominio \in Nat \ {0}
    /\ Scenarios \subseteq [rows : [Domains -> {"absent", "trial", "block"} \cup Marks],
                            addrs : SUBSET Addrs, edits : Nat, faults : Nat]
    /\ Marks \cap {"block", "trial", "absent", "none"} = {}

VARIABLES
    rows,      \* domain_targets: what the admin wants of each domain
    usable,    \* the links that are up, and "block" while the blocking group is enabled
    gate,      \* the coordinator's boot gate
    list,      \* the list the index works with
    index,     \* Indice.ends
    trialed,   \* Indice.ensaiados: addresses a domain in trial has taught
    adjusts,   \* ajustesPend: adjustments the loop has not taken yet
    owed,      \* pendEscritas and pendRemocoes: what the next batch carries
    queued,    \* paraEscrever: the batch the writer has not taken
    writing,   \* the batch nft has answered and the index has not heard of
    returned,  \* devolvidas: removals a batch left behind
    kernel,    \* the elements of the two structures
    astray,    \* addresses on which the kernel and the index may disagree
    budget     \* what is left of the scenario

indexVars == <<list, index, trialed>>
pipeVars == <<adjusts, owed, queued, writing, returned>>
domainVars == <<rows, usable, gate, indexVars, pipeVars, kernel, astray, budget>>

Caps == {"block"} \cup Marks
None == "none"
Structs == {"set", "map"}
StructOf(c) == IF c = "block" THEN "set" ELSE "map"

NotKnown == [claims |-> {}, age |-> 0, cap |-> None, doubtful |-> FALSE, pend |-> None]
Gone == [cap |-> None, age |-> 2]
Nothing == [writes |-> {}, removals |-> {}]
NoBatch == [busy |-> FALSE]

Known(a) == index[a].claims # {}
Active(l) == {d \in Domains : l[d] \in Caps}

DomainInit ==
    /\ budget \in Scenarios
    /\ rows = budget.rows
    /\ usable = Caps
    /\ gate = TRUE
    /\ list = rows
    /\ index = [a \in Addrs |-> NotKnown]
    /\ trialed = [d \in Domains |-> {}]
    /\ adjusts = Nothing /\ owed = Nothing
    /\ queued = NoBatch /\ writing = NoBatch /\ returned = <<>>
    /\ kernel = [a \in Addrs |-> [s \in Structs |-> Gone]]
    /\ astray = {}

ListEdit == budget.edits > 0 /\ budget' = [budget EXCEPT !.edits = @ - 1]
DomFault == budget.faults > 0 /\ budget' = [budget EXCEPT !.faults = @ - 1]

-----------------------------------------------------------------------------
(* The index.  A write is [addr, cap, replace], a removal [addr, struct,   *)
(* tries]; what an operation makes of one address is the record it leaves  *)
(* and what it asks of the kernel.                                         *)

Write(a, c, replace) == [addr |-> a, cap |-> c, replace |-> replace]
Removal(a, c) == [addr |-> a, struct |-> StructOf(c), tries |-> 0]
SamePlace(x, y) == x.addr = y.addr /\ StructOf(x.cap) = StructOf(y.cap)
Outcome(r, writes, removals) == [record |-> r, writes |-> writes, removals |-> removals]

\* The first of a set of names.
First(D) == CHOOSE d \in D : \A e \in D : d <= e

\* A block wins; among WANs the first name decides.
CapEfetiva(l, claims) ==
    LET active == claims \cap Active(l)
    IN  IF active = {} THEN None
        ELSE IF \E d \in active : l[d] = "block" THEN "block"
        ELSE l[First(active)]

Room(d) == Cardinality({a \in Addrs : d \in index[a].claims}) < MaxPorDominio

Leaves(a, r) == IF r.cap = None THEN {} ELSE {Removal(a, r.cap)}

\* An address is taught again, or for the first time, and these domains claim it.
\* A renewal deletes the element first: an add alone does not move its deadline.
Absorvido(l, a, r, claims) ==
    LET cap == CapEfetiva(l, claims)
        due == r.doubtful \/ r.age >= 1
    IN  IF cap = None \/ r.pend # None \/ (cap = r.cap /\ ~due)
        THEN Outcome([r EXCEPT !.claims = claims], {}, {})
        ELSE Outcome([r EXCEPT !.claims = claims, !.pend = cap], {Write(a, cap, cap = r.cap)},
                     IF cap = r.cap THEN {} ELSE Leaves(a, r))

\* The domain claims it if it has room for one more.
Absorve(d, a) ==
    Absorvido(list, a, index[a], IF Room(d) THEN index[a].claims \cup {d} ELSE index[a].claims)

\* Mutant of Revisto: an address moves without leaving where it was.
RevistoMantem(l, a) ==
    LET r == index[a]
        claims == r.claims \cap Active(l)
        cap == CapEfetiva(l, claims)
    IN  IF cap = None THEN Outcome(NotKnown, {}, Leaves(a, r))
        ELSE IF cap = r.cap THEN Outcome([r EXCEPT !.claims = claims], {}, {})
        ELSE Outcome([r EXCEPT !.claims = claims, !.pend = cap], {Write(a, cap, FALSE)}, {})

\* What a change of the list makes of one address.
Revisto(l, a) ==
    LET r == index[a]
        claims == r.claims \cap Active(l)
        cap == CapEfetiva(l, claims)
    IN  IF cap = None THEN Outcome(NotKnown, {}, Leaves(a, r))
        ELSE IF cap = r.cap THEN Outcome([r EXCEPT !.claims = claims], {}, {})
        ELSE Outcome([r EXCEPT !.claims = claims, !.pend = cap], {Write(a, cap, FALSE)}, Leaves(a, r))

\* The pools a domain may be left with when more addresses enter its trial.
GuardaEnsaio(pool, more) ==
    LET all == pool \cup more
    IN  IF Cardinality(all) <= MaxPorDominio THEN {all}
        ELSE {p \in SUBSET all : pool \subseteq p /\ Cardinality(p) = MaxPorDominio}

\* The domains just promoted hand over what their trial has taught, in the order
\* of their names: the first that asks something of the kernel is the only one.
\* Each has room, for it claimed nothing and its pool is bounded by the same share.
ReplayEnsaio(l, a, r, promoted) ==
    LET new == {d \in promoted : a \in trialed[d]}
        told(d) == Absorvido(l, a, r, r.claims \cup {e \in new : e <= d})
        asking == {d \in new : told(d).writes # {}}
        o == IF asking = {} THEN Outcome(r, {}, {}) ELSE told(First(asking))
    IN  Outcome([o.record EXCEPT !.claims = r.claims \cup new], o.writes, o.removals)

\* A change of the list and the promotions it brings.
Reconciliado(l, a) ==
    LET seen == Revisto(l, a)
        taught == ReplayEnsaio(l, a, seen.record, Active(l) \ Active(list))
    IN  Outcome(taught.record, seen.writes \cup taught.writes, seen.removals \cup taught.removals)

\* Later writes and removals replace the ones of the same address and structure.
Acumula(p, writes, removals) ==
    [writes |-> {w \in p.writes : ~\E x \in writes : SamePlace(w, x)} \cup writes,
     removals |-> p.removals \cup {r \in removals : ~\E x \in p.removals :
                                      x.addr = r.addr /\ x.struct = r.struct}]

-----------------------------------------------------------------------------
(* The coordinator, one call at a time: rows, then the whole list.         *)

\* An active row whose link is not up, or whose group is off, runs as a trial.
Resolve(r, u, g) ==
    [d \in Domains |-> IF r[d] \in Caps /\ ~(g /\ r[d] \in u) THEN "trial" ELSE r[d]]

DefineAlvos(l, emptied) ==
    LET demoted(d) == IF l[d] = "trial" THEN {a \in Addrs : d \in index[a].claims} ELSE {}
    IN  /\ list' = l
        /\ index' = [a \in Addrs |-> Reconciliado(l, a).record]
        /\ adjusts' = Acumula(adjusts, UNION {Reconciliado(l, a).writes : a \in Addrs},
                                       UNION {Reconciliado(l, a).removals : a \in Addrs})
        /\ trialed' \in [Domains -> SUBSET Addrs]
        /\ \A d \in Domains : IF l[d] = "absent" THEN trialed'[d] = {}
                              ELSE trialed'[d] \in GuardaEnsaio(trialed[d], demoted(d))
        /\ astray' = astray \cup emptied \cup
               {a \in Addrs : /\ index[a].pend # None
                              /\ {index[a].cap, index[a].pend} # {CapEfetiva(l, index[a].claims)}}

\* Create, Update, SetStage and Delete of the panel; the row stays when the
\* list cannot be read back.
EditRow(d) ==
    /\ \E v \in ({"absent", "trial"} \cup Caps) \ {rows[d]} : rows' = [rows EXCEPT ![d] = v]
    /\ \/ ListEdit /\ DefineAlvos(Resolve(rows', usable, gate), {})
       \/ DomFault /\ UNCHANGED <<indexVars, adjusts, astray>>
    /\ UNCHANGED <<usable, gate, owed, queued, writing, returned, kernel>>

\* A link goes up or down, the blocking group is switched.
Turns(c) ==
    /\ ListEdit
    /\ usable' = IF c \in usable THEN usable \ {c} ELSE usable \cup {c}
    /\ UNCHANGED <<rows, gate, indexVars, pipeVars, kernel, astray>>

\* What follows it: the callback of the link monitor, the group's handler.
Reconcile ==
    /\ list # Resolve(rows, usable, gate)
    /\ DefineAlvos(Resolve(rows, usable, gate), {})
    /\ UNCHANGED <<rows, usable, gate, owed, queued, writing, returned, kernel, budget>>

-----------------------------------------------------------------------------
(* The loop.                                                               *)

Aprende(d, a) ==
    /\ list[d] \in Caps
    /\ index' = [index EXCEPT ![a] = Absorve(d, a).record]
    /\ owed' = Acumula(owed, Absorve(d, a).writes, Absorve(d, a).removals)
    /\ astray' = astray \cup (IF \E r \in adjusts.removals : r.addr = a THEN {a} ELSE {})
    /\ UNCHANGED <<rows, usable, gate, list, trialed, adjusts, queued, writing, returned,
                   kernel, budget>>

AprendeEmEnsaio(d, a) ==
    /\ list[d] = "trial"
    /\ \E pool \in GuardaEnsaio(trialed[d], {a}) : trialed' = [trialed EXCEPT ![d] = pool]
    /\ UNCHANGED <<rows, usable, gate, list, index, pipeVars, kernel, astray, budget>>

DrenaAjustes ==
    /\ adjusts # Nothing
    /\ owed' = Acumula(owed, adjusts.writes, adjusts.removals)
    /\ adjusts' = Nothing
    /\ UNCHANGED <<rows, usable, gate, indexVars, queued, writing, returned, kernel,
                   astray, budget>>

Present(a, s) == kernel[a][s].cap # None
Holds(r, s) == r.cap # None /\ StructOf(r.cap) = s
Wanted(a, s) == \E c \in {index[a].cap, index[a].pend} \ {None} : StructOf(c) = s

\* The second failure of a removal is the last.
RecolocaRemocoes ==
    /\ returned # <<>>
    /\ LET back == Head(returned)
           again == {[r EXCEPT !.tries = 1] : r \in {x \in back : x.tries = 0}}
           others == {r \in owed.removals :
                        ~\E x \in back : x.addr = r.addr /\ x.struct = r.struct}
       IN  /\ owed' = [owed EXCEPT !.removals = others \cup again]
           /\ astray' = astray \cup
                  {x.addr : x \in {y \in back : IF y.tries >= 1 THEN Present(y.addr, y.struct)
                                                ELSE Wanted(y.addr, y.struct)}}
    /\ returned' = Tail(returned)
    /\ UNCHANGED <<rows, usable, gate, indexVars, adjusts, queued, writing, kernel, budget>>

\* What nft is to add, what it is to delete first, and the removals that come
\* back if the batch fails, one by address.
Batch(back) ==
    [busy |-> TRUE,
     adds |-> {[addr |-> w.addr, cap |-> w.cap] : w \in owed.writes},
     dels |-> {<<r.addr, r.struct>> : r \in owed.removals} \cup
              {<<w.addr, StructOf(w.cap)>> : w \in {x \in owed.writes : x.replace}},
     back |-> back]

Descarrega ==
    /\ owed # Nothing
    /\ ~queued.busy
    /\ \E back \in SUBSET owed.removals :
        /\ {r.addr : r \in back} = {r.addr : r \in owed.removals}
        /\ \A r, s \in back : r.addr = s.addr => r = s
        /\ queued' = Batch(back)
    /\ owed' = Nothing
    /\ UNCHANGED <<rows, usable, gate, indexVars, adjusts, writing, returned, kernel,
                   astray, budget>>

-----------------------------------------------------------------------------
(* The writer and the kernel: nft applies a whole script or nothing of it. *)

\* An absent element cannot be deleted, a mark cannot be changed in place.
Accepts(adds, dels) ==
    /\ \A x \in dels : Present(x[1], x[2])
    /\ \A x \in adds : LET s == StructOf(x.cap)
                       IN  <<x.addr, s>> \notin dels /\ Present(x.addr, s)
                              => kernel[x.addr][s].cap = x.cap

\* An add of an element that is there is accepted and changes nothing.
Applied(adds, dels) ==
    [a \in Addrs |-> [s \in Structs |->
        LET here == {x \in adds : x.addr = a /\ StructOf(x.cap) = s}
            left == IF <<a, s>> \in dels THEN Gone ELSE kernel[a][s]
        IN  IF left = Gone /\ here # {} THEN [cap |-> (CHOOSE x \in here : TRUE).cap, age |-> 0]
            ELSE left]]

Renewals(b) == {x \in b.adds : <<x.addr, StructOf(x.cap)>> \in b.dels}
LostRemovals(b) == {x \in b.dels : ~\E y \in b.adds : <<y.addr, StructOf(y.cap)>> = x}

\* The second script: what only enters, without what had to leave first.
SoAdds(b) == b.adds \ Renewals(b)

Answer(whole, failed) ==
    writing' = [busy |-> TRUE, whole |-> whole, failed |-> failed, batch |-> queued]

LoteInteiro ==
    /\ Accepts(queued.adds, queued.dels)
    /\ kernel' = Applied(queued.adds, queued.dels)
    /\ Answer(TRUE, FALSE)
    /\ UNCHANGED budget

\* The first script was refused or failed.
SoAdicoes ==
    /\ SoAdds(queued) # {} /\ Accepts(SoAdds(queued), {})
    /\ IF Accepts(queued.adds, queued.dels) THEN DomFault ELSE UNCHANGED budget
    /\ kernel' = Applied(SoAdds(queued), {})
    /\ Answer(FALSE, FALSE)

LotePerdido ==
    /\ \/ DomFault
       \/ /\ ~Accepts(queued.adds, queued.dels)
          /\ SoAdds(queued) = {} \/ ~Accepts(SoAdds(queued), {})
          /\ UNCHANGED budget
    /\ Answer(FALSE, TRUE)
    /\ UNCHANGED kernel

AplicaLote ==
    /\ queued.busy /\ ~writing.busy
    /\ LoteInteiro \/ SoAdicoes \/ LotePerdido
    /\ queued' = NoBatch
    /\ UNCHANGED <<rows, usable, gate, indexVars, adjusts, owed, returned, astray>>

Confirmed(r) == [r EXCEPT !.age = 0, !.cap = r.pend, !.pend = None, !.doubtful = FALSE]

NotConfirmed(r) == IF r.cap = None THEN NotKnown ELSE [r EXCEPT !.pend = None, !.doubtful = TRUE]

\* What the answer of a batch does not confirm, and the removals it leaves behind.
Added(b) == {x.addr : x \in b.adds}
Missed(w) ==
    IF w.whole THEN {} ELSE IF w.failed THEN Added(w.batch) ELSE {x.addr : x \in Renewals(w.batch)}
Lost(w) ==
    IF w.whole THEN {}
    ELSE IF w.failed THEN w.batch.back
    ELSE {r \in w.batch.back : \E x \in LostRemovals(w.batch) : x[1] = r.addr}

\* The record of an address once the index has heard the answer.
Heard(a) ==
    IF index[a].pend = None \/ a \notin Added(writing.batch) THEN index[a]
    ELSE IF a \in Missed(writing) THEN NotConfirmed(index[a]) ELSE Confirmed(index[a])

LoteVolta ==
    /\ writing.busy
    /\ index' = [a \in Addrs |-> Heard(a)]
    /\ returned' = IF Lost(writing) = {} THEN returned ELSE Append(returned, Lost(writing))
    /\ astray' = astray \cup
           {x[1] : x \in {y \in writing.batch.dels :
                            /\ ~writing.whole /\ Present(y[1], y[2]) /\ ~Holds(Heard(y[1]), y[2])
                            /\ ~\E r \in Lost(writing) : r.addr = y[1] /\ r.struct = y[2]}}
    /\ writing' = NoBatch
    /\ UNCHANGED <<rows, usable, gate, list, trialed, adjusts, owed, queued, kernel,
                   budget>>

-----------------------------------------------------------------------------
(* Time, and the process.                                                  *)

Carried(a) ==
    \/ \E p \in {adjusts, owed} : \E x \in p.writes \cup p.removals : x.addr = a
    \/ queued.busy /\ \E x \in queued.adds \cup queued.back : x.addr = a
    \/ writing.busy /\ \E x \in writing.batch.adds \cup writing.batch.back : x.addr = a
    \/ \E i \in DOMAIN returned : \E x \in returned[i] : x.addr = a

Aged(a) == {kernel[a][s].age : s \in Structs} \cup (IF Known(a) THEN {index[a].age} ELSE {})

\* Two thirds of a term last longer than any batch takes.
Passa(a) ==
    /\ (Known(a) /\ index[a].age < 2) \/ \E s \in Structs : Present(a, s)
    /\ Carried(a) => 0 \notin Aged(a)
    /\ kernel' = [kernel EXCEPT ![a] = [s \in Structs |->
                    IF kernel[a][s].age = 0 THEN [kernel[a][s] EXCEPT !.age = 1] ELSE Gone]]
    /\ index' = IF Known(a) /\ index[a].age < 2
                THEN [index EXCEPT ![a].age = @ + 1] ELSE index
    /\ UNCHANGED <<rows, usable, gate, list, trialed, pipeVars, astray, budget>>

\* Thirty seconds after the deadline the index forgets.
Poda(a) ==
    /\ Known(a) /\ index[a].pend = None /\ index[a].age = 2
    /\ index' = [index EXCEPT ![a] = NotKnown]
    /\ UNCHANGED <<rows, usable, gate, list, trialed, pipeVars, kernel, astray, budget>>

EnsaioVence(d, a) ==
    /\ a \in trialed[d]
    /\ trialed' = [trialed EXCEPT ![d] = @ \ {a}]
    /\ UNCHANGED <<rows, usable, gate, list, index, pipeVars, kernel, astray, budget>>

\* The process dies: the kernel keeps its elements, the gate is closed.
DomainRestart ==
    /\ DomFault
    /\ gate' = FALSE
    /\ list' = Resolve(rows, usable, FALSE)
    /\ index' = [a \in Addrs |-> NotKnown]
    /\ trialed' = [d \in Domains |-> {}]
    /\ adjusts' = Nothing /\ owed' = Nothing
    /\ queued' = NoBatch /\ writing' = NoBatch /\ returned' = <<>>
    /\ UNCHANGED <<rows, usable, kernel, astray>>

\* Provisioning empties the structures; it runs again, behind the index, when a
\* later attempt to install the base system succeeds.
Provisiona ==
    /\ IF gate THEN DomFault ELSE UNCHANGED budget
    /\ kernel' = [a \in Addrs |-> [s \in Structs |-> Gone]]
    /\ gate' = TRUE
    /\ DefineAlvos(Resolve(rows, usable, TRUE), IF gate THEN Addrs ELSE {})
    /\ UNCHANGED <<rows, usable, owed, queued, writing, returned>>

\* Hold: a step of the provisioning failed.
Segura ==
    /\ DomFault
    /\ gate' = FALSE
    /\ DefineAlvos(Resolve(rows, usable, FALSE), {})
    /\ UNCHANGED <<rows, usable, owed, queued, writing, returned, kernel>>

DomainNext ==
    \/ \E d \in Domains : EditRow(d) \/ \E a \in budget.addrs : \/ Aprende(d, a)
                                                         \/ AprendeEmEnsaio(d, a)
                                                         \/ EnsaioVence(d, a)
    \/ \E c \in Caps : Turns(c)
    \/ Reconcile \/ DrenaAjustes \/ RecolocaRemocoes \/ Descarrega
    \/ AplicaLote \/ LoteVolta
    \/ \E a \in Addrs : Passa(a) \/ Poda(a)
    \/ DomainRestart \/ Provisiona \/ Segura

-----------------------------------------------------------------------------

\* Type invariant; no domain holds more addresses than its share.
DomainTypeOK ==
    /\ rows \in [Domains -> {"absent", "trial"} \cup Caps]
    /\ list \in [Domains -> {"absent", "trial"} \cup Caps]
    /\ usable \subseteq Caps /\ gate \in BOOLEAN
    /\ index \in [Addrs -> [claims : SUBSET Domains, age : 0..2, cap : Caps \cup {None},
                            doubtful : BOOLEAN, pend : Caps \cup {None}]]
    /\ trialed \in [Domains -> SUBSET Addrs]
    /\ \A a \in Addrs : \A s \in Structs : kernel[a][s] \in [cap : Caps \cup {None}, age : 0..2]
    /\ astray \subseteq Addrs
    /\ \A d \in Domains : /\ Cardinality({a \in Addrs : d \in index[a].claims}) <= MaxPorDominio
                          /\ Cardinality(trialed[d]) <= MaxPorDominio

Settled(a) == gate /\ ~Carried(a) /\ a \notin astray

\* When nothing about an address is on its way, the kernel holds it exactly as
\* the index says, and not at all when no active domain claims it
\* (indice.go, the mirror and DefinirAlvos).
MirrorIsRight ==
    \A a \in Addrs : Settled(a) =>
        /\ \A s \in Structs : Present(a, s) => kernel[a][s].cap = index[a].cap
        /\ Known(a) /\ ~index[a].doubtful /\ index[a].age < 2
              => index[a].cap # None /\ Present(a, StructOf(index[a].cap))

\* An address the index waits for is in a batch on its way: a pending address
\* without one would never be written, renewed or forgotten.
PendingIsCarried ==
    \A a \in Addrs : index[a].pend # None =>
        \/ \E p \in {adjusts, owed} : \E w \in p.writes : w.addr = a
        \/ queued.busy /\ \E x \in queued.adds : x.addr = a
        \/ writing.busy /\ \E x \in writing.batch.adds : x.addr = a

\* When no domain is active any more, every element leaves the kernel in the
\* end, the ones gone astray with the others: an element has a deadline and
\* nothing renews it (indice.go Aprender, nftables/dominios.go DomTTLTeto).
OffIsOff ==
    Active(list) = {}
        ~> (Active(list) # {} \/ \A a \in Addrs : \A s \in Structs : ~Present(a, s))
=============================================================================
