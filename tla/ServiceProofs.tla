---------------------------- MODULE ServiceProofs ----------------------------
(***************************************************************************)
(* What three services guarantee for every bound. Of the queue of a WAN    *)
(* interface, for every set of plans: wherever an operation is cut, a row  *)
(* or a lease explains what tc shows, a fault has its lease, and the root  *)
(* of another program is left alone. An operation is followed as a path:   *)
(* the commands it has left lead from the chain to what it wants, those it *)
(* would undo lead back to where it began (PathTo).                        *)
(*                                                                         *)
(* Of the addresses that DNS teaches, for every set of domains, marks and  *)
(* addresses: the index and the kernel agree on an address about which     *)
(* nothing is on its way. Each address is followed through the pipe: what  *)
(* the record will say once the answer on its way is heard (Rec) is what   *)
(* the kernel holds, but for what is still to leave (Leaving).             *)
(*                                                                         *)
(* Of the time series, for every number of windows and readings: each      *)
(* reading is in the row of its window once, or still in memory. Buckets   *)
(* are closed in the order of their windows, so that a row is emitted      *)
(* once, when no reading of it can come any more (ClosedOnce).             *)
(***************************************************************************)
EXTENDS QueueControl, DomainTargets, MetricStore, FiniteNumbers, SequenceTheorems

-----------------------------------------------------------------------------
(* Queues: shapes *)

Aims == Plans \cup {Off}
Chains == [eg : Plans \cup {"none", "netem", "foreign"}, ifb : BOOLEAN,
           ing : Plans \cup {"none"}, red : BOOLEAN]
Commands == [part : {"eg"}, to : Plans \cup {"none", "netem"}]
            \cup [part : {"ifb", "red"}, to : BOOLEAN]
            \cup [part : {"ing"}, to : Plans \cup {"none"}]
LinkRows == {r \in [exists : BOOLEAN, on : BOOLEAN, qos : Aims] : r.on => r.exists}
LeaseRows == [target : Aims, recovery : Aims, before : SUBSET Plans, ifb : BOOLEAN]
Faults == {"outage", "degrade"}
Leased == {"update", "current", "bench", "repair"}
GoalLists == {<<>>} \cup {<<a>> : a \in Aims} \cup {<<a, b>> : a \in Aims, b \in Aims}
Jobs == [kind : Leased \cup Unleased \cup {"tear", "recover"},
         at : {"next", "write", "undo", "end"}, goals : GoalLists,
         todo : Seq(Commands), undo : Seq(Commands), ok : BOOLEAN, bad : BOOLEAN,
         new : LinkRows, had : {"none"} \cup Faults]

QueueShape ==
    /\ link \in LinkRows /\ chain \in Chains /\ carrier \in BOOLEAN
    /\ lease \in {NoLease} \cup LeaseRows /\ listed \in {NoLease} \cup LeaseRows
    /\ stress \in {"none"} \cup Faults /\ mode \in Faults
    /\ alien \in BOOLEAN /\ unrecorded \in BOOLEAN
    /\ job \in {Free} \cup Jobs

\* The commands of a list, in whatever order.
Those(s) == {s[i] : i \in DOMAIN s}
EgressOf(s) == {w \in Those(s) : w.part = "eg"}

\* The state a job is in.
JobIsWell ==
    job # Free =>
      /\ job.ok => ~job.bad
      /\ job.at = "undo" => ~job.ok
      /\ job.at = "write" => job.ok \/ job.kind = "tear"
      /\ job.at = "end" /\ job.ok => job.goals = <<>>
      /\ job.kind = "tear" => Those(job.undo) = {}
      /\ Those(job.todo) \cap [part : {"eg"}, to : {"netem"}] = {}

-----------------------------------------------------------------------------
(* Queues: faults and other programs *)

\* No command touches the root of another program, and only the end of a test
\* touches that of a fault, whose lease is there meanwhile.
RootsAreTheirs ==
    /\ alien = (chain.eg = "foreign")
    /\ job # Free =>
         /\ alien => EgressOf(job.todo) = {} /\ EgressOf(job.undo) = {}
         /\ chain.eg = "netem" /\ EgressOf(job.todo) # {} => job.kind \in Restorers
         /\ \A w \in EgressOf(job.undo) : w.to = "netem" => job.kind \in Restorers /\ stress = "degrade"

FaultsAreLeased ==
    /\ stress # "none" => mode = stress
    /\ ~carrier => stress = "outage"
    /\ chain.eg = "netem" => stress = "degrade"
    /\ test = "inject" => stress # "none"

\* A restoration that says it went well has put the link up and removed netem.
RestoresRemove ==
    job # Free /\ job.kind \in Restorers =>
      /\ job.had # "none" => stress = job.had /\ test # "inject"
      /\ job.goals \in {<<>>} \cup {<<a>> : a \in Aims}
      /\ job.ok => carrier
      /\ job.ok /\ job.goals = <<>> /\ job.at \in {"next", "end"} => chain.eg # "netem"
      /\ job.at = "write" => job.goals = <<>> /\ (chain.eg = "netem" => EgressOf(job.todo) # {})

-----------------------------------------------------------------------------
(* Queues: how a job gets where it goes, and back *)

Put(c, w) == [c EXCEPT ![w.part] = w.to]

\* f replays s from a.
Replays(f, s, a, b) ==
    /\ f \in [0..Len(s) -> Chains]
    /\ f[0] = a /\ f[Len(s)] = b
    /\ \A i \in 1..Len(s) : f[i] = Put(f[i - 1], s[i])
PathTo(s, a, b) == \E f \in [0..Len(s) -> Chains] : Replays(f, s, a, b)

WholeOf(c) == c.eg \in Plans /\ c.ifb /\ c.ing \in Plans /\ c.red
BareOf(c) == c.eg = "none" /\ c.ing = "none" /\ ~c.red
\* Neither torn nor another's: whole, bare, a root alone, or below a fault.
Mended(c) ==
    \/ WholeOf(c) \/ BareOf(c)
    \/ c.eg \in Plans /\ ~c.ifb /\ c.ing = "none" /\ ~c.red
    \/ c.eg = "netem" /\ (c.ing \in Plans) = c.red
    \/ c.eg = "foreign" /\ c.ing = "none" /\ ~c.red
Asked(r) == IF r.on THEN r.qos ELSE Off
FitsFor(c, a) == IF a = Off THEN BareOf(c) ELSE c = WholeChain(a)
Done(c, a) == Mended(c) /\ (c.eg # "netem" => FitsFor(c, a))

Covered == ~unrecorded /\ ~alien
\* What the chain is while nobody holds the lock and no lease describes it.
Kept(c) ==
    /\ Mended(c)
    /\ due = "nothing" /\ stress = "none" => FitsFor(c, Effective)
    /\ (due = "nothing" \/ ~link.exists) /\ Effective = Off /\ c.eg # "netem" => BareOf(c)

ChainIsKept == Covered /\ lease = NoLease /\ job = Free => Kept(chain)

\* What a job wants in the end, and whether it writes at all.
Wants == IF job.kind \in {"update", "link"} THEN Asked(job.new) ELSE Effective
IsIdle == job.kind = "link" /\ (link.qos = Off \/ job.new.on)
Answers == job.kind \in {"update", "current", "repair"}
           \/ (job.kind \in Unleased /\ lease = NoLease /\ ~IsIdle)

JobsArrive ==
    Covered /\ job # Free /\ Answers /\ job.ok =>
      /\ job.at = "next" /\ job.goals # <<>> => job.goals = <<Wants>> /\ (Wants = Off => Mended(chain))
      /\ job.at = "write" => job.goals = <<>> /\ \E c \in Chains : PathTo(job.todo, chain, c) /\ Done(c, Wants)
      /\ job.at \in {"next", "end"} /\ job.goals = <<>> => Done(chain, Wants)

\* What a job that fails and undoes what it did comes back to.
Home(c) == IF job.kind = "putback" THEN Mended(c) ELSE Kept(c)
ComesBack == job.kind = "update" \/ (job.kind \in Unleased /\ lease = NoLease)

JobsComeBack ==
    Covered /\ job # Free /\ ComesBack =>
      /\ job.at = "next" /\ (job.goals # <<>> \/ ~job.ok) => Home(chain)
      /\ job.at \in {"write", "undo"} /\ ~job.bad => \E c \in Chains : PathTo(job.undo, chain, c) /\ Home(c)
      /\ job.at = "end" /\ ~job.ok /\ ~job.bad => Home(chain)
      /\ IsIdle => Kept(chain) /\ job.at \in {"next", "end"} /\ job.goals = <<>> /\ job.ok

\* A restoration with nothing to put back changes nothing; with the queue off
\* it leaves the root bare or under the fault, whatever fails on the way.
RestoresAreSafe ==
    Covered /\ job # Free /\ job.kind \in Restorers /\ lease = NoLease =>
      /\ due = "nothing" /\ stress = "none" =>
           /\ FitsFor(chain, Effective)
           /\ \A w \in Those(job.todo) \cup Those(job.undo) : Put(chain, w) = chain
      /\ (due = "nothing" \/ ~link.exists) /\ Effective = Off =>
           /\ chain.eg \in {"none", "netem"}
           /\ \A w \in EgressOf(job.todo) \cup EgressOf(job.undo) : w.to \in {"none", "netem"}

JobsHaveLeases ==
    job # Free =>
      /\ job.kind \in Leased => lease \in LeaseRows /\ lease.recovery = Effective
      /\ job.kind = "bench" => lease.recovery # Off
      /\ job.kind = "update" => job.new.exists = link.exists
      /\ job.kind = "link" => job.new # link
      /\ job.kind = "current" => job.new = link
      /\ job.kind \in {"link", "putback"} => link.exists
      /\ job.kind = "link" => (IF link.qos # Off /\ ~job.new.on THEN TRUE ELSE job.goals = <<>>)
      /\ job.kind \in {"tear", "recover"} => due = "recovering"

\* Recovery tears down all there is before it puts anything back.
RecoveryIsWhole ==
    /\ due \in {"lock", "recovering"} => listed \in LeaseRows
    /\ Covered /\ job # Free /\ job.kind \in {"tear", "recover"} /\ job.ok =>
         /\ job.kind = "tear" /\ job.at = "write" => \E c \in Chains : PathTo(job.todo, chain, c) /\ BareOf(c)
         /\ job.kind = "tear" /\ job.at \in {"next", "end"} => BareOf(chain)
         /\ job.kind = "tear" /\ job.goals # <<>> => link.exists /\ \E a \in Plans : job.goals = <<a>>
         /\ job.kind = "recover" => link.exists /\ job.goals = <<>> /\ job.at \in {"write", "next", "end"}
         /\ job.kind = "recover" /\ job.at = "write" => \E c \in Chains : PathTo(job.todo, chain, c) /\ WholeOf(c)
         /\ job.kind = "recover" /\ job.at \in {"next", "end"} => WholeOf(chain)

QueueInv ==
    /\ QueueShape /\ JobIsWell /\ RootsAreTheirs /\ FaultsAreLeased /\ RestoresRemove
    /\ ChainIsKept /\ JobsHaveLeases /\ JobsArrive /\ JobsComeBack /\ RestoresAreSafe /\ RecoveryIsWhole

LEMMA PutIs ==
    ASSUME NEW c \in Chains, NEW w \in Commands
    PROVE  /\ Put(c, w) \in Chains \/ w.part = "eg"
           /\ w.part = "eg" => Put(c, w) = [c EXCEPT !.eg = w.to] /\ Put(c, w) \in Chains /\ w.to \in Plans \cup {"none", "netem"}
           /\ w.part = "ifb" => Put(c, w) = [c EXCEPT !.ifb = w.to] /\ w.to \in BOOLEAN
           /\ w.part = "ing" => Put(c, w) = [c EXCEPT !.ing = w.to] /\ w.to \in Plans \cup {"none"}
           /\ w.part = "red" => Put(c, w) = [c EXCEPT !.red = w.to] /\ w.to \in BOOLEAN
           /\ Put(c, w) \in Chains
  BY DEF Put, Chains, Commands

LEMMA ThoseOf ==
    /\ Those(<<>>) = {}
    /\ \A w : Those(<<w>>) = {w}
    /\ \A s, t : s \in Seq(Commands) /\ t \in Seq(Commands) =>
         s \o t \in Seq(Commands) /\ Those(s \o t) = Those(s) \cup Those(t)
    /\ \A s \in Seq(Commands) : Those(s) \subseteq Commands
    /\ \A s \in Seq(Commands) : s # <<>> =>
         /\ Head(s) \in Commands /\ Tail(s) \in Seq(Commands)
         /\ Those(s) = {Head(s)} \cup Those(Tail(s))
<1>1. Those(<<>>) = {}
  BY DEF Those
<1>2. \A w : Those(<<w>>) = {w}
  BY DEF Those
<1>3. ASSUME NEW s \in Seq(Commands), NEW t \in Seq(Commands)
      PROVE  s \o t \in Seq(Commands) /\ Those(s \o t) = Those(s) \cup Those(t)
  <2>1. s \o t \in Seq(Commands) /\ Len(s \o t) = Len(s) + Len(t) /\ Len(s) \in Nat /\ Len(t) \in Nat
    OBVIOUS
  <2>2. \A i \in 1..(Len(s) + Len(t)) : (s \o t)[i] = IF i <= Len(s) THEN s[i] ELSE t[i - Len(s)]
    OBVIOUS
  <2>3. DOMAIN s = 1..Len(s) /\ DOMAIN t = 1..Len(t) /\ DOMAIN (s \o t) = 1..(Len(s) + Len(t))
    BY <2>1
  <2>4. Those(s \o t) \subseteq Those(s) \cup Those(t)
    BY <2>1, <2>2, <2>3 DEF Those
  <2>5. ASSUME NEW i \in 1..Len(s) PROVE s[i] = (s \o t)[i] /\ i \in 1..(Len(s) + Len(t))
    BY <2>1, <2>2
  <2>6. ASSUME NEW i \in 1..Len(t) PROVE t[i] = (s \o t)[Len(s) + i] /\ Len(s) + i \in 1..(Len(s) + Len(t))
    BY <2>1, <2>2
  <2>7. Those(s) \cup Those(t) \subseteq Those(s \o t)
    BY <2>3, <2>5, <2>6 DEF Those
  <2> QED  BY <2>1, <2>4, <2>7
<1>4. \A s \in Seq(Commands) : Those(s) \subseteq Commands
  BY DEF Those
<1>5. ASSUME NEW s \in Seq(Commands), s # <<>>
      PROVE  /\ Head(s) \in Commands /\ Tail(s) \in Seq(Commands)
             /\ Those(s) = {Head(s)} \cup Those(Tail(s))
  <2>1. Len(s) \in Nat \ {0} /\ DOMAIN s = 1..Len(s) /\ Head(s) = s[1] /\ Tail(s) \in Seq(Commands)
        /\ Len(Tail(s)) = Len(s) - 1 /\ \A i \in 1..(Len(s) - 1) : Tail(s)[i] = s[i + 1]
    BY <1>5
  <2>2. DOMAIN Tail(s) = 1..(Len(s) - 1)
    BY <2>1
  <2>3. s[1] \in Commands /\ s[1] \in Those(s)
    BY <2>1 DEF Those
  <2>4. \A i \in 1..Len(s) : i = 1 \/ (i - 1 \in 1..(Len(s) - 1) /\ s[i] = Tail(s)[i - 1])
    BY <2>1
  <2>5. \A i \in 1..(Len(s) - 1) : i + 1 \in 1..Len(s) /\ Tail(s)[i] = s[i + 1]
    BY <2>1
  <2>6. Those(s) \subseteq {s[1]} \cup Those(Tail(s))
    <3>1. ASSUME NEW x \in Those(s) PROVE x \in {s[1]} \cup Those(Tail(s))
      <4>1. PICK i \in 1..Len(s) : x = s[i]
        BY <2>1, <3>1 DEF Those
      <4>2. CASE i # 1
        <5>1. i - 1 \in DOMAIN Tail(s) /\ x = Tail(s)[i - 1]
          BY <2>2, <2>4, <4>1, <4>2
        <5> QED  BY <5>1 DEF Those
      <4> QED  BY <4>1, <4>2
    <3> QED  BY <3>1
  <2>7. Those(Tail(s)) \subseteq Those(s)
    BY <2>1, <2>2, <2>5 DEF Those
  <2> QED  BY <2>1, <2>3, <2>6, <2>7
<1> QED  BY <1>1, <1>2, <1>3, <1>4, <1>5

LEMMA PathEnds ==
    \A a, b \in Chains : PathTo(<<>>, a, b) <=> a = b
<1> SUFFICES ASSUME NEW a \in Chains, NEW b \in Chains PROVE PathTo(<<>>, a, b) <=> a = b
  OBVIOUS
<1>1. Len(<<>>) = 0 /\ 0..0 = {0} /\ 1..0 = {}
  OBVIOUS
<1>2. PathTo(<<>>, a, b) => a = b
  BY <1>1 DEF PathTo, Replays
<1>3. ASSUME a = b PROVE PathTo(<<>>, a, b)
  <2>1. Replays([i \in 0..0 |-> a], <<>>, a, b)
    BY <1>1, <1>3 DEF Replays
  <2> QED  BY <1>1, <2>1 DEF PathTo
<1> QED  BY <1>2, <1>3

LEMMA PathSteps ==
    ASSUME NEW s \in Seq(Commands), s # <<>>, NEW a \in Chains, NEW b \in Chains, PathTo(s, a, b)
    PROVE  PathTo(Tail(s), Put(a, Head(s)), b)
<1>1. PICK f \in [0..Len(s) -> Chains] : Replays(f, s, a, b)
  BY DEF PathTo
<1> DEFINE n == Len(s) - 1
           g == [i \in 0..n |-> f[i + 1]]
<1>2. Len(s) \in Nat \ {0} /\ n \in Nat /\ n + 1 = Len(s) /\ Head(s) = s[1] /\ Tail(s) \in Seq(Commands)
      /\ Len(Tail(s)) = n /\ \A i \in 1..n : Tail(s)[i] = s[i + 1]
  OBVIOUS
<1> HIDE DEF n
<1>3. \A i \in 0..n : i + 1 \in 0..Len(s)
  BY <1>2
<1>4. g \in [0..n -> Chains]
  BY <1>3
<1>5. g[0] = Put(a, Head(s)) /\ g[n] = b
  <2>1. 0 \in 0..n /\ n \in 0..n /\ 1 \in 1..Len(s)
    BY <1>2
  <2>2. g[0] = f[1] /\ g[n] = f[n + 1]
    BY <2>1
  <2>3. f[1] = Put(f[1 - 1], s[1]) /\ f[0] = a /\ f[Len(s)] = b
    BY <1>1, <2>1 DEF Replays
  <2> QED  BY <1>2, <2>2, <2>3
<1>6. ASSUME NEW i \in 1..n PROVE g[i] = Put(g[i - 1], Tail(s)[i])
  <2>1. i \in 0..n /\ i - 1 \in 0..n /\ i + 1 \in 1..Len(s) /\ (i + 1) - 1 = i /\ (i - 1) + 1 = i
    BY <1>2
  <2>2. g[i] = f[i + 1] /\ g[i - 1] = f[i]
    BY <2>1
  <2>3. f[i + 1] = Put(f[i], s[i + 1])
    BY <1>1, <2>1 DEF Replays
  <2> QED  BY <1>2, <2>2, <2>3
<1> HIDE DEF g
<1> QED  BY <1>2, <1>4, <1>5, <1>6 DEF PathTo, Replays

LEMMA PathJoins ==
    ASSUME NEW s \in Seq(Commands), NEW t \in Seq(Commands),
           NEW a \in Chains, NEW b \in Chains, NEW c \in Chains, PathTo(s, a, b), PathTo(t, b, c)
    PROVE  PathTo(s \o t, a, c)
<1>1. PICK f \in [0..Len(s) -> Chains] : Replays(f, s, a, b)
  BY DEF PathTo
<1>2. PICK h \in [0..Len(t) -> Chains] : Replays(h, t, b, c)
  BY DEF PathTo
<1> DEFINE r == s \o t
           m == Len(s)
           n == Len(t)
           g == [i \in 0..(m + n) |-> IF i <= m THEN f[i] ELSE h[i - m]]
<1>3. m \in Nat /\ n \in Nat /\ Len(r) = m + n
      /\ \A i \in 1..(m + n) : r[i] = IF i <= m THEN s[i] ELSE t[i - m]
  OBVIOUS
<1>4. /\ f \in [0..m -> Chains] /\ f[0] = a /\ f[m] = b /\ \A i \in 1..m : f[i] = Put(f[i - 1], s[i])
      /\ h \in [0..n -> Chains] /\ h[0] = b /\ h[n] = c /\ \A i \in 1..n : h[i] = Put(h[i - 1], t[i])
  BY <1>1, <1>2 DEF Replays
<1> HIDE DEF r, m, n
<1>5. g \in [0..(m + n) -> Chains]
  BY <1>3, <1>4
<1>6. g[0] = a /\ g[m + n] = c
  <2>1. 0 \in 0..(m + n) /\ m + n \in 0..(m + n) /\ 0 <= m /\ (m + n) - m = n
    BY <1>3
  <2>2. g[0] = f[0] /\ g[m + n] = IF m + n <= m THEN f[m + n] ELSE h[n]
    BY <2>1
  <2>3. CASE n = 0
    <3>1. m + n = m /\ m + n <= m
      BY <1>3, <2>3
    <3> QED  BY <1>4, <2>2, <2>3, <3>1
  <2>4. CASE n # 0
    <3>1. ~(m + n <= m)
      BY <1>3, <2>4
    <3> QED  BY <1>4, <2>2, <3>1
  <2> QED  BY <2>3, <2>4
<1>7. ASSUME NEW i \in 1..(m + n) PROVE g[i] = Put(g[i - 1], r[i])
  <2>1. i \in 0..(m + n) /\ i - 1 \in 0..(m + n)
    BY <1>3
  <2>2. CASE i <= m
    <3>1. i \in 1..m /\ i - 1 <= m
      BY <1>3, <2>2
    <3>2. g[i] = f[i] /\ g[i - 1] = f[i - 1] /\ r[i] = s[i]
      BY <1>3, <2>1, <2>2, <3>1
    <3> QED  BY <1>4, <3>1, <3>2
  <2>3. CASE i = m + 1
    <3>1. ~(i <= m) /\ i - 1 <= m /\ i - 1 = m /\ i - m = 1 /\ 1 \in 1..n /\ 1 - 1 = 0
      BY <1>3, <2>3
    <3>2. g[i] = h[1] /\ g[i - 1] = f[m] /\ r[i] = t[1]
      BY <1>3, <2>1, <3>1
    <3>3. h[1] = Put(h[0], t[1])
      BY <1>4, <3>1
    <3> QED  BY <1>4, <3>2, <3>3
  <2>4. CASE i > m + 1
    <3>1. ~(i <= m) /\ ~(i - 1 <= m) /\ i - m \in 1..n /\ (i - 1) - m = (i - m) - 1
      BY <1>3, <2>4
    <3>2. g[i] = h[i - m] /\ g[i - 1] = h[(i - m) - 1] /\ r[i] = t[i - m]
      BY <1>3, <2>1, <3>1
    <3> QED  BY <1>4, <3>1, <3>2
  <2> QED  BY <1>3, <2>2, <2>3, <2>4
<1> HIDE DEF g
<1>8. Replays(g, r, a, c)
  BY <1>3, <1>5, <1>6, <1>7 DEF Replays
<1> QED  BY <1>3, <1>5, <1>8 DEF PathTo, r

LEMMA PathOfOne ==
    ASSUME NEW w \in Commands, NEW a \in Chains
    PROVE  Put(a, w) \in Chains /\ <<w>> \in Seq(Commands) /\ PathTo(<<w>>, a, Put(a, w))
<1> DEFINE f == [i \in 0..1 |-> IF i = 0 THEN a ELSE Put(a, w)]
<1>1. Put(a, w) \in Chains /\ <<w>> \in Seq(Commands)
  BY PutIs
<1>2. Len(<<w>>) = 1 /\ <<w>>[1] = w
  OBVIOUS
<1>3. f \in [0..1 -> Chains] /\ f[0] = a /\ f[1] = Put(a, w)
  BY <1>1
<1>4. \A i \in 1..1 : f[i] = Put(f[i - 1], <<w>>[i])
  <2>1. \A i \in 1..1 : i = 1 /\ i - 1 = 0
    OBVIOUS
  <2> QED  BY <1>2, <1>3, <2>1
<1> HIDE DEF f
<1>5. Replays(f, <<w>>, a, Put(a, w))
  BY <1>2, <1>3, <1>4 DEF Replays
<1> QED  BY <1>1, <1>2, <1>3, <1>5 DEF PathTo

LEMMA PathGrows ==
    ASSUME NEW s \in Seq(Commands), NEW w \in Commands, NEW a \in Chains, NEW b \in Chains,
           PathTo(s, Put(a, w), b)
    PROVE  PathTo(<<w>> \o s, a, b)
  BY PathOfOne, PathJoins

\* A command that is there or not.
LEMMA PathOfWhen ==
    ASSUME NEW q \in BOOLEAN, NEW part, NEW to, [part |-> part, to |-> to] \in Commands, NEW a \in Chains
    PROVE  /\ When(q, Set(part, to)) \in Seq(Commands) /\ Set(part, to) \in Seq(Commands)
           /\ Those(When(q, Set(part, to))) = IF q THEN {[part |-> part, to |-> to]} ELSE {}
           /\ Those(Set(part, to)) = {[part |-> part, to |-> to]}
           /\ PathTo(Set(part, to), a, Put(a, [part |-> part, to |-> to]))
           /\ PathTo(When(q, Set(part, to)), a, IF q THEN Put(a, [part |-> part, to |-> to]) ELSE a)
<1>1. <<>> \in Seq(Commands)
  OBVIOUS
<1> QED  BY <1>1, PathOfOne, PathEnds, ThoseOf DEF When, Set

\* Named commands, and what they do to a chain.
Cmd(part, to) == [part |-> part, to |-> to]

LEMMA CommandsAre ==
    /\ \A p \in Plans \cup {"none"} : Cmd("eg", p) \in Commands /\ Cmd("ing", p) \in Commands
    /\ \A b \in BOOLEAN : Cmd("ifb", b) \in Commands /\ Cmd("red", b) \in Commands
  BY DEF Cmd, Commands

LEMMA PutsAre ==
    ASSUME NEW c \in Chains
    PROVE  /\ \A p \in Plans \cup {"none"} :
                /\ Put(c, Cmd("eg", p)) \in Chains /\ Put(c, Cmd("ing", p)) \in Chains
                /\ Put(c, Cmd("eg", p)).eg = p /\ Put(c, Cmd("eg", p)).ifb = c.ifb
                /\ Put(c, Cmd("eg", p)).ing = c.ing /\ Put(c, Cmd("eg", p)).red = c.red
                /\ Put(c, Cmd("ing", p)).eg = c.eg /\ Put(c, Cmd("ing", p)).ifb = c.ifb
                /\ Put(c, Cmd("ing", p)).ing = p /\ Put(c, Cmd("ing", p)).red = c.red
           /\ \A b \in BOOLEAN :
                /\ Put(c, Cmd("ifb", b)) \in Chains /\ Put(c, Cmd("red", b)) \in Chains
                /\ Put(c, Cmd("ifb", b)).eg = c.eg /\ Put(c, Cmd("ifb", b)).ifb = b
                /\ Put(c, Cmd("ifb", b)).ing = c.ing /\ Put(c, Cmd("ifb", b)).red = c.red
                /\ Put(c, Cmd("red", b)).eg = c.eg /\ Put(c, Cmd("red", b)).ifb = c.ifb
                /\ Put(c, Cmd("red", b)).ing = c.ing /\ Put(c, Cmd("red", b)).red = b
  BY DEF Put, Cmd, Chains

\* The commands V of s, one after another, lead from a to b.
Leads(s, V, a, b) == s \in Seq(Commands) /\ Those(s) = V /\ b \in Chains /\ PathTo(s, a, b)

LEMMA LeadsJoin ==
    ASSUME NEW s, NEW t, NEW V, NEW W, NEW a \in Chains, NEW b, NEW c, Leads(s, V, a, b), Leads(t, W, b, c)
    PROVE  Leads(s \o t, V \cup W, a, c)
<1>1. s \o t \in Seq(Commands) /\ Those(s \o t) = Those(s) \cup Those(t)
  BY ThoseOf DEF Leads
<1>2. PathTo(s \o t, a, c)
  BY PathJoins DEF Leads
<1> QED  BY <1>1, <1>2 DEF Leads

LEMMA LeadsOne ==
    ASSUME NEW part, NEW to, Cmd(part, to) \in Commands, NEW a \in Chains
    PROVE  /\ Leads(Set(part, to), {Cmd(part, to)}, a, Put(a, Cmd(part, to)))
           /\ \A q \in BOOLEAN :
                Leads(When(q, Set(part, to)), IF q THEN {Cmd(part, to)} ELSE {}, a,
                      IF q THEN Put(a, Cmd(part, to)) ELSE a)
<1>1. Put(a, Cmd(part, to)) \in Chains
  BY PutIs
<1> QED  BY <1>1, PathOfWhen DEF Leads, Cmd

LEMMA NothingJoins == \A s \in Seq(Commands) : <<>> \o s \o <<>> = s
<1> SUFFICES ASSUME NEW s \in Seq(Commands) PROVE <<>> \o s \o <<>> = s
  OBVIOUS
<1> DEFINE r == <<>> \o s \o <<>>
<1>1. r \in Seq(Commands) /\ Len(r) = Len(s) /\ Len(s) \in Nat /\ \A i \in 1..Len(s) : r[i] = s[i]
  OBVIOUS
<1> HIDE DEF r
<1>2. r = s
  BY <1>1
<1> QED  BY <1>2 DEF r

\* The commands that put a plan make the whole chain of it, over anything.
LEMMA WritesOfPlan ==
    ASSUME chain \in Chains, NEW p \in Plans
    PROVE  Leads(Writes(p), (IF chain.eg = "netem" THEN {Cmd("eg", "none")} ELSE {})
                            \cup {Cmd("eg", p), Cmd("ing", p), Cmd("red", TRUE)}
                            \cup (IF chain.ifb THEN {} ELSE {Cmd("ifb", TRUE)}),
                 chain, WholeChain(p))
<1>1. Writes(p) = When(chain.eg = "netem", Set("eg", "none")) \o Set("eg", p)
                  \o When(~chain.ifb, Set("ifb", TRUE)) \o Set("ing", p) \o Set("red", TRUE)
  BY QueueControlAssumption DEF Writes, Off
<1>2. Cmd("eg", "none") \in Commands /\ Cmd("eg", p) \in Commands /\ Cmd("ifb", TRUE) \in Commands
      /\ Cmd("ing", p) \in Commands /\ Cmd("red", TRUE) \in Commands
  BY CommandsAre
<1>3. chain.ifb \in BOOLEAN /\ (chain.eg = "netem") \in BOOLEAN /\ (~chain.ifb) \in BOOLEAN
  BY DEF Chains
<1>4. PICK c1 : c1 = IF chain.eg = "netem" THEN Put(chain, Cmd("eg", "none")) ELSE chain
  OBVIOUS
<1>5. c1 \in Chains /\ c1.ifb = chain.ifb
  BY <1>4, PutsAre
<1>6. Leads(When(chain.eg = "netem", Set("eg", "none")), IF chain.eg = "netem" THEN {Cmd("eg", "none")} ELSE {},
            chain, c1)
  BY <1>2, <1>3, <1>4, LeadsOne
<1>7. PICK c2 : c2 = Put(c1, Cmd("eg", p))
  OBVIOUS
<1>8. c2 \in Chains /\ c2.eg = p /\ c2.ifb = chain.ifb
  BY <1>5, <1>7, PutsAre
<1>9. Leads(Set("eg", p), {Cmd("eg", p)}, c1, c2)
  BY <1>2, <1>5, <1>7, LeadsOne
<1>10. PICK c3 : c3 = IF ~chain.ifb THEN Put(c2, Cmd("ifb", TRUE)) ELSE c2
  OBVIOUS
<1>11. c3 \in Chains /\ c3.eg = p /\ c3.ifb
  BY <1>3, <1>8, <1>10, PutsAre
<1>12. Leads(When(~chain.ifb, Set("ifb", TRUE)), IF ~chain.ifb THEN {Cmd("ifb", TRUE)} ELSE {}, c2, c3)
  BY <1>2, <1>3, <1>8, <1>10, LeadsOne
<1>13. PICK c4 : c4 = Put(c3, Cmd("ing", p))
  OBVIOUS
<1>14. c4 \in Chains /\ c4.eg = p /\ c4.ifb /\ c4.ing = p
  BY <1>11, <1>13, PutsAre
<1>15. Leads(Set("ing", p), {Cmd("ing", p)}, c3, c4)
  BY <1>2, <1>11, <1>13, LeadsOne
<1>16. PICK c5 : c5 = Put(c4, Cmd("red", TRUE))
  OBVIOUS
<1>17. c5 \in Chains /\ c5.eg = p /\ c5.ifb /\ c5.ing = p /\ c5.red
  BY <1>14, <1>16, PutsAre
<1>18. Leads(Set("red", TRUE), {Cmd("red", TRUE)}, c4, c5)
  BY <1>2, <1>14, <1>16, LeadsOne
<1>19. c5 = WholeChain(p)
  BY <1>17 DEF Chains, WholeChain
<1>20. Leads(Writes(p), (IF chain.eg = "netem" THEN {Cmd("eg", "none")} ELSE {}) \cup {Cmd("eg", p)}
                        \cup (IF ~chain.ifb THEN {Cmd("ifb", TRUE)} ELSE {}) \cup {Cmd("ing", p)}
                        \cup {Cmd("red", TRUE)}, chain, c5)
  <2> DEFINE s1 == When(chain.eg = "netem", Set("eg", "none"))
             s3 == When(~chain.ifb, Set("ifb", TRUE))
             V1 == IF chain.eg = "netem" THEN {Cmd("eg", "none")} ELSE {}
             V3 == IF ~chain.ifb THEN {Cmd("ifb", TRUE)} ELSE {}
  <2>1. Leads(s1, V1, chain, c1) /\ Leads(s3, V3, c2, c3)
    BY <1>6, <1>12
  <2> HIDE DEF s1, s3, V1, V3
  <2>2. Leads(s1 \o Set("eg", p), V1 \cup {Cmd("eg", p)}, chain, c2)
    BY <1>5, <1>9, <2>1, LeadsJoin
  <2>3. Leads(s1 \o Set("eg", p) \o s3, V1 \cup {Cmd("eg", p)} \cup V3, chain, c3)
    BY <1>8, <2>1, <2>2, LeadsJoin
  <2>4. Leads(s1 \o Set("eg", p) \o s3 \o Set("ing", p), V1 \cup {Cmd("eg", p)} \cup V3 \cup {Cmd("ing", p)},
              chain, c4)
    BY <1>11, <1>15, <2>3, LeadsJoin
  <2>5. Leads(s1 \o Set("eg", p) \o s3 \o Set("ing", p) \o Set("red", TRUE),
              V1 \cup {Cmd("eg", p)} \cup V3 \cup {Cmd("ing", p)} \cup {Cmd("red", TRUE)}, chain, c5)
    BY <1>14, <1>18, <2>4, LeadsJoin
  <2> QED  BY <1>1, <2>5 DEF s1, s3, V1, V3
<1>21. (IF chain.eg = "netem" THEN {Cmd("eg", "none")} ELSE {}) \cup {Cmd("eg", p)}
       \cup (IF ~chain.ifb THEN {Cmd("ifb", TRUE)} ELSE {}) \cup {Cmd("ing", p)} \cup {Cmd("red", TRUE)}
       = (IF chain.eg = "netem" THEN {Cmd("eg", "none")} ELSE {})
         \cup {Cmd("eg", p), Cmd("ing", p), Cmd("red", TRUE)}
         \cup (IF chain.ifb THEN {} ELSE {Cmd("ifb", TRUE)})
  OBVIOUS
<1> QED  BY <1>19, <1>20, <1>21

\* What the commands that take the queue away make of the chain.
Cleared ==
    IF chain.eg = "netem" /\ job.kind \in Restorers
    THEN [eg |-> "none", ifb |-> chain.ifb /\ chain.ing \notin Plans, ing |-> "none", red |-> FALSE]
    ELSE IF ChainOwned THEN Bare ELSE IF EgressOwned THEN [chain EXCEPT !.eg = "none"] ELSE chain

LEMMA WritesOfOff ==
    ASSUME chain \in Chains
    PROVE  \E V : /\ Leads(Writes(Off), V, chain, Cleared)
                  /\ V \subseteq {Cmd("red", FALSE), Cmd("eg", "none"), Cmd("ing", "none"), Cmd("ifb", FALSE)}
                  /\ Cmd("eg", "none") \in V <=> (chain.eg = "netem" /\ job.kind \in Restorers) \/ EgressOwned
                  /\ chain.eg = "none" => V = {} \/ ChainOwned
<1>1. Cmd("red", FALSE) \in Commands /\ Cmd("eg", "none") \in Commands /\ Cmd("ing", "none") \in Commands
      /\ Cmd("ifb", FALSE) \in Commands
  BY CommandsAre
<1>2. ChainOwned \in BOOLEAN /\ EgressOwned \in BOOLEAN /\ chain.red \in BOOLEAN /\ (chain.ing \in Plans) \in BOOLEAN
      /\ (ChainOwned => EgressOwned) /\ chain.ifb \in BOOLEAN /\ chain.ing \in Plans \cup {"none"}
  <2>1. chain.red \in BOOLEAN /\ chain.ifb \in BOOLEAN /\ chain.ing \in Plans \cup {"none"}
    BY DEF Chains
  <2>2. ChainOwned \in BOOLEAN /\ (ChainOwned => chain.ifb)
    BY DEF ChainOwned
  <2>3. EgressOwned \in BOOLEAN /\ (ChainOwned => EgressOwned)
    <3>1. CASE chain.ifb
      BY <2>2, <3>1 DEF EgressOwned
    <3>2. CASE ~chain.ifb
      BY <2>2, <3>2 DEF EgressOwned
    <3> QED  BY <2>1, <3>1, <3>2
  <2> QED  BY <2>1, <2>2, <2>3
<1>3. /\ Cmd("red", FALSE) # Cmd("eg", "none") /\ Cmd("ing", "none") # Cmd("eg", "none")
      /\ Cmd("ifb", FALSE) # Cmd("eg", "none")
  BY DEF Cmd
<1>5. CASE chain.eg = "netem" /\ job.kind \in Restorers
  <2> DEFINE q == chain.ing \in Plans
             s1 == When(chain.red, Set("red", FALSE))
             s3 == When(q, Set("ing", "none") \o Set("ifb", FALSE))
             V1 == IF chain.red THEN {Cmd("red", FALSE)} ELSE {}
             V3 == IF q THEN {Cmd("ing", "none")} \cup {Cmd("ifb", FALSE)} ELSE {}
  <2>1. Writes(Off) = s1 \o Set("eg", "none") \o s3
    BY <1>5 DEF Writes
  <2>2. PICK c1 : c1 = IF chain.red THEN Put(chain, Cmd("red", FALSE)) ELSE chain
    OBVIOUS
  <2>3. c1 \in Chains /\ ~c1.red /\ c1.ing = chain.ing /\ c1.ifb = chain.ifb
    BY <1>2, <2>2, PutsAre
  <2>4. Leads(s1, V1, chain, c1)
    BY <1>1, <1>2, <2>2, LeadsOne
  <2>5. PICK c2 : c2 = Put(c1, Cmd("eg", "none"))
    OBVIOUS
  <2>6. c2 \in Chains /\ ~c2.red /\ c2.eg = "none" /\ c2.ing = chain.ing /\ c2.ifb = chain.ifb
    BY <2>3, <2>5, PutsAre
  <2>7. Leads(Set("eg", "none"), {Cmd("eg", "none")}, c1, c2)
    BY <1>1, <2>3, <2>5, LeadsOne
  <2>8. PICK c3 : c3 = Put(c2, Cmd("ing", "none"))
    OBVIOUS
  <2>9. c3 \in Chains /\ ~c3.red /\ c3.eg = "none" /\ c3.ing = "none" /\ c3.ifb = chain.ifb
    BY <2>6, <2>8, PutsAre
  <2>10. PICK c4 : c4 = Put(c3, Cmd("ifb", FALSE))
    OBVIOUS
  <2>11. c4 \in Chains /\ ~c4.red /\ c4.eg = "none" /\ c4.ing = "none" /\ ~c4.ifb
    BY <2>9, <2>10, PutsAre
  <2>12. Leads(Set("ing", "none") \o Set("ifb", FALSE), {Cmd("ing", "none")} \cup {Cmd("ifb", FALSE)}, c2, c4)
    <3>1. Leads(Set("ing", "none"), {Cmd("ing", "none")}, c2, c3)
      BY <1>1, <2>6, <2>8, LeadsOne
    <3>2. Leads(Set("ifb", FALSE), {Cmd("ifb", FALSE)}, c3, c4)
      BY <1>1, <2>9, <2>10, LeadsOne
    <3> QED  BY <2>6, <3>1, <3>2, LeadsJoin
  <2>13. Leads(s3, V3, c2, IF q THEN c4 ELSE c2)
    <3>1. Leads(<<>>, {}, c2, c2)
      <4>1. <<>> \in Seq(Commands)
        OBVIOUS
      <4> QED  BY <2>6, <4>1, PathEnds, ThoseOf DEF Leads
    <3> QED  BY <2>12, <3>1 DEF When
  <2>14. (IF q THEN c4 ELSE c2) = Cleared
    BY <1>2, <1>5, <2>6, <2>11 DEF Cleared, Chains
  <2> HIDE DEF s1, s3, V1, V3
  <2>15. Leads(s1 \o Set("eg", "none"), V1 \cup {Cmd("eg", "none")}, chain, c2)
    BY <2>3, <2>4, <2>7, LeadsJoin
  <2>16. Leads(Writes(Off), V1 \cup {Cmd("eg", "none")} \cup V3, chain, Cleared)
    BY <2>1, <2>6, <2>13, <2>14, <2>15, LeadsJoin
  <2>17. V1 \subseteq {Cmd("red", FALSE)} /\ V3 \subseteq {Cmd("ing", "none"), Cmd("ifb", FALSE)}
    BY DEF V1, V3
  <2> QED  BY <1>5, <2>16, <2>17
<1>6. CASE ~(chain.eg = "netem" /\ job.kind \in Restorers)
  <2>1. Writes(Off) = When(ChainOwned, Set("red", FALSE)) \o When(EgressOwned, Set("eg", "none"))
                      \o When(ChainOwned, Set("ing", "none") \o Set("ifb", FALSE))
    BY <1>6 DEF Writes
  <2>2. <<>> \in Seq(Commands) /\ \A c \in Chains : Leads(<<>>, {}, c, c)
    <3>1. <<>> \in Seq(Commands)
      OBVIOUS
    <3> QED  BY <3>1, PathEnds, ThoseOf DEF Leads
  <2>3. CASE ChainOwned
    <3>1. PICK c1 : c1 = Put(chain, Cmd("red", FALSE))
      OBVIOUS
    <3>2. c1 \in Chains /\ ~c1.red
      BY <3>1, PutsAre
    <3>3. PICK c2 : c2 = Put(c1, Cmd("eg", "none"))
      OBVIOUS
    <3>4. c2 \in Chains /\ ~c2.red /\ c2.eg = "none"
      BY <3>2, <3>3, PutsAre
    <3>5. PICK c3 : c3 = Put(c2, Cmd("ing", "none"))
      OBVIOUS
    <3>6. c3 \in Chains /\ ~c3.red /\ c3.eg = "none" /\ c3.ing = "none"
      BY <3>4, <3>5, PutsAre
    <3>7. PICK c4 : c4 = Put(c3, Cmd("ifb", FALSE))
      OBVIOUS
    <3>8. c4 \in Chains /\ ~c4.red /\ c4.eg = "none" /\ c4.ing = "none" /\ ~c4.ifb
      BY <3>6, <3>7, PutsAre
    <3>9. Leads(Set("red", FALSE), {Cmd("red", FALSE)}, chain, c1) /\ Leads(Set("eg", "none"), {Cmd("eg", "none")}, c1, c2)
      BY <1>1, <3>1, <3>2, <3>3, LeadsOne
    <3>10. Leads(Set("ing", "none"), {Cmd("ing", "none")}, c2, c3) /\ Leads(Set("ifb", FALSE), {Cmd("ifb", FALSE)}, c3, c4)
      BY <1>1, <3>4, <3>5, <3>6, <3>7, LeadsOne
    <3>11. Writes(Off) = Set("red", FALSE) \o Set("eg", "none") \o (Set("ing", "none") \o Set("ifb", FALSE))
      BY <1>2, <2>1, <2>3 DEF When
    <3>12. Leads(Set("red", FALSE) \o Set("eg", "none"), {Cmd("red", FALSE)} \cup {Cmd("eg", "none")}, chain, c2)
      BY <3>2, <3>9, LeadsJoin
    <3>13. Leads(Set("ing", "none") \o Set("ifb", FALSE), {Cmd("ing", "none")} \cup {Cmd("ifb", FALSE)}, c2, c4)
      BY <3>4, <3>6, <3>10, LeadsJoin
    <3>14. Leads(Writes(Off), ({Cmd("red", FALSE)} \cup {Cmd("eg", "none")})
                              \cup ({Cmd("ing", "none")} \cup {Cmd("ifb", FALSE)}), chain, c4)
      <4> DEFINE s1 == Set("red", FALSE) \o Set("eg", "none")
                 s2 == Set("ing", "none") \o Set("ifb", FALSE)
                 V1 == {Cmd("red", FALSE)} \cup {Cmd("eg", "none")}
                 V2 == {Cmd("ing", "none")} \cup {Cmd("ifb", FALSE)}
      <4>1. Leads(s1, V1, chain, c2) /\ Leads(s2, V2, c2, c4) /\ Writes(Off) = s1 \o s2
        BY <3>11, <3>12, <3>13
      <4> HIDE DEF s1, s2, V1, V2
      <4>2. Leads(Writes(Off), V1 \cup V2, chain, c4)
        BY <3>4, <4>1, LeadsJoin
      <4> QED  BY <4>2 DEF V1, V2
    <3>15. c4 = Cleared
      BY <1>6, <2>3, <3>8 DEF Cleared, Bare, Chains
    <3> QED  BY <1>2, <2>3, <3>14, <3>15
  <2>4. CASE ~ChainOwned
    <3>1. Writes(Off) = When(EgressOwned, Set("eg", "none"))
      <4>1. Writes(Off) = <<>> \o When(EgressOwned, Set("eg", "none")) \o <<>>
        BY <2>1, <2>4 DEF When
      <4>2. When(EgressOwned, Set("eg", "none")) \in Seq(Commands)
        BY <1>1, <1>2, LeadsOne DEF Leads
      <4> QED  BY <4>1, <4>2, NothingJoins
    <3>2. Leads(Writes(Off), IF EgressOwned THEN {Cmd("eg", "none")} ELSE {}, chain,
                IF EgressOwned THEN Put(chain, Cmd("eg", "none")) ELSE chain)
      BY <1>1, <1>2, <3>1, LeadsOne
    <3>3. (IF EgressOwned THEN Put(chain, Cmd("eg", "none")) ELSE chain) = Cleared
      BY <1>6, <2>4 DEF Cleared, Put, Cmd, Chains
    <3>4. chain.eg = "none" => ~EgressOwned
      BY <2>4, QueueControlAssumption DEF EgressOwned
    <3> QED  BY <1>6, <2>4, <3>2, <3>3, <3>4
  <2> QED  BY <2>3, <2>4
<1> QED  BY <1>5, <1>6

LEMMA RecordedArePlans ==
    ASSUME listed \in LeaseRows, NEW piece, Recorded(piece)
    PROVE  piece \in Plans
  BY DEF LeaseRows, Recorded, Aims

\* Recovery removes what its lease records, and when it may go on, all there is.
LEMMA TearsAre ==
    ASSUME chain \in Chains, listed \in LeaseRows
    PROVE  \E V, c : /\ Leads(Tears.todo, V, chain, c)
                     /\ V \subseteq {Cmd("red", FALSE), Cmd("eg", "none"), Cmd("ing", "none"), Cmd("ifb", FALSE)}
                     /\ Cmd("eg", "none") \in V => chain.eg \in Plans
                     /\ Tears.ok \in BOOLEAN
                     /\ Tears.ok => BareOf(c)
<1> DEFINE egFits == chain.eg = "none" \/ Recorded(chain.eg)
           ingFits == chain.ing = "none" \/ Recorded(chain.ing)
           q2 == egFits /\ chain.eg # "none"
           q3 == egFits /\ ingFits /\ chain.ing # "none"
           q4 == egFits /\ ingFits /\ chain.ifb /\ ~listed.ifb
           s1 == When(chain.red, Set("red", FALSE))
           s2 == When(q2, Set("eg", "none"))
           s3 == When(q3, Set("ing", "none"))
           s4 == When(q4, Set("ifb", FALSE))
           V1 == IF chain.red THEN {Cmd("red", FALSE)} ELSE {}
           V2 == IF q2 THEN {Cmd("eg", "none")} ELSE {}
           V3 == IF q3 THEN {Cmd("ing", "none")} ELSE {}
           V4 == IF q4 THEN {Cmd("ifb", FALSE)} ELSE {}
<1>1. Tears.todo = s1 \o s2 \o s3 \o s4 /\ Tears.ok = (egFits /\ ingFits)
  BY DEF Tears
<1>2. Cmd("red", FALSE) \in Commands /\ Cmd("eg", "none") \in Commands /\ Cmd("ing", "none") \in Commands
      /\ Cmd("ifb", FALSE) \in Commands
  BY CommandsAre
<1>3. chain.red \in BOOLEAN /\ q2 \in BOOLEAN /\ q3 \in BOOLEAN /\ q4 \in BOOLEAN /\ (egFits /\ ingFits) \in BOOLEAN
  BY DEF Chains
<1>4. q2 => chain.eg \in Plans
  BY RecordedArePlans
<1>5. egFits /\ ingFits => (q2 \/ chain.eg = "none") /\ (q3 \/ chain.ing = "none")
  OBVIOUS
<1>6. /\ Cmd("red", FALSE) # Cmd("eg", "none") /\ Cmd("ing", "none") # Cmd("eg", "none")
      /\ Cmd("ifb", FALSE) # Cmd("eg", "none")
  BY DEF Cmd
<1>7. /\ V1 \subseteq {Cmd("red", FALSE)} /\ V2 \subseteq {Cmd("eg", "none")} /\ V3 \subseteq {Cmd("ing", "none")}
      /\ V4 \subseteq {Cmd("ifb", FALSE)} /\ (V2 # {} => q2)
  OBVIOUS
<1>8. PICK c1 : c1 = IF chain.red THEN Put(chain, Cmd("red", FALSE)) ELSE chain
  OBVIOUS
<1>9. Leads(s1, V1, chain, c1)
  BY <1>2, <1>3, <1>8, LeadsOne
<1>10. PICK c2 : c2 = IF q2 THEN Put(c1, Cmd("eg", "none")) ELSE c1
  OBVIOUS
<1>11. c1 \in Chains /\ ~c1.red /\ c1.ing = chain.ing /\ c1.eg = chain.eg
  BY <1>3, <1>8, PutsAre
<1>12. Leads(s2, V2, c1, c2)
  BY <1>2, <1>3, <1>10, <1>11, LeadsOne
<1>13. PICK c3 : c3 = IF q3 THEN Put(c2, Cmd("ing", "none")) ELSE c2
  OBVIOUS
<1>14. c2 \in Chains /\ ~c2.red /\ c2.ing = chain.ing /\ (q2 \/ chain.eg = "none" => c2.eg = "none")
  BY <1>10, <1>11, PutsAre
<1>15. Leads(s3, V3, c2, c3)
  BY <1>2, <1>3, <1>13, <1>14, LeadsOne
<1>16. PICK c4 : c4 = IF q4 THEN Put(c3, Cmd("ifb", FALSE)) ELSE c3
  OBVIOUS
<1>17. c3 \in Chains /\ ~c3.red /\ (q3 \/ chain.ing = "none" => c3.ing = "none") /\ c3.eg = c2.eg
  BY <1>13, <1>14, PutsAre
<1>18. Leads(s4, V4, c3, c4)
  BY <1>2, <1>3, <1>16, <1>17, LeadsOne
<1>19. c4 \in Chains /\ ~c4.red /\ c4.ing = c3.ing /\ c4.eg = c3.eg
  BY <1>16, <1>17, PutsAre
<1>20. egFits /\ ingFits => BareOf(c4)
  BY <1>5, <1>14, <1>17, <1>19 DEF BareOf
<1> HIDE DEF egFits, ingFits, q2, q3, q4, s1, s2, s3, s4, V1, V2, V3, V4
<1>21. Leads(s1 \o s2, V1 \cup V2, chain, c2)
  BY <1>9, <1>11, <1>12, LeadsJoin
<1>22. Leads(s1 \o s2 \o s3, V1 \cup V2 \cup V3, chain, c3)
  BY <1>14, <1>15, <1>21, LeadsJoin
<1>23. Leads(s1 \o s2 \o s3 \o s4, V1 \cup V2 \cup V3 \cup V4, chain, c4)
  BY <1>17, <1>18, <1>22, LeadsJoin
<1>24. Cmd("eg", "none") \in V1 \cup V2 \cup V3 \cup V4 => q2
  BY <1>6, <1>7
<1>25. V1 \cup V2 \cup V3 \cup V4 \subseteq {Cmd("red", FALSE), Cmd("eg", "none"), Cmd("ing", "none"), Cmd("ifb", FALSE)}
  BY <1>7
<1>26. Tears.ok \in BOOLEAN /\ (Tears.ok => BareOf(c4))
  BY <1>1, <1>3, <1>20
<1>27. Leads(Tears.todo, V1 \cup V2 \cup V3 \cup V4, chain, c4)
  BY <1>1, <1>23
<1> QED  BY <1>4, <1>24, <1>25, <1>26, <1>27

-----------------------------------------------------------------------------
(* Queues: what an inspection tells *)

LEMMA NamesDiffer ==
    /\ "off" \notin Plans /\ "none" \notin Plans /\ "netem" \notin Plans /\ "foreign" \notin Plans
    /\ Off = "off"
  BY QueueControlAssumption DEF Off

LEMMA MendedIsNotTorn ==
    ASSUME chain \in Chains
    PROVE  Mended(chain) <=> ~Torn
<1>1. /\ chain.eg \in Plans \cup {"none", "netem", "foreign"} /\ chain.ifb \in BOOLEAN
      /\ chain.ing \in Plans \cup {"none"} /\ chain.red \in BOOLEAN
  BY DEF Chains
<1>2. CASE chain.eg = "netem"
  BY <1>1, <1>2, NamesDiffer DEF Mended, WholeOf, BareOf, Torn, OverNetem
<1>3. CASE chain.eg = "none"
  BY <1>1, <1>3, NamesDiffer DEF Mended, WholeOf, BareOf, Torn, ChainOwned
<1>4. CASE chain.eg = "foreign"
  BY <1>1, <1>4, NamesDiffer DEF Mended, WholeOf, BareOf, Torn, ChainOwned
<1>5. CASE chain.eg \in Plans
  BY <1>1, <1>5, NamesDiffer DEF Mended, WholeOf, BareOf, Torn, ChainOwned
<1> QED  BY <1>1, <1>2, <1>3, <1>4, <1>5

LEMMA FitsAre ==
    ASSUME NEW c \in Chains, NEW a \in Aims, FitsFor(c, a)
    PROVE  Mended(c) /\ c.eg # "netem" /\ c.eg # "foreign" /\ Done(c, a) /\ (c.eg = "none" <=> a = Off)
<1>1. CASE a = Off
  BY <1>1, NamesDiffer DEF FitsFor, Mended, Done, BareOf
<1>2. CASE a # Off
  <2>1. a \in Plans /\ c = [eg |-> a, ifb |-> TRUE, ing |-> a, red |-> TRUE]
    BY <1>2 DEF Aims, FitsFor, WholeChain
  <2>2. c.eg = a /\ WholeOf(c)
    BY <2>1 DEF WholeOf
  <2> QED  BY <1>2, <2>1, <2>2, NamesDiffer DEF FitsFor, Mended, Done
<1> QED  BY <1>1, <1>2

LEMMA FitsIsFitsFor ==
    ASSUME chain \in Chains
    PROVE  Fits <=> FitsFor(chain, Effective)
<1>1. [chain EXCEPT !.ifb = FALSE] = Bare <=> BareOf(chain)
  <2> DEFINE d == [chain EXCEPT !.ifb = FALSE]
  <2>1. /\ d \in Chains /\ d.eg = chain.eg /\ d.ifb = FALSE /\ d.ing = chain.ing /\ d.red = chain.red
        /\ chain.red \in BOOLEAN
    BY DEF Chains
  <2>2. Bare \in Chains /\ Bare.eg = "none" /\ Bare.ifb = FALSE /\ Bare.ing = "none" /\ Bare.red = FALSE
    BY DEF Chains, Bare
  <2> HIDE DEF d
  <2>3. d = Bare <=> d.eg = "none" /\ d.ifb = FALSE /\ d.ing = "none" /\ d.red = FALSE
    <3>1. \A x, y \in Chains : x.eg = y.eg /\ x.ifb = y.ifb /\ x.ing = y.ing /\ x.red = y.red => x = y
      BY DEF Chains
    <3> QED  BY <2>1, <2>2, <3>1
  <2> QED  BY <2>1, <2>3 DEF BareOf, d
<1> QED  BY <1>1 DEF Fits, FitsFor

LEMMA WholeIsDone ==
    ASSUME NEW p \in Plans
    PROVE  WholeChain(p) \in Chains /\ WholeOf(WholeChain(p)) /\ Done(WholeChain(p), p) /\ WholeChain(p).eg = p
           /\ FitsFor(WholeChain(p), p) /\ Mended(WholeChain(p)) /\ WholeChain(p).eg # "netem"
<1>1. WholeChain(p) \in Chains /\ WholeChain(p).eg = p
  BY DEF WholeChain, Chains
<1>2. FitsFor(WholeChain(p), p) /\ WholeOf(WholeChain(p))
  BY NamesDiffer DEF FitsFor, WholeChain, WholeOf
<1> QED  BY <1>1, <1>2, FitsAre, NamesDiffer DEF Aims

LEMMA BareIsDone ==
    ASSUME NEW c \in Chains, BareOf(c)
    PROVE  Done(c, Off) /\ Mended(c) /\ FitsFor(c, Off) /\ c.eg = "none"
  BY NamesDiffer DEF Done, Mended, FitsFor, BareOf

\* Whoever finds a mended chain of LinkGuard's may put anything.
LEMMA MendedMayApply ==
    ASSUME chain \in Chains, Mended(chain), chain.eg # "netem", chain.eg # "foreign", NEW a
    PROVE  MayApply(a)
  BY NamesDiffer DEF Chains, Mended, WholeOf, BareOf, MayApply, ChainOwned, EgressOwned

\* A goal that may be gone for: which commands it takes, and where they lead.
LEMMA GoalsLead ==
    ASSUME chain \in Chains, NEW a \in Aims, MayGo(a)
    PROVE  \E V, c :
             /\ Leads(Writes(a), V, chain, c) /\ c \in Chains
             /\ \A w \in V : w.part = "eg" => w.to # "netem" /\ (a = Off => w.to = "none")
             /\ (\E w \in V : w.part = "eg") => chain.eg # "foreign" /\ (chain.eg = "netem" => job.kind \in Restorers)
             /\ chain.eg = "netem" /\ job.kind \in Restorers => \E w \in V : w.part = "eg"
             /\ (a = Off => Mended(chain)) /\ chain.eg # "foreign" => Done(c, a)
             /\ a \in Plans => WholeOf(c)
             /\ FitsFor(chain, a) => \A w \in V : Put(chain, w) = chain
<1>1. /\ chain.eg \in Plans \cup {"none", "netem", "foreign"} /\ chain.ifb \in BOOLEAN
      /\ chain.ing \in Plans \cup {"none"} /\ chain.red \in BOOLEAN
  BY DEF Chains
<1>2. CASE a \in Plans
  <2>1. a # Off
    BY <1>2, NamesDiffer
  <2>2. chain.eg # "foreign" /\ (chain.eg = "netem" => job.kind \in Restorers)
    BY <1>1, <2>1, NamesDiffer DEF MayGo, MayApply, MayRestore, ChainOwned, EgressOwned, OverNetem
  <2> DEFINE V == (IF chain.eg = "netem" THEN {Cmd("eg", "none")} ELSE {})
                  \cup {Cmd("eg", a), Cmd("ing", a), Cmd("red", TRUE)}
                  \cup (IF chain.ifb THEN {} ELSE {Cmd("ifb", TRUE)})
  <2>3. Leads(Writes(a), V, chain, WholeChain(a))
    BY <1>2, WritesOfPlan
  <2>4. \A w \in V : w.part = "eg" => w.to # "netem"
    BY <1>2, NamesDiffer DEF Cmd
  <2>5. \E w \in V : w.part = "eg"
    <3>1. Cmd("eg", a) \in V /\ Cmd("eg", a).part = "eg"
      BY DEF Cmd
    <3> HIDE DEF V
    <3> QED  BY <3>1
  <2>6. FitsFor(chain, a) => \A w \in V : Put(chain, w) = chain
    <3>1. ASSUME FitsFor(chain, a) PROVE \A w \in V : Put(chain, w) = chain
      <4>1. chain.eg = a /\ chain.ifb = TRUE /\ chain.ing = a /\ chain.red = TRUE
        BY <2>1, <3>1 DEF FitsFor, WholeChain
      <4>2. V = {Cmd("eg", a), Cmd("ing", a), Cmd("red", TRUE)}
        BY <1>2, <4>1, NamesDiffer
      <4> HIDE DEF V
      <4>3. Put(chain, Cmd("eg", a)) = chain /\ Put(chain, Cmd("ing", a)) = chain /\ Put(chain, Cmd("red", TRUE)) = chain
        BY <4>1 DEF Put, Cmd, Chains
      <4> QED  BY <4>2, <4>3
    <3> QED  BY <3>1
  <2> HIDE DEF V
  <2>7. WholeChain(a) \in Chains /\ WholeOf(WholeChain(a)) /\ Done(WholeChain(a), a)
    BY <1>2, WholeIsDone
  <2> QED  BY <2>1, <2>2, <2>3, <2>4, <2>5, <2>6, <2>7
<1>3. CASE a = Off
  <2>1. PICK V : /\ Leads(Writes(Off), V, chain, Cleared)
                 /\ V \subseteq {Cmd("red", FALSE), Cmd("eg", "none"), Cmd("ing", "none"), Cmd("ifb", FALSE)}
                 /\ Cmd("eg", "none") \in V <=> (chain.eg = "netem" /\ job.kind \in Restorers) \/ EgressOwned
                 /\ chain.eg = "none" => V = {} \/ ChainOwned
    BY WritesOfOff
  <2>2. \A w \in V : w.part = "eg" => w = Cmd("eg", "none") /\ w.to = "none"
    BY <2>1 DEF Cmd
  <2>3. EgressOwned => chain.eg \in Plans
    BY DEF EgressOwned, ChainOwned
  <2>4. Cmd("eg", "none").part = "eg"
    BY DEF Cmd
  <2>5. Cleared \in Chains
    BY <2>1 DEF Leads
  <2>6. ASSUME Mended(chain), chain.eg # "foreign" PROVE Done(Cleared, Off)
    <3>1. CASE chain.eg = "netem" /\ job.kind \in Restorers
      <4>1. BareOf(Cleared)
        BY <3>1 DEF Cleared, BareOf
      <4> QED  BY <2>5, <4>1, BareIsDone
    <3>2. CASE chain.eg = "netem" /\ job.kind \notin Restorers
      <4>1. Cleared = chain
        BY <2>3, <3>2, NamesDiffer DEF Cleared, ChainOwned
      <4> QED  BY <2>6, <3>2, <4>1 DEF Done
    <3>3. CASE chain.eg # "netem"
      <4>1. CASE ChainOwned
        <5>1. BareOf(Cleared)
          BY <3>3, <4>1 DEF Cleared, BareOf, Bare
        <5> QED  BY <2>5, <5>1, BareIsDone
      <4>2. CASE ~ChainOwned /\ EgressOwned
        <5>1. Cleared = [chain EXCEPT !.eg = "none"]
          BY <3>3, <4>2 DEF Cleared
        <5>2. chain.ing = "none" /\ ~chain.red
          BY <1>1, <2>3, <2>6, <4>2, NamesDiffer DEF Mended, WholeOf, BareOf, ChainOwned
        <5>3. BareOf(Cleared)
          BY <5>1, <5>2 DEF BareOf, Chains
        <5> QED  BY <2>5, <5>3, BareIsDone
      <4>3. CASE ~ChainOwned /\ ~EgressOwned
        <5>1. Cleared = chain
          BY <3>3, <4>3 DEF Cleared
        <5>2. BareOf(chain)
          BY <1>1, <2>6, <3>3, <4>3, NamesDiffer DEF Mended, WholeOf, ChainOwned, EgressOwned
        <5> QED  BY <5>1, <5>2, BareIsDone
      <4> QED  BY <4>1, <4>2, <4>3
    <3> QED  BY <3>1, <3>2, <3>3
  <2>7. FitsFor(chain, Off) => V = {}
    BY <2>1, NamesDiffer DEF FitsFor, BareOf, ChainOwned
  <2>8. Off \notin Plans
    BY NamesDiffer
  <2> QED  BY <1>3, <2>1, <2>2, <2>3, <2>4, <2>5, <2>6, <2>7, <2>8, NamesDiffer
<1> QED  BY <1>2, <1>3 DEF Aims

-----------------------------------------------------------------------------
(* Queues: steps that leave the lock alone *)

\* A chain that is as it should be stays so while row, passes and leases only
\* lose what they ask for.
LEMMA KeptStays ==
    ASSUME link' = link, stress' = "none" => stress = "none", due' = "nothing" => due = "nothing"
    PROVE  (\A c : Kept(c) => Kept(c)') /\ Effective' = Effective
  BY DEF Kept, Effective, Mended, WholeOf, BareOf, FitsFor, WholeChain

\* Nobody holds the lock after the step.
LEMMA FreeIsEnough ==
    ASSUME QueueShape', job' = Free, (alien = (chain.eg = "foreign"))', FaultsAreLeased',
           (Covered /\ lease = NoLease => Kept(chain))', (due \in {"lock", "recovering"} => listed \in LeaseRows)'
    PROVE  QueueInv'
  BY DEF QueueInv, JobIsWell, RootsAreTheirs, RestoresRemove, ChainIsKept, JobsHaveLeases, JobsArrive,
         JobsComeBack, RestoresAreSafe, RecoveryIsWhole

LEMMA AsideOfLock ==
    ASSUME QueueInv, UNCHANGED <<link, chain, carrier, lease, job, alien, unrecorded>>,
           QueueShape', FaultsAreLeased',
           stress # "none" => stress' = stress,
           due' = "nothing" => due = "nothing", due = "recovering" => due' = due,
           due' \in {"lock", "recovering"} => listed' \in LeaseRows,
           test' = "inject" => test = "inject" \/ stress = "none"
    PROVE  QueueInv'
<1>1. Effective' = Effective /\ (\A c : Kept(c) => Kept(c)') /\ Wants' = Wants /\ IsIdle' = IsIdle
      /\ Covered' = Covered /\ Answers' = Answers /\ ComesBack' = ComesBack /\ \A c : Home(c) => Home(c)'
  <2>1. stress' = "none" => stress = "none"
    BY DEF QueueInv, QueueShape, Faults
  <2>2. Effective' = Effective /\ (\A c : Kept(c) => Kept(c)')
    BY <2>1, KeptStays
  <2> QED  BY <2>2 DEF Wants, IsIdle, Covered, Answers, ComesBack, Home, Asked, Mended, WholeOf, BareOf
<1>2. JobIsWell'
  BY DEF QueueInv, JobIsWell, Those
<1>3. RootsAreTheirs'
  BY DEF QueueInv, RootsAreTheirs, EgressOf, Those
<1>4. RestoresRemove'
  BY DEF QueueInv, RestoresRemove, EgressOf, Those
<1>5. ChainIsKept'
  BY <1>1 DEF QueueInv, ChainIsKept
<1>6. JobsHaveLeases'
  BY <1>1 DEF QueueInv, JobsHaveLeases
<1>7. JobsArrive'
  BY <1>1 DEF QueueInv, JobsArrive, Done, Mended, FitsFor, PathTo
<1>8. JobsComeBack'
  BY <1>1 DEF QueueInv, JobsComeBack, PathTo
<1>9. RestoresAreSafe'
  BY <1>1 DEF QueueInv, RestoresAreSafe
<1>10. RecoveryIsWhole'
  BY <1>1 DEF QueueInv, RecoveryIsWhole
<1> QED  BY <1>2, <1>3, <1>4, <1>5, <1>6, <1>7, <1>8, <1>9, <1>10 DEF QueueInv

LEMMA AsidesKeepQueue ==
    ASSUME QueueInv, ListLeases \/ NothingToRestore \/ SecondPass \/ StartTest
    PROVE  QueueInv'
<1>1. QueueShape /\ FaultsAreLeased /\ (due \in {"lock", "recovering"} => listed \in LeaseRows)
  BY DEF QueueInv, RecoveryIsWhole
<1>2. CASE ListLeases
  <2>1. /\ due = "qos" /\ listed' = lease /\ due' = IF lease = NoLease THEN "stress" ELSE "lock"
        /\ UNCHANGED <<link, chain, carrier, lease, stress, test, mode, job, alien, unrecorded>>
    BY <1>2 DEF ListLeases
  <2>2. QueueShape' /\ FaultsAreLeased' /\ (due' \in {"lock", "recovering"} => listed' \in LeaseRows)
    BY <1>1, <2>1 DEF QueueShape, FaultsAreLeased
  <2> QED  BY <2>1, <2>2, AsideOfLock
<1>3. CASE NothingToRestore \/ SecondPass
  <2>1. /\ UNCHANGED <<link, chain, carrier, lease, stress, test, mode, job, listed, alien, unrecorded>>
        /\ due' \in {"reconcile", "qos"} /\ due # "recovering"
    BY <1>3 DEF NothingToRestore, SecondPass
  <2>2. QueueShape' /\ FaultsAreLeased'
    BY <1>1, <2>1 DEF QueueShape, FaultsAreLeased
  <2> QED  BY <2>1, <2>2, AsideOfLock
<1>4. CASE StartTest
  <2>1. /\ stress = "none" /\ stress' = mode' /\ mode' \in Faults /\ test' = "inject"
        /\ UNCHANGED <<link, chain, carrier, lease, job, due, listed, alien, unrecorded>>
    BY <1>4 DEF StartTest, Faults
  <2>2. QueueShape' /\ FaultsAreLeased'
    BY <1>1, <2>1 DEF QueueShape, FaultsAreLeased, Faults
  <2> QED  BY <1>1, <2>1, <2>2, AsideOfLock
<1> QED  BY <1>2, <1>3, <1>4

-----------------------------------------------------------------------------
(* Queues: taking the lock *)

LEMMA NoLeaseIsNone == NoLease \notin LeaseRows
<1>1. "recovery" \notin DOMAIN NoLease
  BY DEF NoLease
<1>2. \A l \in LeaseRows : "recovery" \in DOMAIN l
  BY DEF LeaseRows
<1> QED  BY <1>1, <1>2

\* A job that has just taken the lock: nothing of it is done.
LEMMA JobStarts ==
    ASSUME QueueShape, NEW kind \in Leased \cup Unleased \cup {"tear", "recover"}, NEW goals \in GoalLists,
           NEW new \in LinkRows, NEW ok \in BOOLEAN, ok \/ goals = <<>>,
           job' = [kind |-> kind, at |-> "next", goals |-> goals, todo |-> <<>>, undo |-> <<>>,
                   ok |-> ok, bad |-> FALSE, new |-> new, had |-> stress]
    PROVE  /\ job' \in Jobs /\ job' # Free
           /\ JobIsWell' /\ EgressOf(job.todo)' = {} /\ EgressOf(job.undo)' = {}
           /\ job'.kind = kind /\ job'.at = "next" /\ job'.goals = goals /\ job'.ok = ok /\ job'.bad = FALSE
           /\ job'.new = new /\ job'.had = stress /\ Those(job.todo)' = {} /\ Those(job.undo)' = {}
<1>1. <<>> \in Seq(Commands)
  OBVIOUS
<1>2. job' \in Jobs
  BY <1>1 DEF Jobs, QueueShape
<1>3. Those(job'.todo) = {} /\ Those(job'.undo) = {}
  BY ThoseOf
<1>4. job'.kind # "free" /\ Free.kind = "free"
  BY DEF Leased, Unleased, Restorers, Free
<1>5. JobIsWell'
  BY <1>3 DEF JobIsWell, Those
<1> QED  BY <1>2, <1>3, <1>4, <1>5 DEF EgressOf, Those

\* An operation takes the lock and its lease together.
LEMMA LeasesKeep ==
    ASSUME QueueInv, NEW kind \in {"update", "current", "bench"}, NEW target \in Aims, NEW goals \in GoalLists,
           NEW new \in LinkRows, Leases(kind, target, Effective, goals, new), UNCHANGED due \/ due' = "nothing",
           kind = "current" => new = link /\ goals = <<Effective>>,
           kind = "update" => goals = <<Asked(new)>> /\ new.exists = link.exists,
           kind = "bench" => Effective # Off,
           due' = "nothing" /\ kind = "update" => due = "nothing"
    PROVE  QueueInv'
<1> DEFINE row == [target |-> target, recovery |-> Effective,
                   before |-> IF ChainOwned THEN {chain.eg, chain.ing} ELSE {},
                   ifb |-> chain.ifb /\ ~ChainOwned]
<1>1. /\ job = Free /\ lease = NoLease /\ lease' = row
      /\ job' = [JobFor(kind, goals) EXCEPT !.new = new]
      /\ UNCHANGED <<link, chain, carrier, stress, test, mode, listed, alien, unrecorded>>
  BY DEF Leases
<1>2. Effective \in Aims /\ row \in LeaseRows /\ row.recovery = Effective
  <2>1. Effective \in Aims
    BY DEF QueueInv, QueueShape, LinkRows, Effective, Aims
  <2>2. (chain.ifb /\ ~ChainOwned) \in BOOLEAN
    OBVIOUS
  <2>3. (IF ChainOwned THEN {chain.eg, chain.ing} ELSE {}) \in SUBSET Plans
    BY DEF ChainOwned
  <2> QED  BY <2>1, <2>2, <2>3 DEF LeaseRows
<1> HIDE DEF row
<1>3. job' = [kind |-> kind, at |-> "next", goals |-> goals, todo |-> <<>>, undo |-> <<>>,
              ok |-> TRUE, bad |-> FALSE, new |-> new, had |-> stress]
  BY <1>1 DEF JobFor
<1>4. kind \in Leased \cup Unleased \cup {"tear", "recover"} /\ kind \notin Unleased /\ kind \notin Restorers
  BY DEF Leased, Unleased, Restorers
<1>5. /\ job' \in Jobs /\ job' # Free
      /\ JobIsWell' /\ EgressOf(job.todo)' = {} /\ EgressOf(job.undo)' = {}
      /\ job'.kind = kind /\ job'.at = "next" /\ job'.goals = goals /\ job'.ok = TRUE /\ job'.bad = FALSE
      /\ job'.new = new
  BY <1>3, <1>4, JobStarts DEF QueueInv
<1>6. QueueShape' /\ FaultsAreLeased' /\ RootsAreTheirs' /\ ChainIsKept'
  BY <1>1, <1>2, <1>5 DEF QueueInv, QueueShape, FaultsAreLeased, RootsAreTheirs, ChainIsKept
<1>7. RestoresRemove' /\ RestoresAreSafe'
  BY <1>4, <1>5 DEF RestoresRemove, RestoresAreSafe
<1>8. Effective' = Effective /\ Asked(new)' = Asked(new)
  BY <1>1 DEF Effective, Asked
<1>9. JobsHaveLeases'
  BY <1>1, <1>2, <1>4, <1>5, <1>8 DEF JobsHaveLeases
<1>10. RecoveryIsWhole'
  BY <1>1, <1>4, <1>5 DEF QueueInv, RecoveryIsWhole
<1>11. Covered' => Kept(chain)
  BY <1>1 DEF QueueInv, ChainIsKept, Covered
<1>12. JobsArrive'
  <2>1. Kept(chain) => Mended(chain)
    BY DEF Kept
  <2>2. kind # "bench" => goals = <<Wants'>>
    BY <1>4, <1>5, <1>8, <1>1 DEF Wants, Asked
  <2>3. Covered' => Mended(chain)'
    BY <1>1, <1>11, <2>1 DEF Mended, WholeOf, BareOf
  <2>4. Answers' => kind # "bench"
    BY <1>4, <1>5 DEF Answers
  <2> QED  BY <1>5, <2>2, <2>3, <2>4 DEF JobsArrive
<1>13. JobsComeBack'
  <2>1. CASE kind = "update"
    <3>1. \A c : Kept(c) => Kept(c)'
      BY <1>1, <2>1, KeptStays
    <3> QED  BY <1>1, <1>5, <1>11, <2>1, <3>1 DEF JobsComeBack, Home, IsIdle
  <2>2. CASE kind # "update"
    BY <1>4, <1>5, <2>2 DEF JobsComeBack, ComesBack
  <2> QED  BY <2>1, <2>2
<1> QED  BY <1>5, <1>6, <1>7, <1>9, <1>10, <1>12, <1>13 DEF QueueInv

LEMMA QueueStarts ==
    ASSUME QueueInit
    PROVE  QueueInv
<1>1. /\ link \in LinkRows /\ Effective \in Aims
      /\ chain = IF Effective = Off THEN Bare ELSE WholeChain(Effective)
      /\ carrier = TRUE /\ lease = NoLease /\ stress = "none" /\ test = "none" /\ mode = "outage" /\ job = Free
      /\ due = "nothing" /\ listed = NoLease /\ alien = FALSE /\ unrecorded = FALSE
  BY DEF QueueInit, LinkRows, Effective, Aims
<1>2. chain \in Chains /\ FitsFor(chain, Effective)
  <2>1. CASE Effective = Off
    <3>1. chain = Bare /\ Bare \in Chains
      BY <1>1, <2>1 DEF Bare, Chains
    <3> QED  BY <2>1, <3>1 DEF FitsFor, BareOf, Bare
  <2>2. CASE Effective # Off
    <3>1. Effective \in Plans /\ chain = WholeChain(Effective)
      BY <1>1, <2>2 DEF Aims
    <3> QED  BY <2>2, <3>1, WholeIsDone DEF FitsFor
  <2> QED  BY <2>1, <2>2
<1>3. Mended(chain) /\ chain.eg # "netem" /\ chain.eg # "foreign"
  BY <1>1, <1>2, FitsAre
<1>4. Kept(chain)
  BY <1>2, <1>3 DEF Kept, FitsFor
<1>5. QueueShape /\ FaultsAreLeased
  BY <1>1, <1>2, <1>3 DEF QueueShape, FaultsAreLeased, Faults
<1> QED  BY <1>1, <1>3, <1>4, <1>5 DEF QueueInv, JobIsWell, RootsAreTheirs, RestoresRemove, ChainIsKept, JobsHaveLeases,
         JobsArrive, JobsComeBack, RestoresAreSafe, RecoveryIsWhole

\* What is left where no reconciliation could start is as it should be.
LEMMA RefusalsKeep ==
    ASSUME QueueInv, due = "reconcile", job = Free, Covered, lease = NoLease,
           ~link.exists \/ ~MayApply(Effective)
    PROVE  stress = "none" => FitsFor(chain, Effective)
<1>1. Kept(chain) /\ chain \in Chains /\ Mended(chain)
  BY DEF QueueInv, ChainIsKept, Kept, QueueShape
<1>2. SUFFICES ASSUME stress = "none" PROVE FitsFor(chain, Effective)
  OBVIOUS
<1>3. chain.eg # "netem" /\ chain.eg # "foreign"
  BY <1>2 DEF QueueInv, FaultsAreLeased, RootsAreTheirs, Covered
<1>4. ~link.exists
  BY <1>1, <1>3, MendedMayApply
<1>5. Effective = Off
  BY <1>4 DEF QueueInv, QueueShape, LinkRows, Effective
<1> QED  BY <1>1, <1>3, <1>4, <1>5 DEF Kept, FitsFor

LEMMA OperationsStart ==
    ASSUME QueueInv, Update \/ Benchmark \/ ReconcileQueue
    PROVE  QueueInv'
<1>1. Effective \in Aims /\ Asked(link) = Effective /\ link \in LinkRows
  BY DEF QueueInv, QueueShape, LinkRows, Effective, Asked, Aims
<1>2. CASE Update
  <2>1. link.exists /\ UNCHANGED due
    BY <1>2 DEF Update
  <2>2. PICK p \in Plans \cup {Off} :
          Leases("update", IF link.on THEN p ELSE Off, Effective, <<IF link.on THEN p ELSE Off>>, [link EXCEPT !.qos = p])
    BY <1>2 DEF Update
  <2> DEFINE target == IF link.on THEN p ELSE Off
             new == [link EXCEPT !.qos = p]
  <2>3. new \in LinkRows /\ new.exists = link.exists /\ Asked(new) = target /\ target \in Aims /\ <<target>> \in GoalLists
    BY <1>1 DEF LinkRows, Aims, Asked, GoalLists
  <2>4. Leases("update", target, Effective, <<target>>, new)
    BY <2>2
  <2> HIDE DEF target, new
  <2> QED  BY <2>1, <2>3, <2>4, LeasesKeep
<1>3. CASE Benchmark
  <2>1. /\ Effective # Off /\ UNCHANGED due
        /\ Leases("bench", Effective, Effective, <<Off, Effective>>, link)
    BY <1>3 DEF Benchmark
  <2>2. <<Off, Effective>> \in GoalLists
    BY <1>1 DEF GoalLists, Aims
  <2> QED  BY <1>1, <2>1, <2>2, LeasesKeep
<1>4. CASE ReconcileQueue
  <2>1. due = "reconcile" /\ due' = "nothing"
    BY <1>4 DEF ReconcileQueue
  <2>2. CASE link.exists /\ Leases("current", Effective, Effective, <<Effective>>, link)
    <3>1. <<Effective>> \in GoalLists
      BY <1>1 DEF GoalLists
    <3> QED  BY <1>1, <2>1, <2>2, <3>1, LeasesKeep
  <2>3. CASE /\ job = Free /\ (~link.exists \/ lease # NoLease \/ ~MayApply(Effective))
             /\ UNCHANGED <<link, chain, carrier, lease, stress, test, mode, watchdog, job, listed, alien,
                            unrecorded, queueFaults>>
    <3>1. QueueShape' /\ FaultsAreLeased' /\ (alien = (chain.eg = "foreign"))'
      BY <2>1, <2>3 DEF QueueInv, QueueShape, FaultsAreLeased, RootsAreTheirs
    <3>2. ASSUME Covered', lease' = NoLease PROVE Kept(chain)'
      <4>1. Covered /\ lease = NoLease /\ job = Free
        BY <2>3, <3>2 DEF Covered
      <4>2. stress = "none" => FitsFor(chain, Effective)
        BY <2>1, <2>3, <4>1, RefusalsKeep
      <4>3. Mended(chain) /\ chain.eg = "netem" => stress # "none"
        BY DEF QueueInv, FaultsAreLeased
      <4>4. Kept(chain)
        BY <4>1 DEF QueueInv, ChainIsKept
      <4>5. Effective = Off /\ chain.eg # "netem" => BareOf(chain)
        <5>1. CASE stress = "none"
          BY <4>2, <5>1 DEF FitsFor
        <5>2. CASE stress # "none" /\ ~link.exists
          BY <4>4, <5>2 DEF Kept
        <5>3. CASE stress # "none" /\ link.exists
          <6>1. chain \in Chains /\ Mended(chain) /\ chain.eg # "foreign"
            BY <4>1, <4>4 DEF Kept, QueueInv, QueueShape, RootsAreTheirs, Covered
          <6>2. chain.eg # "netem" => MayApply(Effective)
            BY <6>1, MendedMayApply
          <6> QED  BY <2>3, <4>1, <5>3, <6>2
        <5> QED  BY <5>1, <5>2, <5>3
      <4> QED  BY <2>1, <2>3, <4>2, <4>4, <4>5 DEF Kept, Effective, Mended, WholeOf, BareOf, FitsFor, WholeChain
    <3> QED  BY <2>1, <2>3, <3>1, <3>2, FreeIsEnough
  <2> QED  BY <1>4, <2>2, <2>3 DEF ReconcileQueue
<1> QED  BY <1>2, <1>3, <1>4

LEMMA EditsStart ==
    ASSUME QueueInv, EditLink
    PROVE  QueueInv'
<1>1. /\ job = Free /\ link.exists
      /\ UNCHANGED <<link, chain, carrier, lease, stress, test, mode, due, listed, alien, unrecorded>>
  BY DEF EditLink
<1>2. PICK new \in {[link EXCEPT !.on = ~link.on], [exists |-> FALSE, on |-> FALSE, qos |-> Off]} :
        job' = [JobFor("link", IF link.qos # Off /\ ~new.on THEN <<Off>> ELSE <<>>) EXCEPT !.new = new]
  BY DEF EditLink
<1>3. link \in LinkRows /\ new \in LinkRows /\ new # link
  <2>1. link \in [exists : BOOLEAN, on : BOOLEAN, qos : Aims] /\ (link.on => link.exists)
    BY DEF QueueInv, QueueShape, LinkRows
  <2>2. CASE new = [link EXCEPT !.on = ~link.on]
    <3>1. /\ new \in [exists : BOOLEAN, on : BOOLEAN, qos : Aims] /\ new.exists = link.exists
          /\ new.on = ~link.on
      BY <2>1, <2>2
    <3> QED  BY <1>1, <2>1, <3>1 DEF LinkRows
  <2>3. CASE new = [exists |-> FALSE, on |-> FALSE, qos |-> Off]
    BY <1>1, <2>1, <2>3 DEF LinkRows, Aims
  <2> QED  BY <2>2, <2>3
<1> DEFINE goals == IF link.qos # Off /\ ~new.on THEN <<Off>> ELSE <<>>
<1>4. goals \in GoalLists
  BY DEF GoalLists, Aims
<1>5. (link.qos # Off /\ ~new.on => goals = <<Off>>) /\ (~(link.qos # Off /\ ~new.on) => goals = <<>>)
  OBVIOUS
<1>6. job' = [kind |-> "link", at |-> "next", goals |-> goals, todo |-> <<>>, undo |-> <<>>,
              ok |-> TRUE, bad |-> FALSE, new |-> new, had |-> stress]
  BY <1>2 DEF JobFor
<1> HIDE DEF goals
<1>7. "link" \in Unleased /\ "link" \notin Leased /\ "link" \notin Restorers
  BY DEF Leased, Unleased, Restorers
<1>8. /\ job' \in Jobs /\ job' # Free
      /\ JobIsWell' /\ EgressOf(job.todo)' = {} /\ EgressOf(job.undo)' = {}
      /\ job'.kind = "link" /\ job'.at = "next" /\ job'.goals = goals /\ job'.ok = TRUE /\ job'.bad = FALSE
      /\ job'.new = new
  BY <1>3, <1>4, <1>6, <1>7, JobStarts DEF QueueInv
<1>9. QueueShape' /\ FaultsAreLeased' /\ RootsAreTheirs' /\ ChainIsKept'
  BY <1>1, <1>8 DEF QueueInv, QueueShape, FaultsAreLeased, RootsAreTheirs, ChainIsKept
<1>10. RestoresRemove' /\ RestoresAreSafe'
  BY <1>7, <1>8 DEF RestoresRemove, RestoresAreSafe
<1>11. JobsHaveLeases'
  BY <1>1, <1>3, <1>5, <1>7, <1>8 DEF JobsHaveLeases
<1>12. RecoveryIsWhole'
  BY <1>1, <1>8 DEF QueueInv, RecoveryIsWhole
<1>13. Covered' /\ lease' = NoLease => Mended(chain)' /\ Kept(chain)'
  <2>1. Covered' /\ lease' = NoLease => Kept(chain)
    BY <1>1 DEF QueueInv, ChainIsKept, Covered
  <2>2. \A c : Kept(c) => Kept(c)'
    BY <1>1, KeptStays
  <2>3. Kept(chain)' => Mended(chain)'
    BY DEF Kept
  <2> QED  BY <1>1, <2>1, <2>2, <2>3
<1>14. IsIdle' <=> ~(link.qos # Off /\ ~new.on)
  BY <1>1, <1>8 DEF IsIdle
<1>15. Wants' = Asked(new)' /\ (~new.on => Asked(new)' = Off) /\ <<Off>> # <<>>
  BY <1>8 DEF Wants, Asked
<1>16. JobsArrive'
  BY <1>5, <1>7, <1>8, <1>13, <1>14, <1>15 DEF JobsArrive, Answers
<1>17. JobsComeBack'
  <2>1. ComesBack' => lease' = NoLease
    BY <1>8 DEF ComesBack
  <2>2. Home(chain)' = Kept(chain)'
    BY <1>8 DEF Home
  <2> QED  BY <1>5, <1>8, <1>13, <1>14, <2>1, <2>2 DEF JobsComeBack
<1> QED  BY <1>8, <1>9, <1>10, <1>11, <1>12, <1>16, <1>17 DEF QueueInv

LEMMA RecoveryStarts ==
    ASSUME QueueInv, RecoverLease
    PROVE  QueueInv'
<1>1. /\ due = "lock" /\ due' = "recovering" /\ job = Free
      /\ UNCHANGED <<link, chain, carrier, lease, stress, test, mode, listed, alien>>
      /\ unrecorded' = (unrecorded \/ chain.eg = "netem" \/ (~link.exists /\ listed.recovery # Off))
  BY DEF RecoverLease
<1>2. listed \in LeaseRows /\ link \in LinkRows /\ chain \in Chains /\ stress \in {"none"} \cup Faults
  BY <1>1 DEF QueueInv, QueueShape, RecoveryIsWhole
<1> DEFINE goals == IF listed.recovery = Off THEN <<>> ELSE <<listed.recovery>>
<1>3. job' = [kind |-> "tear", at |-> "write", goals |-> goals, todo |-> Tears.todo, undo |-> <<>>,
              ok |-> Tears.ok, bad |-> FALSE, new |-> link, had |-> stress]
  BY DEF RecoverLease, JobFor
<1>4. goals \in GoalLists /\ (goals # <<>> => listed.recovery \in Plans /\ goals = <<listed.recovery>> /\ listed.recovery # Off)
  BY <1>2 DEF GoalLists, LeaseRows, Aims
<1> HIDE DEF goals
<1>5. PICK V, c : /\ Leads(Tears.todo, V, chain, c)
                  /\ V \subseteq {Cmd("red", FALSE), Cmd("eg", "none"), Cmd("ing", "none"), Cmd("ifb", FALSE)}
                  /\ Cmd("eg", "none") \in V => chain.eg \in Plans
                  /\ Tears.ok \in BOOLEAN
                  /\ Tears.ok => BareOf(c)
  BY <1>2, TearsAre
<1>6. Tears.todo \in Seq(Commands) /\ Those(Tears.todo) = V /\ c \in Chains /\ PathTo(Tears.todo, chain, c)
  BY <1>5 DEF Leads
<1>7. \A w \in V : w.part = "eg" => w = Cmd("eg", "none") /\ w.to = "none"
  BY <1>5 DEF Cmd
<1>8. <<>> \in Seq(Commands) /\ Those(<<>>) = {}
  BY ThoseOf
<1>9. "tear" \notin Leased /\ "tear" \notin Unleased /\ "tear" \notin Restorers
  BY DEF Leased, Unleased, Restorers
<1>10. /\ job' \in Jobs /\ job' # Free
       /\ job'.kind = "tear" /\ job'.at = "write" /\ job'.goals = goals /\ job'.ok = Tears.ok /\ job'.bad = FALSE
       /\ job'.todo = Tears.todo /\ job'.undo = <<>>
  BY <1>2, <1>3, <1>4, <1>5, <1>6, <1>8 DEF Jobs, Free
<1>11. Those(job.todo)' = V /\ Those(job.undo)' = {}
  BY <1>6, <1>8, <1>10 DEF Those
<1>12. EgressOf(job.undo)' = {} /\ (EgressOf(job.todo)' # {} => chain.eg \in Plans)
  <2>1. EgressOf(job.undo)' = {} /\ EgressOf(job.todo)' = {w \in V : w.part = "eg"}
    BY <1>11 DEF EgressOf, Those
  <2> QED  BY <1>5, <1>7, <2>1
<1>13. JobIsWell'
  <2>1. V \cap [part : {"eg"}, to : {"netem"}] = {}
    <3>1. \A w \in [part : {"eg"}, to : {"netem"}] : w.part = "eg" /\ w.to = "netem"
      OBVIOUS
    <3> QED  BY <1>7, <3>1
  <2> QED  BY <1>5, <1>10, <1>11, <2>1 DEF JobIsWell, Those
<1>14. QueueShape' /\ FaultsAreLeased' /\ ChainIsKept'
  <2>1. unrecorded' \in BOOLEAN
    BY <1>1 DEF QueueInv, QueueShape
  <2> QED  BY <1>1, <1>10, <2>1 DEF QueueInv, QueueShape, FaultsAreLeased, ChainIsKept
<1>15. RootsAreTheirs'
  BY <1>1, <1>12, NamesDiffer DEF QueueInv, RootsAreTheirs
<1>16. RestoresRemove' /\ RestoresAreSafe' /\ JobsArrive' /\ JobsComeBack'
  BY <1>9, <1>10 DEF RestoresRemove, RestoresAreSafe, JobsArrive, JobsComeBack, Answers, ComesBack
<1>17. JobsHaveLeases'
  BY <1>1, <1>9, <1>10 DEF JobsHaveLeases
<1>18. RecoveryIsWhole'
  <2>1. listed' \in LeaseRows
    BY <1>1, <1>2
  <2>2. Covered' => (goals # <<>> => link'.exists)
    BY <1>1, <1>4 DEF Covered
  <2>3. job'.ok => PathTo(job.todo, chain, c)' /\ BareOf(c)'
    BY <1>1, <1>5, <1>6, <1>10 DEF PathTo, BareOf
  <2>4. job'.goals # <<>> => \E a \in Plans : job'.goals = <<a>>
    BY <1>4, <1>10
  <2> QED  BY <1>6, <1>10, <2>1, <2>2, <2>3, <2>4 DEF RecoveryIsWhole
<1> QED  BY <1>10, <1>13, <1>14, <1>15, <1>16, <1>17, <1>18 DEF QueueInv

LEMMA RestoresStart ==
    ASSUME QueueInv, NEW who \in Restorers, Restore(who)
    PROVE  QueueInv'
<1>1. /\ RestoreCalled(who) /\ job = Free
      /\ mode' = IF who = "boot" THEN stress ELSE mode
      /\ due' = IF who = "boot" THEN "restoring" ELSE due
      /\ UNCHANGED <<link, chain, lease, stress, test, listed, alien, unrecorded>>
  BY DEF Restore
<1>2. who \notin Leased /\ who \in Unleased /\ who \notin {"update", "link", "putback", "tear", "recover"}
      /\ who \in {"half", "close", "watchdog", "boot"}
  BY DEF Leased, Unleased, Restorers
<1>3. test # "inject" /\ (who = "boot" => stress # "none")
  BY <1>1, <1>2 DEF RestoreCalled
<1>4. link \in LinkRows /\ Effective \in Aims /\ (IF link.exists THEN Effective ELSE Off) = Effective
      /\ stress \in {"none"} \cup Faults /\ mode \in Faults /\ carrier \in BOOLEAN
  BY DEF QueueInv, QueueShape, LinkRows, Effective, Aims
<1>5. PICK goals \in GoalLists, ok \in BOOLEAN :
        /\ job' = [kind |-> who, at |-> "next", goals |-> goals, todo |-> <<>>, undo |-> <<>>,
                   ok |-> ok, bad |-> FALSE, new |-> link, had |-> stress]
        /\ IF ok THEN goals = <<Effective>> /\ carrier' = (carrier \/ mode' = "outage")
           ELSE goals = <<>> /\ carrier' = carrier
  <2>1. CASE job' = JobFor(who, <<IF link.exists THEN Effective ELSE Off>>) /\ carrier' = (carrier \/ mode' = "outage")
    <3>1. <<Effective>> \in GoalLists
      BY <1>4 DEF GoalLists
    <3> QED  BY <1>4, <2>1, <3>1 DEF JobFor
  <2>2. CASE job' = [JobFor(who, <<>>) EXCEPT !.ok = FALSE] /\ carrier' = carrier
    <3>1. <<>> \in GoalLists
      BY DEF GoalLists
    <3> QED  BY <2>2, <3>1 DEF JobFor
  <2> QED  BY <2>1, <2>2 DEF Restore
<1>6. <<Effective>> # <<>>
  OBVIOUS
<1>7. /\ job' \in Jobs /\ job' # Free
      /\ JobIsWell' /\ EgressOf(job.todo)' = {} /\ EgressOf(job.undo)' = {}
      /\ job'.kind = who /\ job'.at = "next" /\ job'.goals = goals /\ job'.ok = ok /\ job'.bad = FALSE
      /\ job'.new = link /\ job'.had = stress /\ Those(job.todo)' = {} /\ Those(job.undo)' = {}
  BY <1>2, <1>4, <1>5, JobStarts DEF QueueInv
<1>8. mode' \in Faults /\ carrier' \in BOOLEAN /\ (stress # "none" => mode' = stress)
      /\ (~carrier' => ~carrier) /\ (ok => carrier')
  <2>1. (stress # "none" => mode = stress) /\ (~carrier => stress = "outage")
    BY DEF QueueInv, FaultsAreLeased
  <2>2. CASE who = "boot"
    BY <1>1, <1>3, <1>4, <1>5, <2>1, <2>2
  <2>3. CASE who # "boot"
    BY <1>1, <1>3, <1>4, <1>5, <2>1, <2>3
  <2> QED  BY <2>2, <2>3
<1>9. QueueShape' /\ FaultsAreLeased' /\ RootsAreTheirs' /\ ChainIsKept'
  BY <1>1, <1>7, <1>8 DEF QueueInv, QueueShape, FaultsAreLeased, RootsAreTheirs, ChainIsKept
<1>10. RestoresRemove'
  BY <1>1, <1>3, <1>4, <1>5, <1>6, <1>7, <1>8 DEF RestoresRemove
<1>11. JobsHaveLeases'
  BY <1>2, <1>7 DEF JobsHaveLeases
<1>12. RecoveryIsWhole'
  BY <1>1, <1>2, <1>7 DEF QueueInv, RecoveryIsWhole
<1>13. Effective' = Effective /\ (\A c : Kept(c) => Kept(c)')
  BY <1>1, KeptStays
<1>14. ASSUME Covered', lease' = NoLease PROVE Kept(chain) /\ Kept(chain)' /\ Mended(chain)'
  <2>1. Kept(chain)
    BY <1>1, <1>14 DEF QueueInv, ChainIsKept, Covered
  <2> QED  BY <1>1, <1>13, <2>1 DEF Kept
<1>15. Wants' = Effective /\ ~IsIdle'
  BY <1>2, <1>7, <1>13 DEF Wants, IsIdle
<1>16. JobsArrive'
  <2>1. Answers' => lease' = NoLease
    BY <1>2, <1>7 DEF Answers
  <2> QED  BY <1>5, <1>6, <1>7, <1>14, <1>15, <2>1 DEF JobsArrive
<1>17. JobsComeBack'
  <2>1. ComesBack' => lease' = NoLease
    BY <1>2, <1>7 DEF ComesBack
  <2>2. Home(chain)' = Kept(chain)'
    BY <1>2, <1>7 DEF Home
  <2> QED  BY <1>7, <1>14, <1>15, <2>1, <2>2 DEF JobsComeBack
<1>18. RestoresAreSafe'
  <2> SUFFICES ASSUME Covered', lease' = NoLease
               PROVE  /\ due' = "nothing" /\ stress' = "none" => FitsFor(chain, Effective)'
                      /\ (due' = "nothing" \/ ~link'.exists) /\ Effective' = Off => chain'.eg \in {"none", "netem"}
    BY <1>7 DEF RestoresAreSafe
  <2>1. Kept(chain)
    BY <1>14
  <2>2. Kept(chain)' => (due' = "nothing" /\ stress' = "none" => FitsFor(chain, Effective)')
    BY DEF Kept
  <2>3. Kept(chain)' => ((due' = "nothing" \/ ~link'.exists) /\ Effective' = Off /\ chain'.eg # "netem" => BareOf(chain)')
    BY DEF Kept
  <2>4. BareOf(chain)' => chain'.eg = "none"
    BY DEF BareOf
  <2> QED  BY <1>14, <2>2, <2>3, <2>4
<1> QED  BY <1>7, <1>9, <1>10, <1>11, <1>12, <1>16, <1>17, <1>18 DEF QueueInv

-----------------------------------------------------------------------------
(* Queues: what happens to the interface from outside *)

LEMMA InjectsKeep ==
    ASSUME QueueInv, Inject
    PROVE  QueueInv'
<1>1. /\ test = "inject" /\ job = Free /\ test' # "inject"
      /\ UNCHANGED <<link, lease, stress, mode, job, due, listed, alien, unrecorded>>
  BY DEF Inject
<1>2. /\ QueueShape /\ FaultsAreLeased /\ alien = (chain.eg = "foreign")
      /\ (due \in {"lock", "recovering"} => listed \in LeaseRows)
      /\ (Covered /\ lease = NoLease => Kept(chain))
  BY <1>1 DEF QueueInv, RootsAreTheirs, ChainIsKept, RecoveryIsWhole
<1>3. stress = mode /\ stress # "none" /\ chain \in Chains
  BY <1>1, <1>2 DEF FaultsAreLeased, QueueShape
<1>4. CASE mode = "degrade" /\ (ChainOwned \/ (chain.eg = "none" /\ chain.ing = "none" /\ ~chain.red))
           /\ chain' = [chain EXCEPT !.eg = "netem"] /\ UNCHANGED carrier
  <2>1. /\ chain' \in Chains /\ chain'.eg = "netem" /\ chain'.ing = chain.ing /\ chain'.red = chain.red
        /\ chain.red \in BOOLEAN
    BY <1>3, <1>4 DEF Chains
  <2>2. (chain.ing \in Plans) = chain.red
    BY <1>3, <1>4, NamesDiffer DEF ChainOwned, Chains
  <2>3. Mended(chain)'
    BY <2>1, <2>2 DEF Mended
  <2>4. chain.eg # "foreign"
    BY <1>4, NamesDiffer DEF ChainOwned
  <2>5. QueueShape' /\ FaultsAreLeased'
    BY <1>1, <1>2, <1>3, <1>4, <2>1 DEF QueueShape, FaultsAreLeased
  <2>6. Kept(chain)'
    BY <1>1, <1>3, <2>1, <2>3 DEF Kept
  <2> QED  BY <1>1, <1>2, <2>1, <2>4, <2>5, <2>6, FreeIsEnough
<1>5. CASE UNCHANGED chain /\ (UNCHANGED carrier \/ (mode = "outage" /\ carrier' = FALSE))
  <2>1. QueueShape' /\ FaultsAreLeased'
    BY <1>1, <1>2, <1>3, <1>5 DEF QueueShape, FaultsAreLeased
  <2>2. \A c : Kept(c) => Kept(c)'
    BY <1>1, KeptStays
  <2> QED  BY <1>1, <1>2, <1>5, <2>1, <2>2, FreeIsEnough DEF Covered
<1> QED  BY <1>4, <1>5 DEF Inject

LEMMA ForeignersKeep ==
    ASSUME QueueInv, ForeignArrives
    PROVE  QueueInv'
<1>1. /\ job = Free /\ chain' = [chain EXCEPT !.eg = "foreign"] /\ alien' = TRUE
      /\ UNCHANGED <<link, carrier, lease, stress, test, mode, job, due, listed, unrecorded>>
  BY DEF ForeignArrives
<1>2. chain' \in Chains /\ chain'.eg = "foreign"
  BY <1>1 DEF QueueInv, QueueShape, Chains
<1>3. QueueShape' /\ FaultsAreLeased' /\ (due \in {"lock", "recovering"} => listed \in LeaseRows)'
  BY <1>1, <1>2 DEF QueueInv, QueueShape, FaultsAreLeased, RecoveryIsWhole
<1> QED  BY <1>1, <1>2, <1>3, FreeIsEnough DEF Covered

LEMMA DeathsKeep ==
    ASSUME QueueInv, Dies
    PROVE  QueueInv'
<1>1. /\ job' = Free /\ test' = "none" /\ due' = "qos" /\ listed' = NoLease
      /\ unrecorded' = (unrecorded \/ (Uncovered /\ chain' = chain))
      /\ UNCHANGED <<link, lease, stress, mode>>
      /\ (UNCHANGED <<chain, carrier, alien>>) \/ (chain' = Bare /\ carrier' = TRUE /\ alien' = FALSE)
  BY DEF Dies
<1>2. Bare \in Chains /\ BareOf(Bare) /\ Bare.eg = "none" /\ Mended(Bare)
  <2>1. Bare \in Chains /\ BareOf(Bare)
    BY DEF Bare, Chains, BareOf
  <2> QED  BY <2>1, BareIsDone
<1>3. QueueShape' /\ FaultsAreLeased' /\ (alien = (chain.eg = "foreign"))'
  <2>1. unrecorded' \in BOOLEAN
    BY <1>1 DEF QueueInv, QueueShape
  <2> QED  BY <1>1, <1>2, <2>1 DEF QueueInv, QueueShape, FaultsAreLeased, RootsAreTheirs
<1>4. ASSUME Covered', lease' = NoLease PROVE Kept(chain)'
  <2>1. Effective' = Effective /\ due' = "qos" /\ (\A c : Mended(c) => Mended(c)')
        /\ (\A c : BareOf(c) => BareOf(c)')
    BY <1>1 DEF Effective, Mended, WholeOf, BareOf
  <2>2. SUFFICES Mended(chain)' /\ (~link.exists /\ Effective = Off /\ chain'.eg # "netem" => BareOf(chain)')
    BY <1>1, <2>1 DEF Kept
  <2>3. CASE chain' = Bare
    BY <1>2, <2>1, <2>3 DEF Mended, BareOf, WholeOf
  <2>4. CASE chain' # Bare
    <3>1. chain' = chain /\ Covered /\ ~Uncovered /\ lease = NoLease /\ chain \in Chains
      BY <1>1, <1>4, <2>4 DEF Covered, QueueInv, QueueShape
    <3>2. CASE job = Free
      BY <2>1, <3>1, <3>2 DEF QueueInv, ChainIsKept, Kept
    <3>3. CASE job # Free
      <4>1. job.kind \notin Leased
        BY <3>1, <3>3, NoLeaseIsNone DEF QueueInv, JobsHaveLeases
      <4>2. job.kind \notin {"tear", "recover"}
        BY <3>1, <3>3, NoLeaseIsNone DEF QueueInv, JobsHaveLeases, RecoveryIsWhole, Uncovered
      <4>3. job.kind \in Unleased
        BY <3>3, <4>1, <4>2 DEF QueueInv, QueueShape, Jobs
      <4>4. Mended(chain)
        BY <3>1, <3>3, <4>3, MendedIsNotTorn DEF Uncovered
      <4>5. ASSUME ~link.exists, Effective = Off, chain.eg # "netem" PROVE BareOf(chain)
        <5>1. job.kind \in Restorers
          BY <3>3, <4>3, <4>5 DEF Unleased, QueueInv, JobsHaveLeases
        <5>2. chain.eg \in {"none", "netem"}
          BY <3>1, <3>3, <4>5, <5>1 DEF QueueInv, RestoresAreSafe
        <5>3. chain.eg = "none"
          BY <4>5, <5>2
        <5> QED  BY <4>4, <5>3, NamesDiffer DEF Mended, WholeOf
      <4> QED  BY <2>1, <3>1, <4>4, <4>5
    <3> QED  BY <3>2, <3>3
  <2> QED  BY <2>3, <2>4
<1> QED  BY <1>1, <1>3, <1>4, FreeIsEnough

-----------------------------------------------------------------------------
(* Queues: releasing the lock *)

LEMMA DoneIsKept ==
    ASSUME Done(chain', Effective'), chain'.eg = "netem" => stress' # "none"
    PROVE  Kept(chain)'
<1>1. Mended(chain') /\ (chain'.eg # "netem" => FitsFor(chain', Effective'))
  BY DEF Done
<1>2. Mended(chain)' /\ (chain'.eg # "netem" => FitsFor(chain, Effective)')
  BY <1>1 DEF Mended, WholeOf, BareOf, FitsFor, WholeChain
<1>3. FitsFor(chain, Effective)' /\ Effective' = Off => BareOf(chain)'
  BY DEF FitsFor
<1> QED  BY <1>2, <1>3 DEF Kept

\* The rollback takes over the lease of the operation it rolls back.
LEMMA RepairsStart ==
    ASSUME QueueInv, lease \in LeaseRows, lease.recovery = Effective, Covered /\ Effective = Off => Mended(chain),
           job' = JobFor("repair", <<lease.recovery>>),
           UNCHANGED <<link, chain, carrier, lease, stress, test, mode, due, listed, alien, unrecorded>>
    PROVE  QueueInv'
<1>1. Effective \in Aims /\ link \in LinkRows /\ Effective' = Effective
  BY DEF QueueInv, QueueShape, LinkRows, Effective, Aims
<1>2. <<Effective>> \in GoalLists /\ <<Effective>> # <<>>
  BY <1>1 DEF GoalLists
<1>3. "repair" \in Leased /\ "repair" \notin Unleased /\ "repair" \notin Restorers
  BY DEF Leased, Unleased, Restorers
<1>4. job' = [kind |-> "repair", at |-> "next", goals |-> <<Effective>>, todo |-> <<>>, undo |-> <<>>,
              ok |-> TRUE, bad |-> FALSE, new |-> link, had |-> stress]
  BY DEF JobFor
<1>5. /\ job' \in Jobs /\ job' # Free
      /\ JobIsWell' /\ EgressOf(job.todo)' = {} /\ EgressOf(job.undo)' = {}
      /\ job'.kind = "repair" /\ job'.at = "next" /\ job'.goals = <<Effective>> /\ job'.ok = TRUE
      /\ job'.new = link
  <2>1. QueueShape /\ "repair" \in Leased \cup Unleased \cup {"tear", "recover"}
    BY <1>3 DEF QueueInv
  <2>2. PICK goals : goals = <<Effective>>
    OBVIOUS
  <2>3. goals \in GoalLists /\ TRUE \in BOOLEAN
        /\ job' = [kind |-> "repair", at |-> "next", goals |-> goals, todo |-> <<>>, undo |-> <<>>,
                   ok |-> TRUE, bad |-> FALSE, new |-> link, had |-> stress]
    BY <1>2, <1>4, <2>2
  <2>4. /\ job' \in Jobs /\ job' # Free
        /\ JobIsWell' /\ EgressOf(job.todo)' = {} /\ EgressOf(job.undo)' = {}
        /\ job'.kind = "repair" /\ job'.at = "next" /\ job'.goals = goals /\ job'.ok = TRUE
        /\ job'.new = link
    BY <1>1, <2>1, <2>3, JobStarts
  <2> QED  BY <2>2, <2>4
<1>6. QueueShape' /\ FaultsAreLeased' /\ RootsAreTheirs' /\ ChainIsKept'
  BY <1>5 DEF QueueInv, QueueShape, FaultsAreLeased, RootsAreTheirs, ChainIsKept
<1>7. RestoresRemove' /\ RestoresAreSafe' /\ JobsComeBack'
  BY <1>3, <1>5 DEF RestoresRemove, RestoresAreSafe, JobsComeBack, ComesBack
<1>8. JobsHaveLeases' /\ RecoveryIsWhole'
  BY <1>1, <1>3, <1>5 DEF QueueInv, JobsHaveLeases, RecoveryIsWhole
<1>9. JobsArrive'
  <2>1. Wants' = Effective
    BY <1>1, <1>5 DEF Wants
  <2>2. Covered' /\ Effective = Off => Mended(chain)'
    BY DEF Covered, Mended, WholeOf, BareOf
  <2> QED  BY <1>2, <1>5, <2>1, <2>2 DEF JobsArrive
<1> QED  BY <1>5, <1>6, <1>7, <1>8, <1>9 DEF QueueInv

LEMMA OperationsEnd ==
    ASSUME QueueInv, EndOperation
    PROVE  QueueInv'
<1>1. /\ job # Free /\ job.at = "end" /\ job.kind \in Leased
      /\ unrecorded' = (unrecorded \/ (job.kind = "current" /\ ~job.ok))
      /\ UNCHANGED <<chain, carrier, stress, test, mode, due, listed, alien>>
  BY DEF EndOperation, Ends, Leased
<1>2. /\ lease \in LeaseRows /\ lease.recovery = Effective /\ lease # NoLease
      /\ (job.kind = "bench" => Effective # Off)
      /\ job \in Jobs /\ (job.ok => job.goals = <<>>) /\ chain \in Chains
  BY <1>1, NoLeaseIsNone DEF QueueInv, JobsHaveLeases, QueueShape, JobIsWell
<1>3. Covered /\ job.ok /\ job.kind # "bench" => Done(chain, Wants)
  BY <1>1, <1>2 DEF QueueInv, JobsArrive, Answers, Leased
<1>4. chain.eg = "netem" => stress # "none"
  BY DEF QueueInv, FaultsAreLeased
<1>5. Covered' => Covered
  BY <1>1 DEF Covered
<1>6. (alien = (chain.eg = "foreign"))' /\ FaultsAreLeased' /\ (due \in {"lock", "recovering"} => listed \in LeaseRows)'
  BY <1>1 DEF QueueInv, RootsAreTheirs, FaultsAreLeased, RecoveryIsWhole
<1>7. unrecorded' \in BOOLEAN
  BY <1>1, <1>2 DEF QueueInv, QueueShape, Jobs
\* The operation went well: the row, if it changes, is what the chain now is.
<1>8. ASSUME link' \in LinkRows, job' = Free, lease' \in {NoLease, lease}, job.ok, Effective' = Wants, job.kind # "bench"
      PROVE  QueueInv'
  <2>1. Covered' => Kept(chain)'
    <3>1. ASSUME Covered' PROVE Done(chain', Effective')
      BY <1>1, <1>3, <1>5, <1>8, <3>1
    <3> QED  BY <1>1, <1>4, <3>1, DoneIsKept
  <2>2. QueueShape'
    BY <1>1, <1>2, <1>7, <1>8 DEF QueueInv, QueueShape
  <2> QED  BY <1>6, <1>8, <2>1, <2>2, FreeIsEnough
\* It did not: it came back, its lease stays, or nobody vouches for it.
<1>9. ASSUME UNCHANGED link, job' = Free, lease' = lease \/ (lease' = NoLease /\ ~job.bad), ~job.ok,
             job.kind # "bench", job.kind = "repair" => lease' = lease
      PROVE  QueueInv'
  <2>1. ASSUME Covered', lease' = NoLease PROVE Kept(chain)'
    <3>1. ~job.bad /\ job.kind = "update"
      BY <1>1, <1>2, <1>9, <2>1 DEF Covered, Leased
    <3>2. \A c : Kept(c) => Kept(c)'
      BY <1>1, <1>9, KeptStays
    <3>3. Kept(chain)
      BY <1>1, <1>5, <1>9, <2>1, <3>1 DEF QueueInv, JobsComeBack, ComesBack, Home
    <3> QED  BY <1>1, <3>2, <3>3
  <2>2. QueueShape'
    BY <1>1, <1>2, <1>7, <1>9 DEF QueueInv, QueueShape
  <2> QED  BY <1>6, <1>9, <2>1, <2>2, FreeIsEnough
\* The rollback runs.
<1>10. ASSUME UNCHANGED link, Repairs, job.kind = "bench" \/ job.ok, job.kind \in {"update", "bench"}
       PROVE  QueueInv'
  <2>1. UNCHANGED <<link, chain, carrier, lease, stress, test, mode, due, listed, alien, unrecorded>>
    <3>1. unrecorded' = unrecorded
      BY <1>1, <1>10 DEF QueueInv, QueueShape
    <3> QED  BY <1>1, <1>10, <3>1 DEF Repairs
  <2>2. Covered /\ Effective = Off => Mended(chain)
    BY <1>2, <1>3, <1>10 DEF Done
  <2> QED  BY <1>2, <1>10, <2>1, <2>2, RepairsStart DEF Repairs
<1>11. CASE Ends({"update"}) /\ job.ok /\ Persist
  <2>1. job.kind = "update"
    BY <1>11 DEF Ends
  <2>2. CASE link' = job.new /\ lease' = NoLease /\ job' = Free
    <3>1. link' \in LinkRows /\ Effective' = Wants
      BY <1>2, <2>1, <2>2 DEF Jobs, Effective, Wants, Asked
    <3> QED  BY <1>8, <1>11, <2>1, <2>2, <3>1
  <2>3. CASE Repairs /\ UNCHANGED link
    BY <1>10, <1>11, <2>1, <2>3
  <2> QED  BY <1>11, <2>2, <2>3 DEF Persist
<1>12. CASE Ends({"bench"}) /\ Repairs /\ UNCHANGED link
  BY <1>10, <1>12 DEF Ends
<1>13. CASE /\ UNCHANGED link /\ job' = Free /\ job.kind # "bench"
            /\ (job.kind = "repair" /\ ~job.ok => lease' = lease)
            /\ lease' = lease \/ (lease' = NoLease /\ ~job.bad)
            /\ job.kind = "update" => ~job.ok
  <2>1. CASE job.ok
    <3>1. Effective' = Wants /\ link' \in LinkRows
      BY <1>1, <1>13, <2>1 DEF QueueInv, QueueShape, Effective, Wants, Leased
    <3> QED  BY <1>8, <1>13, <2>1, <3>1
  <2>2. CASE ~job.ok
    BY <1>9, <1>13, <2>2
  <2> QED  BY <2>1, <2>2
<1>14. CASE \/ Ends({"update"}) /\ ~job.ok /\ CloseLease /\ UNCHANGED link
            \/ Ends({"current"}) /\ CloseLease /\ UNCHANGED link
            \/ Ends({"repair"}) /\ job.ok /\ CloseLease /\ UNCHANGED link
            \/ Ends({"repair"}) /\ ~job.ok /\ job' = Free /\ UNCHANGED <<link, lease>>
  BY <1>13, <1>14 DEF Ends, CloseLease
<1> QED  BY <1>11, <1>12, <1>14 DEF EndOperation

LEMMA RecoveriesEnd ==
    ASSUME QueueInv, EndRecovery
    PROVE  QueueInv'
<1>1. /\ job # Free /\ job.at = "end" /\ job.kind \in {"tear", "recover"}
      /\ job' = Free /\ due' = "stress" /\ listed' = NoLease
      /\ lease' = lease \/ (lease' = NoLease)
      /\ ~job.ok => lease' = lease
      /\ unrecorded' = (unrecorded \/ (~job.ok /\ lease # listed))
      /\ UNCHANGED <<link, chain, carrier, stress, test, mode, alien>>
  BY DEF EndRecovery, Ends
<1>2. job \in Jobs /\ listed \in LeaseRows /\ listed # NoLease /\ chain \in Chains
  BY <1>1, NoLeaseIsNone DEF QueueInv, QueueShape, JobsHaveLeases, RecoveryIsWhole
<1>3. QueueShape' /\ FaultsAreLeased' /\ (alien = (chain.eg = "foreign"))'
  <2>1. unrecorded' \in BOOLEAN
    BY <1>1, <1>2 DEF QueueInv, QueueShape, Jobs
  <2> QED  BY <1>1, <2>1 DEF QueueInv, QueueShape, FaultsAreLeased, RootsAreTheirs
<1>4. ASSUME Covered', lease' = NoLease PROVE Kept(chain)'
  <2>1. Covered /\ job.ok
    BY <1>1, <1>2, <1>4 DEF Covered
  <2>2. BareOf(chain) \/ (WholeOf(chain) /\ link.exists)
    BY <1>1, <2>1 DEF QueueInv, RecoveryIsWhole
  <2>3. Mended(chain)' /\ (~link'.exists => BareOf(chain)')
    BY <1>1, <2>2 DEF Mended, WholeOf, BareOf
  <2> QED  BY <1>1, <2>3 DEF Kept
<1> QED  BY <1>1, <1>3, <1>4, FreeIsEnough

LEMMA RestoresEnd ==
    ASSUME QueueInv, EndRestore
    PROVE  QueueInv'
<1>1. /\ job # Free /\ job.at = "end" /\ job.kind \in Restorers /\ job' = Free
      /\ stress' = stress \/ stress' = LeaseOf
      /\ test' = "inject" => test = "inject"
      /\ due' = IF job.kind = "boot" THEN "reconcile" ELSE due
      /\ unrecorded' = (unrecorded \/ (job.bad /\ Torn))
      /\ UNCHANGED <<link, chain, carrier, lease, mode, listed, alien>>
  BY DEF EndRestore, Ends
<1>2. job \in Jobs /\ chain \in Chains /\ (job.ok => ~job.bad /\ job.goals = <<>>) /\ job.bad \in BOOLEAN
      /\ stress \in {"none"} \cup Faults
  BY <1>1 DEF QueueInv, QueueShape, JobIsWell, Jobs
<1>3. /\ job.had # "none" => stress = job.had /\ test # "inject"
      /\ job.ok => carrier /\ chain.eg # "netem"
  BY <1>1, <1>2 DEF QueueInv, RestoresRemove
<1>4. stress' = stress \/ (stress' = "none" /\ job.ok /\ job.had # "none")
  BY <1>1 DEF LeaseOf
<1>5. FaultsAreLeased' /\ QueueShape' /\ (alien = (chain.eg = "foreign"))'
      /\ (due \in {"lock", "recovering"} => listed \in LeaseRows)'
  <2>1. unrecorded' \in BOOLEAN /\ stress' \in {"none"} \cup Faults
    BY <1>1, <1>2, <1>4 DEF QueueInv, QueueShape
  <2>2. QueueShape' /\ (alien = (chain.eg = "foreign"))' /\ (due \in {"lock", "recovering"} => listed \in LeaseRows)'
    BY <1>1, <2>1 DEF QueueInv, QueueShape, RootsAreTheirs, RecoveryIsWhole
  <2> QED  BY <1>1, <1>3, <1>4, <2>2 DEF QueueInv, FaultsAreLeased
<1>6. ASSUME Covered', lease' = NoLease PROVE Kept(chain)'
  <2>1. Covered /\ lease = NoLease /\ (job.bad => Mended(chain)) /\ Effective' = Effective
    BY <1>1, <1>2, <1>6, MendedIsNotTorn DEF Covered, Effective
  <2>2. job.kind \in Unleased /\ job.kind \notin {"link", "putback", "update"} /\ ~IsIdle
    BY <1>1 DEF Unleased, Restorers, IsIdle
  <2>3. CASE job.ok
    <3>1. Done(chain, Effective)
      BY <1>1, <1>2, <2>1, <2>2, <2>3 DEF QueueInv, JobsArrive, Answers, Wants
    <3> QED  BY <1>1, <1>3, <2>1, <2>3, <3>1, DoneIsKept
  <2>4. CASE ~job.ok /\ ~job.bad
    <3>1. Kept(chain)
      BY <1>1, <2>1, <2>2, <2>4 DEF QueueInv, JobsComeBack, ComesBack, Home
    <3>2. \A c : Kept(c) => Kept(c)'
      BY <1>1, <1>4, <2>4, KeptStays
    <3> QED  BY <1>1, <3>1, <3>2
  <2>5. CASE ~job.ok /\ job.bad
    <3>1. Mended(chain) /\ stress' = stress /\ (due' = "nothing" => due = "nothing")
      BY <1>1, <1>4, <2>1, <2>5
    <3>2. /\ due = "nothing" /\ stress = "none" => FitsFor(chain, Effective)
          /\ (due = "nothing" \/ ~link.exists) /\ Effective = Off => chain.eg \in {"none", "netem"}
      BY <1>1, <2>1 DEF QueueInv, RestoresAreSafe
    <3>3. chain.eg = "none" => BareOf(chain)
      BY <3>1, NamesDiffer DEF Mended, WholeOf
    <3>4. Kept(chain)
      BY <3>1, <3>2, <3>3 DEF Kept
    <3>5. \A c : Kept(c) => Kept(c)'
      BY <1>1, <3>1, KeptStays
    <3> QED  BY <1>1, <3>4, <3>5
  <2> QED  BY <1>2, <2>3, <2>4, <2>5
<1> QED  BY <1>1, <1>5, <1>6, FreeIsEnough

LEMMA LinkEditsEnd ==
    ASSUME QueueInv, EndLink
    PROVE  QueueInv'
<1>1. /\ job # Free /\ job.at = "end" /\ job.kind \in {"link", "putback"}
      /\ due' = IF due = "nothing" /\ (link' # link \/ job.kind = "putback") THEN "reconcile" ELSE due
      /\ unrecorded' = (unrecorded \/ (job.bad /\ (Torn \/ (job.kind = "link" /\ ~Fits)))
                                  \/ (link'.exists # link.exists /\ due # "nothing"))
      /\ UNCHANGED <<chain, carrier, lease, stress, test, mode, listed, alien>>
  BY DEF EndLink, Ends
<1>2. /\ job \in Jobs /\ chain \in Chains /\ (job.ok => ~job.bad /\ job.goals = <<>>) /\ job.bad \in BOOLEAN
      /\ link \in LinkRows /\ job.new \in LinkRows /\ link.exists
      /\ (job.kind = "link" => job.new # link)
  BY <1>1 DEF QueueInv, QueueShape, JobIsWell, Jobs, JobsHaveLeases
<1>3. "reconcile" \notin {"nothing", "lock", "recovering"} /\ job.kind \in Unleased
  BY <1>1 DEF Unleased
<1>4. FaultsAreLeased' /\ (alien = (chain.eg = "foreign"))' /\ (due \in {"lock", "recovering"} => listed \in LeaseRows)'
  BY <1>1, <1>3 DEF QueueInv, FaultsAreLeased, RootsAreTheirs, RecoveryIsWhole
<1>5. unrecorded' \in BOOLEAN
  BY <1>1, <1>2 DEF QueueInv, QueueShape
<1>6. Covered' => Covered
  BY <1>1 DEF Covered
<1>7. chain.eg = "netem" => stress # "none"
  BY DEF QueueInv, FaultsAreLeased
<1>8. Covered /\ lease = NoLease /\ IsIdle => Kept(chain) /\ job.ok
  BY <1>1, <1>3 DEF QueueInv, JobsComeBack, ComesBack
<1>9. Covered /\ lease = NoLease /\ ~IsIdle /\ job.ok => Done(chain, Wants)
  BY <1>1, <1>2, <1>3 DEF QueueInv, JobsArrive, Answers
<1>10. Covered /\ lease = NoLease /\ ~job.ok /\ ~job.bad => Home(chain)
  BY <1>1, <1>3 DEF QueueInv, JobsComeBack, ComesBack
<1>11. job.kind = "putback" => Wants = Effective /\ ~IsIdle
  BY DEF Wants, IsIdle
<1>12. job.kind = "link" => Wants = Asked(job.new)
  BY DEF Wants
<1>13. Covered' => (job.bad => ~Torn /\ (job.kind = "link" => Fits)) /\ (link'.exists # link.exists => due = "nothing")
  BY <1>1 DEF Covered
\* The row is written: the reconciliation follows.
<1>20. CASE job.kind = "link" /\ job.ok /\ link' = job.new /\ job' = Free
  <2>1. due' # "nothing"
    BY <1>1, <1>2, <1>3, <1>20
  <2>2. ASSUME Covered', lease' = NoLease PROVE Kept(chain)'
    <3>1. Mended(chain)
      BY <1>1, <1>6, <1>8, <1>9, <1>20, <2>2 DEF Kept, Done
    <3>2. ASSUME ~job.new.exists, chain.eg # "netem" PROVE BareOf(chain)
      <4>1. ~job.new.on /\ due = "nothing"
        BY <1>2, <1>13, <1>20, <2>2, <3>2 DEF LinkRows
      <4>2. CASE IsIdle
        <5>1. link.qos = Off /\ Effective = Off
          BY <4>1, <4>2 DEF IsIdle, Effective
        <5> QED  BY <1>1, <1>6, <1>8, <2>2, <3>2, <4>1, <4>2, <5>1 DEF Kept
      <4>3. CASE ~IsIdle
        <5>1. Wants = Off
          BY <1>12, <1>20, <4>1 DEF Asked
        <5> QED  BY <1>1, <1>6, <1>9, <1>20, <2>2, <3>2, <4>3, <5>1 DEF Done, FitsFor
      <4> QED  BY <4>2, <4>3
    <3>3. Mended(chain)' /\ (~link'.exists /\ chain'.eg # "netem" => BareOf(chain)')
      BY <1>1, <1>20, <3>1, <3>2 DEF Mended, WholeOf, BareOf
    <3> QED  BY <2>1, <3>3 DEF Kept
  <2>3. QueueShape'
    BY <1>1, <1>2, <1>5, <1>20 DEF QueueInv, QueueShape
  <2> QED  BY <1>4, <1>20, <2>2, <2>3, FreeIsEnough
\* It could not be written, and there was nothing to put back.
<1>21. CASE job.kind = "link" /\ job.ok /\ UNCHANGED link /\ job' = Free /\ ~(link.qos # Off /\ ~job.new.on)
  <2>1. IsIdle /\ due' = due
    BY <1>1, <1>2, <1>21 DEF IsIdle, LinkRows
  <2>2. \A c : Kept(c) => Kept(c)'
    BY <1>1, <1>21, <2>1, KeptStays
  <2>3. Covered' /\ lease' = NoLease => Kept(chain)'
    BY <1>1, <1>6, <1>8, <2>1, <2>2
  <2>4. QueueShape'
    BY <1>1, <1>2, <1>5, <1>21 DEF QueueInv, QueueShape
  <2> QED  BY <1>4, <1>21, <2>3, <2>4, FreeIsEnough
\* It could not be written: the queue is put back.
<1>22. CASE job.kind = "link" /\ job.ok /\ UNCHANGED link /\ job' = JobFor("putback", <<Effective>>)
            /\ link.qos # Off /\ ~job.new.on
  <2>1. Effective \in Aims /\ Effective' = Effective /\ due' = due /\ unrecorded' = unrecorded /\ ~IsIdle
    BY <1>1, <1>2, <1>22 DEF LinkRows, Effective, Aims, IsIdle, QueueInv, QueueShape
  <2>2. <<Effective>> \in GoalLists /\ <<Effective>> # <<>>
    BY <2>1 DEF GoalLists
  <2>3. "putback" \in Unleased /\ "putback" \notin Leased /\ "putback" \notin Restorers
    BY DEF Leased, Unleased, Restorers
  <2>4. job' = [kind |-> "putback", at |-> "next", goals |-> <<Effective>>, todo |-> <<>>, undo |-> <<>>,
                ok |-> TRUE, bad |-> FALSE, new |-> link, had |-> stress]
    BY <1>22 DEF JobFor
  <2>5. /\ job' \in Jobs /\ job' # Free
        /\ JobIsWell' /\ EgressOf(job.todo)' = {} /\ EgressOf(job.undo)' = {}
        /\ job'.kind = "putback" /\ job'.at = "next" /\ job'.goals = <<Effective>> /\ job'.ok = TRUE
        /\ job'.new = link
    BY <1>2, <2>2, <2>3, <2>4, JobStarts DEF QueueInv
  <2>6. QueueShape' /\ RootsAreTheirs' /\ ChainIsKept'
    BY <1>1, <1>22, <2>1, <2>5 DEF QueueInv, QueueShape, RootsAreTheirs, ChainIsKept
  <2>7. RestoresRemove' /\ RestoresAreSafe'
    BY <2>3, <2>5 DEF RestoresRemove, RestoresAreSafe
  <2>8. JobsHaveLeases' /\ RecoveryIsWhole'
    BY <1>1, <1>2, <1>4, <1>22, <2>3, <2>5 DEF JobsHaveLeases, RecoveryIsWhole
  <2>9. Covered' /\ lease' = NoLease => Mended(chain)'
    BY <1>1, <1>6, <1>9, <1>22, <2>1 DEF Done, Mended, WholeOf, BareOf
  <2>10. Wants' = Effective /\ ~IsIdle' /\ (Home(chain)' <=> Mended(chain)')
    BY <2>1, <2>5 DEF Wants, IsIdle, Home
  <2>11. JobsArrive'
    <3>1. Answers' => lease' = NoLease
      BY <2>5 DEF Answers
    <3> QED  BY <2>2, <2>5, <2>9, <2>10, <3>1 DEF JobsArrive
  <2>12. JobsComeBack'
    <3>1. ComesBack' => lease' = NoLease
      BY <2>5 DEF ComesBack
    <3> QED  BY <2>5, <2>9, <2>10, <3>1 DEF JobsComeBack
  <2> QED  BY <1>4, <2>5, <2>6, <2>7, <2>8, <2>11, <2>12 DEF QueueInv
\* The queue was put back, or the chain never went.
<1>23. CASE (job.kind = "putback" \/ ~job.ok) /\ job' = Free /\ UNCHANGED link
  <2>1. ASSUME Covered', lease' = NoLease PROVE Kept(chain)'
    <3>1. Covered /\ lease = NoLease /\ Effective' = Effective
      BY <1>1, <1>6, <1>23, <2>1 DEF Effective
    <3>2. CASE job.kind = "putback"
      <4>1. due' # "nothing" /\ link'.exists
        BY <1>1, <1>2, <1>3, <1>23, <3>2
      <4>2. Mended(chain)
        <5>1. CASE job.ok
          BY <1>9, <1>11, <3>1, <3>2, <5>1 DEF Done
        <5>2. CASE ~job.ok /\ ~job.bad
          BY <1>10, <3>1, <3>2, <5>2 DEF Home
        <5>3. CASE job.bad
          BY <1>2, <1>13, <2>1, <5>3, MendedIsNotTorn
        <5> QED  BY <1>2, <5>1, <5>2, <5>3
      <4> QED  BY <1>1, <4>1, <4>2 DEF Kept, Mended, WholeOf, BareOf
    <3>3. CASE job.kind = "link"
      <4>1. ~job.ok /\ due' = due
        BY <1>1, <1>23, <3>3
      <4>2. CASE ~job.bad
        <5>1. Kept(chain)
          BY <1>10, <3>1, <3>3, <4>1, <4>2 DEF Home
        <5>2. \A c : Kept(c) => Kept(c)'
          BY <1>1, <1>23, <4>1, KeptStays
        <5> QED  BY <1>1, <5>1, <5>2
      <4>3. CASE job.bad
        <5>1. FitsFor(chain, Effective) /\ Effective \in Aims
          BY <1>2, <1>13, <2>1, <3>3, <4>3, FitsIsFitsFor DEF LinkRows, Effective, Aims
        <5>2. Done(chain, Effective)
          BY <1>2, <5>1, FitsAre
        <5> QED  BY <1>1, <1>7, <3>1, <5>2, DoneIsKept
      <4> QED  BY <1>2, <4>2, <4>3
    <3> QED  BY <1>1, <3>2, <3>3
  <2>2. QueueShape'
    BY <1>1, <1>2, <1>5, <1>23 DEF QueueInv, QueueShape
  <2> QED  BY <1>4, <1>23, <2>1, <2>2, FreeIsEnough
<1>24. \/ job.kind = "link" /\ job.ok /\ link' = job.new /\ job' = Free
       \/ /\ job.kind = "link" /\ job.ok /\ UNCHANGED link
          /\ job' = IF link.qos # Off /\ ~job.new.on THEN JobFor("putback", <<Effective>>) ELSE Free
       \/ (job.kind = "putback" \/ ~job.ok) /\ job' = Free /\ UNCHANGED link
  BY DEF EndLink
<1> QED  BY <1>20, <1>21, <1>22, <1>23, <1>24

-----------------------------------------------------------------------------
(* Queues: one command after another *)

\* A step of whoever holds the lock, which only his job and the chain see.
LEMMA OnlyJob ==
    ASSUME QueueInv, job # Free, JobOnly, job' \in Jobs, chain' \in Chains,
           job'.kind = job.kind \/ (job.kind = "tear" /\ job'.kind = "recover"),
           job'.new = job.new, job.goals = <<>> => job'.goals = <<>>
    PROVE  /\ UNCHANGED <<link, carrier, lease, stress, test, mode, due, listed, alien, unrecorded>>
           /\ job' # Free /\ QueueShape' /\ ChainIsKept' /\ JobsHaveLeases'
           /\ Effective' = Effective /\ Wants' = Wants /\ IsIdle' = IsIdle /\ Covered' = Covered
           /\ Answers' = Answers /\ ComesBack' = ComesBack /\ \A c : Home(c)' = Home(c)
           /\ (due \in {"lock", "recovering"} => listed \in LeaseRows)'
           /\ (job'.kind \in Restorers <=> job.kind \in Restorers)
<1>1. UNCHANGED <<link, carrier, lease, stress, test, mode, due, listed, alien, unrecorded>>
  BY DEF JobOnly
<1>2. "tear" \notin Leased /\ "tear" \notin Unleased /\ "recover" \notin Leased /\ "recover" \notin Unleased
      /\ "tear" \notin Restorers /\ "recover" \notin Restorers /\ "free" \notin Leased \cup Unleased \cup {"tear", "recover"}
  BY DEF Leased, Unleased, Restorers
<1>3. job' # Free
  BY <1>2 DEF Jobs, Free
<1>4. QueueShape' /\ ChainIsKept' /\ (due \in {"lock", "recovering"} => listed \in LeaseRows)'
  BY <1>1, <1>3 DEF QueueInv, QueueShape, ChainIsKept, RecoveryIsWhole
<1>5. Effective' = Effective /\ Covered' = Covered /\ (\A c : Kept(c)' = Kept(c)) /\ (\A c : Mended(c)' = Mended(c))
  BY <1>1 DEF Effective, Covered, Kept, Mended, WholeOf, BareOf, FitsFor, WholeChain
<1>6. JobsHaveLeases'
  BY <1>1, <1>2, <1>5 DEF QueueInv, JobsHaveLeases
<1>7. CASE job'.kind = job.kind
  BY <1>1, <1>3, <1>4, <1>5, <1>6, <1>7 DEF Wants, IsIdle, Answers, ComesBack, Home, Asked
<1>8. CASE job.kind = "tear" /\ job'.kind = "recover"
  BY <1>1, <1>2, <1>3, <1>4, <1>5, <1>6, <1>8 DEF Wants, IsIdle, Answers, ComesBack, Home
<1> QED  BY <1>7, <1>8

\* To undo a command is to put back what was there.
LEMMA UndosAre ==
    ASSUME chain \in Chains, NEW w \in Commands, w.part = "eg" => chain.eg # "foreign"
    PROVE  \E u \in Commands : /\ Set(w.part, chain[w.part]) = <<u>>
                               /\ Put(Put(chain, w), u) = chain /\ Put(chain, u) = chain
                               /\ u.part = w.part /\ (w.part = "eg" => u.to = chain.eg)
<1> DEFINE u == [part |-> w.part, to |-> chain[w.part]]
<1>1. w.part \in {"eg", "ifb", "ing", "red"}
  BY DEF Commands
<1>2. /\ chain.eg \in Plans \cup {"none", "netem", "foreign"} /\ chain.ifb \in BOOLEAN
      /\ chain.ing \in Plans \cup {"none"} /\ chain.red \in BOOLEAN
  BY DEF Chains
<1>3. u \in Commands
  <2>1. CASE w.part = "eg"
    BY <1>2, <2>1 DEF Commands
  <2>2. CASE w.part \in {"ifb", "red"}
    BY <1>2, <2>2 DEF Commands
  <2>3. CASE w.part = "ing"
    BY <1>2, <2>3 DEF Commands
  <2> QED  BY <1>1, <2>1, <2>2, <2>3
<1>4. u.part = w.part /\ u.to = chain[w.part] /\ Set(w.part, chain[w.part]) = <<u>>
  BY DEF Set
<1> HIDE DEF u
<1>5. Put(Put(chain, w), u) = chain /\ Put(chain, u) = chain
  <2>1. Put(chain, u) = [chain EXCEPT ![w.part] = chain[w.part]]
    BY <1>4 DEF Put
  <2>2. Put(Put(chain, w), u) = [[chain EXCEPT ![w.part] = w.to] EXCEPT ![w.part] = chain[w.part]]
    BY <1>4 DEF Put
  <2> QED  BY <1>1, <2>1, <2>2 DEF Chains
<1> QED  BY <1>3, <1>4, <1>5

\* The holder of the lock has come to the end of what it had to do.
LEMMA GoalsEnd ==
    ASSUME QueueInv, JobOnly, UNCHANGED chain, job # Free, job.at = "next", NEW ok \in BOOLEAN,
           job' = [job EXCEPT !.at = "end", !.ok = ok],
           ok = job.ok \/ (~ok /\ job.goals # <<>>), ~job.ok \/ job.goals = <<>> \/ ~ok
    PROVE  QueueInv'
<1>1. job \in Jobs /\ chain \in Chains
  BY DEF QueueInv, QueueShape
<1>2. /\ job' \in Jobs /\ job'.kind = job.kind /\ job'.at = "end" /\ job'.ok = ok /\ job'.bad = job.bad
      /\ job'.goals = job.goals /\ job'.todo = job.todo /\ job'.undo = job.undo /\ job'.new = job.new
      /\ job'.had = job.had /\ (ok => job.ok)
  BY <1>1 DEF Jobs
<1>3. /\ UNCHANGED <<link, carrier, lease, stress, test, mode, due, listed, alien, unrecorded>>
      /\ job' # Free /\ QueueShape' /\ ChainIsKept' /\ JobsHaveLeases'
      /\ Effective' = Effective /\ Wants' = Wants /\ IsIdle' = IsIdle /\ Covered' = Covered
      /\ Answers' = Answers /\ ComesBack' = ComesBack /\ (\A c : Home(c)' = Home(c))
      /\ (due \in {"lock", "recovering"} => listed \in LeaseRows)'
  BY <1>1, <1>2, OnlyJob
<1>4. JobIsWell'
  BY <1>2 DEF QueueInv, JobIsWell, Those
<1>5. RootsAreTheirs' /\ FaultsAreLeased'
  BY <1>2, <1>3 DEF QueueInv, RootsAreTheirs, FaultsAreLeased, EgressOf, Those
<1>6. RestoresRemove'
  BY <1>2, <1>3 DEF QueueInv, RestoresRemove, EgressOf, Those
<1>7. JobsArrive'
  BY <1>2, <1>3 DEF QueueInv, JobsArrive, Done, Mended, WholeOf, BareOf, FitsFor, WholeChain
<1>8. JobsComeBack'
  <2>1. Covered /\ ComesBack /\ ~ok => Home(chain)
    BY <1>2 DEF QueueInv, JobsComeBack
  <2>2. Covered /\ ComesBack /\ IsIdle => Kept(chain) /\ job.goals = <<>> /\ job.ok
    BY DEF QueueInv, JobsComeBack
  <2>3. Home(chain)' = Home(chain)
    BY <1>3
  <2>4. Kept(chain) => Kept(chain)'
    BY <1>3 DEF Kept, Mended, WholeOf, BareOf, FitsFor, WholeChain
  <2> QED  BY <1>2, <1>3, <2>1, <2>2, <2>3, <2>4 DEF JobsComeBack
<1>9. RestoresAreSafe'
  BY <1>2, <1>3 DEF QueueInv, RestoresAreSafe, EgressOf, Those, FitsFor, BareOf, WholeChain, Put
<1>10. RecoveryIsWhole'
  BY <1>2, <1>3 DEF QueueInv, RecoveryIsWhole, BareOf, WholeOf
<1> QED  BY <1>3, <1>4, <1>5, <1>6, <1>7, <1>8, <1>9, <1>10 DEF QueueInv

LEMMA GoalListsAre ==
    ASSUME NEW g \in GoalLists, g # <<>>
    PROVE  /\ Head(g) \in Aims /\ Tail(g) \in GoalLists
           /\ \A a : g = <<a>> => Head(g) = a /\ Tail(g) = <<>>
<1>1. CASE \E a \in Aims : g = <<a>>
  BY <1>1 DEF GoalLists
<1>2. CASE \E a, b \in Aims : g = <<a, b>>
  <2>1. PICK a \in Aims, b \in Aims : g = <<a, b>>
    BY <1>2
  <2>2. Head(g) = a /\ Tail(g) = <<b>> /\ \A x : g # <<x>>
    BY <2>1
  <2> QED  BY <2>2 DEF GoalLists
<1> QED  BY <1>1, <1>2 DEF GoalLists

\* The holder of the lock goes for its next goal.
LEMMA GoalsGo ==
    ASSUME QueueInv, JobOnly, UNCHANGED chain, job # Free, job.at = "next", job.ok, job.goals # <<>>,
           MayGo(Head(job.goals)),
           job' = [job EXCEPT !.at = "write", !.todo = Writes(Head(job.goals)), !.undo = <<>>,
                              !.goals = Tail(@), !.kind = IF @ = "tear" THEN "recover" ELSE @]
    PROVE  QueueInv'
<1>1. job \in Jobs /\ chain \in Chains
  BY DEF QueueInv, QueueShape
<1>2. PICK a \in Aims : a = Head(job.goals)
  BY <1>1, GoalListsAre DEF Jobs
<1>3. Tail(job.goals) \in GoalLists /\ \A x : job.goals = <<x>> => a = x /\ Tail(job.goals) = <<>>
  BY <1>1, <1>2, GoalListsAre DEF Jobs
<1>4. PICK V, c :
        /\ Leads(Writes(a), V, chain, c) /\ c \in Chains
        /\ \A w \in V : w.part = "eg" => w.to # "netem" /\ (a = Off => w.to = "none")
        /\ (\E w \in V : w.part = "eg") => chain.eg # "foreign" /\ (chain.eg = "netem" => job.kind \in Restorers)
        /\ chain.eg = "netem" /\ job.kind \in Restorers => \E w \in V : w.part = "eg"
        /\ (a = Off => Mended(chain)) /\ chain.eg # "foreign" => Done(c, a)
        /\ a \in Plans => WholeOf(c)
        /\ FitsFor(chain, a) => \A w \in V : Put(chain, w) = chain
  BY <1>1, <1>2, GoalsLead
<1>5. Writes(a) \in Seq(Commands) /\ Those(Writes(a)) = V /\ PathTo(Writes(a), chain, c)
  BY <1>4 DEF Leads
<1>6. <<>> \in Seq(Commands) /\ Those(<<>>) = {}
  BY ThoseOf
<1>7. /\ job' \in Jobs /\ job'.kind = (IF job.kind = "tear" THEN "recover" ELSE job.kind) /\ job'.at = "write"
      /\ job'.goals = Tail(job.goals) /\ job'.todo = Writes(a) /\ job'.undo = <<>> /\ job'.ok /\ job'.bad = job.bad
      /\ job'.new = job.new /\ job'.had = job.had
  BY <1>1, <1>2, <1>3, <1>5, <1>6 DEF Jobs
<1>8. /\ UNCHANGED <<link, carrier, lease, stress, test, mode, due, listed, alien, unrecorded>>
      /\ job' # Free /\ QueueShape' /\ ChainIsKept' /\ JobsHaveLeases'
      /\ Effective' = Effective /\ Wants' = Wants /\ IsIdle' = IsIdle /\ Covered' = Covered
      /\ Answers' = Answers /\ ComesBack' = ComesBack /\ (\A x : Home(x)' = Home(x))
      /\ (due \in {"lock", "recovering"} => listed \in LeaseRows)'
      /\ (job'.kind \in Restorers <=> job.kind \in Restorers)
  BY <1>1, <1>7, OnlyJob
<1>9. Those(job.todo)' = V /\ Those(job.undo)' = {} /\ EgressOf(job.undo)' = {}
      /\ EgressOf(job.todo)' = {w \in V : w.part = "eg"}
  <2>1. Those(job.todo)' = V /\ Those(job.undo)' = {}
    BY <1>5, <1>6, <1>7 DEF Those
  <2> QED  BY <2>1 DEF EgressOf, Those
<1>10. JobIsWell'
  <2>1. V \cap [part : {"eg"}, to : {"netem"}] = {}
    <3>1. \A w \in [part : {"eg"}, to : {"netem"}] : w.part = "eg" /\ w.to = "netem"
      OBVIOUS
    <3> QED  BY <1>4, <3>1
  <2>2. ~job.bad
    BY DEF QueueInv, JobIsWell
  <2> QED  BY <1>7, <1>9, <2>1, <2>2 DEF JobIsWell
<1>11. RootsAreTheirs' /\ FaultsAreLeased'
  <2>1. (EgressOf(job.todo)' # {} => chain.eg # "foreign" /\ (chain.eg = "netem" => job.kind \in Restorers))
    BY <1>4, <1>9
  <2> QED  BY <1>7, <1>8, <1>9, <2>1 DEF QueueInv, RootsAreTheirs, FaultsAreLeased
<1>12. RestoresRemove'
  <2> SUFFICES ASSUME job'.kind \in Restorers
               PROVE  /\ job'.had # "none" => stress' = job'.had /\ test' # "inject"
                      /\ job'.goals \in {<<>>} \cup {<<x>> : x \in Aims}
                      /\ carrier'
                      /\ job'.goals = <<>> /\ (chain'.eg = "netem" => EgressOf(job.todo)' # {})
    BY <1>7 DEF RestoresRemove
  <2>1. job.kind \in Restorers
    BY <1>8
  <2>2. /\ job.had # "none" => stress = job.had /\ test # "inject"
        /\ job.goals \in {<<x>> : x \in Aims} /\ carrier
    BY <2>1 DEF QueueInv, RestoresRemove
  <2>3. job'.goals = <<>>
    BY <1>3, <1>7, <2>2
  <2>4. chain.eg = "netem" => EgressOf(job.todo)' # {}
    BY <1>4, <1>9, <2>1
  <2> QED  BY <1>7, <1>8, <2>2, <2>3, <2>4
<1>13. Covered /\ Answers => job.goals = <<Wants>> /\ a = Wants /\ Tail(job.goals) = <<>> /\ Done(c, Wants)
  <2> SUFFICES ASSUME Covered, Answers PROVE job.goals = <<Wants>> /\ a = Wants /\ Tail(job.goals) = <<>> /\ Done(c, Wants)
    OBVIOUS
  <2>1. job.goals = <<Wants>> /\ (Wants = Off => Mended(chain))
    BY DEF QueueInv, JobsArrive
  <2>2. chain.eg # "foreign"
    BY DEF QueueInv, RootsAreTheirs, Covered
  <2> QED  BY <1>3, <1>4, <2>1, <2>2
<1>14. JobsArrive'
  <2>1. Covered /\ Answers => PathTo(job.todo, chain, c)'
    BY <1>5, <1>7 DEF PathTo
  <2>2. Done(c, Wants) => Done(c, Wants')
    BY <1>8
  <2>3. Covered' /\ Answers' => job'.goals = <<>> /\ \E x \in Chains : PathTo(job.todo, chain, x)' /\ Done(x, Wants')
    BY <1>4, <1>7, <1>8, <1>13, <2>1, <2>2
  <2>4. (\E x \in Chains : PathTo(job.todo, chain, x)' /\ Done(x, Wants'))
        => (\E x \in Chains : PathTo(job.todo, chain, x) /\ Done(x, Wants))'
    BY DEF Done, Mended, WholeOf, BareOf, FitsFor, WholeChain
  <2> QED  BY <1>7, <2>3, <2>4 DEF JobsArrive
<1>15. JobsComeBack'
  <2>1. Covered /\ ComesBack => Home(chain) /\ ~IsIdle
    BY DEF QueueInv, JobsComeBack
  <2>2. PathTo(<<>>, chain, chain)
    BY <1>1, PathEnds
  <2>3. Covered' /\ ComesBack' => \E x \in Chains : PathTo(job.undo, chain, x)' /\ Home(x)'
    BY <1>1, <1>7, <1>8, <2>1, <2>2 DEF PathTo
  <2> QED  BY <1>7, <1>8, <2>1, <2>3 DEF JobsComeBack
<1>16. RestoresAreSafe'
  <2> SUFFICES ASSUME Covered, job.kind \in Restorers, lease = NoLease
               PROVE  /\ due = "nothing" /\ stress = "none" =>
                           FitsFor(chain, Effective) /\ \A w \in V : Put(chain, w) = chain
                      /\ (due = "nothing" \/ ~link.exists) /\ Effective = Off =>
                           chain.eg \in {"none", "netem"} /\ \A w \in V : w.part = "eg" => w.to = "none"
    BY <1>8, <1>9 DEF RestoresAreSafe, FitsFor, BareOf, WholeChain, Put
  <2>1. Answers /\ Wants = Effective
    BY DEF Answers, IsIdle, Wants, Unleased, Restorers
  <2>2. a = Effective
    BY <1>13, <2>1
  <2> QED  BY <1>4, <2>2 DEF QueueInv, RestoresAreSafe
<1>17. RecoveryIsWhole'
  <2> SUFFICES ASSUME Covered, job'.kind \in {"tear", "recover"}
               PROVE  /\ job'.kind = "recover" /\ link'.exists /\ job'.goals = <<>>
                      /\ PathTo(job.todo, chain, c)' /\ WholeOf(c)
    BY <1>4, <1>7, <1>8 DEF RecoveryIsWhole, WholeOf
  <2>1. job.kind \in {"tear", "recover"}
    BY <1>7
  <2>2. job.kind = "tear" /\ link.exists /\ \E x \in Plans : job.goals = <<x>>
    BY <2>1 DEF QueueInv, RecoveryIsWhole
  <2>3. a \in Plans /\ Tail(job.goals) = <<>>
    BY <1>3, <2>2
  <2> QED  BY <1>4, <1>5, <1>7, <1>8, <2>2, <2>3 DEF PathTo
<1> QED  BY <1>8, <1>10, <1>11, <1>12, <1>14, <1>15, <1>16, <1>17 DEF QueueInv

LEMMA GoalsKeep ==
    ASSUME QueueInv, NextGoal
    PROVE  QueueInv'
<1>1. job # Free /\ job.at = "next" /\ UNCHANGED chain /\ JobOnly /\ job \in Jobs
  BY DEF NextGoal, QueueInv, QueueShape
<1>2. CASE (~job.ok \/ job.goals = <<>>) /\ job' = [job EXCEPT !.at = "end"]
  <2>1. job' = [job EXCEPT !.at = "end", !.ok = job.ok] /\ job.ok \in BOOLEAN
    BY <1>1, <1>2 DEF Jobs
  <2> QED  BY <1>1, <1>2, <2>1, GoalsEnd
<1>3. CASE job.ok /\ job.goals # <<>> /\ job' = [job EXCEPT !.at = "end", !.ok = FALSE]
  BY <1>1, <1>3, GoalsEnd
<1>4. CASE /\ job.ok /\ job.goals # <<>> /\ MayGo(Head(job.goals))
           /\ job' = [job EXCEPT !.at = "write", !.todo = Writes(Head(job.goals)), !.undo = <<>>,
                                 !.goals = Tail(@), !.kind = IF @ = "tear" THEN "recover" ELSE @]
  BY <1>1, <1>4, GoalsGo
<1> QED  BY <1>2, <1>3, <1>4 DEF NextGoal

\* A command of the list, and what is left of it.
LEMMA ListsAre ==
    ASSUME NEW s \in Seq(Commands)
    PROVE  /\ s = <<>> => Those(s) = {}
           /\ s # <<>> => /\ Head(s) \in Those(s) /\ Head(s) \in Commands /\ Tail(s) \in Seq(Commands)
                          /\ Those(Tail(s)) \subseteq Those(s) /\ Those(s) = {Head(s)} \cup Those(Tail(s))
  BY ThoseOf

LEMMA ListsJoin ==
    ASSUME NEW s \in Seq(Commands), NEW t \in Seq(Commands)
    PROVE  s \o t \in Seq(Commands) /\ Those(s \o t) = Those(s) \cup Those(t)
  BY ThoseOf

\* The list is through.
LEMMA WritesEnd ==
    ASSUME QueueInv, JobOnly, UNCHANGED chain, job # Free, job.at = "write", job.todo = <<>>,
           job' = [job EXCEPT !.at = "next"]
    PROVE  QueueInv'
<1>1. job \in Jobs /\ chain \in Chains /\ Those(job.todo) = {} /\ EgressOf(job.todo) = {}
  BY ThoseOf DEF QueueInv, QueueShape, EgressOf
<1>2. /\ job' \in Jobs /\ job'.kind = job.kind /\ job'.at = "next" /\ job'.ok = job.ok /\ job'.bad = job.bad
      /\ job'.goals = job.goals /\ job'.todo = job.todo /\ job'.undo = job.undo /\ job'.new = job.new
      /\ job'.had = job.had
  BY <1>1 DEF Jobs
<1>3. /\ UNCHANGED <<link, carrier, lease, stress, test, mode, due, listed, alien, unrecorded>>
      /\ job' # Free /\ QueueShape' /\ ChainIsKept' /\ JobsHaveLeases'
      /\ Effective' = Effective /\ Wants' = Wants /\ IsIdle' = IsIdle /\ Covered' = Covered
      /\ Answers' = Answers /\ ComesBack' = ComesBack /\ (\A c : Home(c)' = Home(c))
      /\ (due \in {"lock", "recovering"} => listed \in LeaseRows)'
  BY <1>1, <1>2, OnlyJob
<1>4. JobIsWell'
  <2>1. Those(job.todo)' = Those(job.todo) /\ Those(job.undo)' = Those(job.undo)
    BY <1>2 DEF Those
  <2> QED  BY <1>2, <2>1 DEF QueueInv, JobIsWell
<1>5. RootsAreTheirs' /\ FaultsAreLeased'
  BY <1>2, <1>3 DEF QueueInv, RootsAreTheirs, FaultsAreLeased, EgressOf, Those
<1>6. RestoresRemove'
  BY <1>1, <1>2, <1>3 DEF QueueInv, RestoresRemove
<1>7. \A c \in Chains : PathTo(job.todo, chain, c) => c = chain
  BY <1>1, PathEnds
<1>8. Covered /\ Answers /\ job.ok => job.goals = <<>> /\ Done(chain, Wants)
  BY <1>7 DEF QueueInv, JobsArrive
<1>9. JobsArrive'
  BY <1>2, <1>3, <1>8 DEF JobsArrive, Done, Mended, WholeOf, BareOf, FitsFor, WholeChain
<1>10. JobsComeBack'
  <2> SUFFICES ASSUME Covered, ComesBack PROVE ~IsIdle /\ job.goals = <<>> /\ job.ok
    BY <1>2, <1>3 DEF JobsComeBack
  <2>1. ~IsIdle
    BY DEF QueueInv, JobsComeBack
  <2>2. job.kind # "tear"
    BY DEF ComesBack, Unleased, Restorers
  <2>3. job.ok
    BY <2>2 DEF QueueInv, JobIsWell
  <2>4. Answers
    BY <2>1 DEF ComesBack, Answers
  <2> QED  BY <1>8, <2>1, <2>3, <2>4
<1>11. RestoresAreSafe'
  BY <1>2, <1>3 DEF QueueInv, RestoresAreSafe, EgressOf, Those, FitsFor, BareOf, WholeChain, Put
<1>12. RecoveryIsWhole'
  <2> SUFFICES ASSUME Covered, job.ok, job.kind \in {"tear", "recover"}
               PROVE  /\ job.kind = "tear" => BareOf(chain)
                      /\ job.kind = "tear" /\ job.goals # <<>> => link.exists /\ \E a \in Plans : job.goals = <<a>>
                      /\ job.kind = "recover" => link.exists /\ job.goals = <<>> /\ WholeOf(chain)
    BY <1>2, <1>3 DEF RecoveryIsWhole, WholeOf, BareOf
  <2> QED  BY <1>7 DEF QueueInv, RecoveryIsWhole
<1> QED  BY <1>3, <1>4, <1>5, <1>6, <1>9, <1>10, <1>11, <1>12 DEF QueueInv

\* A command could not be run.
LEMMA WritesStop ==
    ASSUME QueueInv, JobOnly, UNCHANGED chain, job # Free, job.at = "write",
           job' = [job EXCEPT !.at = "undo", !.ok = FALSE]
    PROVE  QueueInv'
<1>1. job \in Jobs /\ chain \in Chains
  BY DEF QueueInv, QueueShape
<1>2. /\ job' \in Jobs /\ job'.kind = job.kind /\ job'.at = "undo" /\ job'.ok = FALSE /\ job'.bad = job.bad
      /\ job'.goals = job.goals /\ job'.todo = job.todo /\ job'.undo = job.undo /\ job'.new = job.new
      /\ job'.had = job.had
  BY <1>1 DEF Jobs
<1>3. /\ UNCHANGED <<link, carrier, lease, stress, test, mode, due, listed, alien, unrecorded>>
      /\ job' # Free /\ QueueShape' /\ ChainIsKept' /\ JobsHaveLeases'
      /\ Effective' = Effective /\ Wants' = Wants /\ IsIdle' = IsIdle /\ Covered' = Covered
      /\ Answers' = Answers /\ ComesBack' = ComesBack /\ (\A c : Home(c)' = Home(c))
      /\ (due \in {"lock", "recovering"} => listed \in LeaseRows)'
  BY <1>1, <1>2, OnlyJob
<1>4. JobIsWell'
  BY <1>2 DEF QueueInv, JobIsWell, Those
<1>5. RootsAreTheirs' /\ FaultsAreLeased'
  BY <1>2, <1>3 DEF QueueInv, RootsAreTheirs, FaultsAreLeased, EgressOf, Those
<1>6. RestoresRemove' /\ JobsArrive' /\ RecoveryIsWhole'
  BY <1>2, <1>3 DEF QueueInv, RestoresRemove, JobsArrive, RecoveryIsWhole
<1>7. JobsComeBack'
  <2>1. Covered /\ ComesBack => ~IsIdle
    BY DEF QueueInv, JobsComeBack
  <2>2. Covered /\ ComesBack /\ ~job.bad => \E c \in Chains : PathTo(job.undo, chain, c) /\ Home(c)
    BY DEF QueueInv, JobsComeBack
  <2>3. Covered' /\ ComesBack' /\ ~job'.bad => \E c \in Chains : PathTo(job.undo, chain, c)' /\ Home(c)'
    BY <1>2, <1>3, <2>2 DEF PathTo
  <2> QED  BY <1>2, <1>3, <2>1, <2>3 DEF JobsComeBack
<1>8. RestoresAreSafe'
  BY <1>2, <1>3 DEF QueueInv, RestoresAreSafe, EgressOf, Those, FitsFor, BareOf, WholeChain, Put
<1> QED  BY <1>3, <1>4, <1>5, <1>6, <1>7, <1>8 DEF QueueInv

\* The roots the command at the head of a list may touch, and what it makes of the chain.
LEMMA CommandsTouch ==
    ASSUME QueueInv, job # Free, NEW w \in Commands, chain' = Put(chain, w),
           w.part = "eg" => chain.eg # "foreign"
    PROVE  /\ chain' \in Chains /\ (w.part = "eg" => chain'.eg = w.to /\ w.to # "foreign")
           /\ w.part # "eg" => chain'.eg = chain.eg
           /\ (chain'.eg = "foreign") = (chain.eg = "foreign")
<1>1. chain \in Chains
  BY DEF QueueInv, QueueShape
<1>2. CASE w.part = "eg"
  <2>1. chain' = [chain EXCEPT !.eg = w.to] /\ chain' \in Chains /\ w.to \in Plans \cup {"none", "netem"}
    BY <1>1, <1>2, PutIs
  <2>2. chain'.eg = w.to
    BY <1>1, <2>1 DEF Chains
  <2> QED  BY <1>2, <2>1, <2>2, NamesDiffer
<1>3. CASE w.part # "eg"
  <2>1. w.part \in {"ifb", "ing", "red"} /\ chain' \in Chains
    BY <1>1, <1>3, PutIs DEF Commands
  <2>2. chain'.eg = chain.eg
    BY <1>1, <2>1 DEF Put, Chains
  <2> QED  BY <1>3, <2>1, <2>2
<1> QED  BY <1>2, <1>3

\* A command was run; when its stage could not be recorded it is undone.
LEMMA WritesGo ==
    ASSUME QueueInv, JobOnly, job # Free, job.at = "write", job.todo # <<>>,
           NEW w, w = Head(job.todo), chain' = [chain EXCEPT ![w.part] = w.to],
           \/ job' = [job EXCEPT !.todo = Tail(@), !.undo = Remember(w)]
           \/ /\ job.kind \in {"update", "current"}
              /\ job' = [job EXCEPT !.at = "undo", !.ok = FALSE, !.undo = Remember(w)]
    PROVE  QueueInv'
<1>1. job \in Jobs /\ chain \in Chains /\ job.todo \in Seq(Commands) /\ job.undo \in Seq(Commands)
  BY DEF QueueInv, QueueShape, Jobs
<1>2. /\ w \in Those(job.todo) /\ w \in Commands /\ Tail(job.todo) \in Seq(Commands)
      /\ Those(Tail(job.todo)) \subseteq Those(job.todo) /\ Those(job.todo) = {w} \cup Those(Tail(job.todo))
  BY <1>1, ListsAre
<1>3. w.part = "eg" => w \in EgressOf(job.todo) /\ w.to # "netem" /\ chain.eg # "foreign"
  <2>1. w.part = "eg" => w \in EgressOf(job.todo)
    BY <1>2 DEF EgressOf
  <2>2. w.part = "eg" => chain.eg # "foreign"
    BY <2>1 DEF QueueInv, RootsAreTheirs
  <2>3. w.part = "eg" /\ w.to = "netem" => w \in [part : {"eg"}, to : {"netem"}]
    BY <1>2 DEF Commands
  <2>4. w \notin [part : {"eg"}, to : {"netem"}]
    BY <1>2 DEF QueueInv, JobIsWell
  <2> QED  BY <2>1, <2>2, <2>3, <2>4
<1>4. chain' = Put(chain, w)
  BY DEF Put
<1>5. /\ chain' \in Chains /\ (w.part = "eg" => chain'.eg = w.to /\ w.to # "foreign")
      /\ w.part # "eg" => chain'.eg = chain.eg
      /\ (chain'.eg = "foreign") = (chain.eg = "foreign")
      /\ (chain'.eg = "netem" => chain.eg = "netem" /\ w.part # "eg")
  BY <1>2, <1>3, <1>4, CommandsTouch
<1>6. PICK u \in Commands : /\ Set(w.part, chain[w.part]) = <<u>>
                            /\ Put(Put(chain, w), u) = chain /\ Put(chain, u) = chain
                            /\ u.part = w.part /\ (w.part = "eg" => u.to = chain.eg)
  BY <1>1, <1>2, <1>3, UndosAre
<1>7. PICK un : un = Remember(w)
  OBVIOUS
<1>8. /\ un \in Seq(Commands) /\ Those(un) \subseteq {u} \cup Those(job.undo)
      /\ job.kind = "tear" => Those(un) = {}
      /\ job.kind # "tear" => un = <<u>> \o job.undo
  <2>1. CASE job.kind = "tear"
    <3>1. un = <<>>
      BY <1>7, <2>1 DEF Remember
    <3> QED  BY <2>1, <3>1, ThoseOf
  <2>2. CASE job.kind # "tear"
    <3>1. un = <<u>> \o job.undo
      BY <1>6, <1>7, <2>2 DEF Remember
    <3>2. <<u>> \in Seq(Commands) /\ Those(<<u>>) = {u}
      BY ThoseOf
    <3>3. <<u>> \o job.undo \in Seq(Commands) /\ Those(<<u>> \o job.undo) = {u} \cup Those(job.undo)
      BY <1>1, <3>2, ListsJoin
    <3> QED  BY <2>2, <3>1, <3>3
  <2> QED  BY <2>1, <2>2
<1>9. PICK td : td = IF job'.at = "write" THEN Tail(job.todo) ELSE job.todo
  OBVIOUS
<1>10. /\ job' \in Jobs /\ job'.kind = job.kind /\ job'.bad = job.bad /\ job'.goals = job.goals
       /\ job'.undo = un /\ job'.new = job.new /\ job'.had = job.had /\ job'.todo = td
       /\ td \in Seq(Commands) /\ Those(td) \subseteq Those(job.todo)
       /\ \/ job'.at = "write" /\ job'.ok = job.ok /\ td = Tail(job.todo)
          \/ job'.at = "undo" /\ job'.ok = FALSE /\ job.kind \in {"update", "current"}
  <2>1. CASE job' = [job EXCEPT !.todo = Tail(@), !.undo = Remember(w)]
    <3>1. job' = [job EXCEPT !.todo = Tail(job.todo), !.undo = un]
      BY <1>7, <2>1
    <3>2. job'.at = "write"
      BY <1>1, <3>1 DEF Jobs
    <3> QED  BY <1>1, <1>2, <1>8, <1>9, <3>1, <3>2 DEF Jobs
  <2>2. CASE /\ job.kind \in {"update", "current"}
             /\ job' = [job EXCEPT !.at = "undo", !.ok = FALSE, !.undo = Remember(w)]
    <3>1. job' = [job EXCEPT !.at = "undo", !.ok = FALSE, !.undo = un]
      BY <1>7, <2>2
    <3>2. job'.at = "undo"
      BY <1>1, <3>1 DEF Jobs
    <3> QED  BY <1>1, <1>8, <1>9, <2>2, <3>1, <3>2 DEF Jobs
  <2> QED  BY <2>1, <2>2
<1>11. /\ UNCHANGED <<link, carrier, lease, stress, test, mode, due, listed, alien, unrecorded>>
       /\ job' # Free /\ QueueShape' /\ ChainIsKept' /\ JobsHaveLeases'
       /\ Effective' = Effective /\ Wants' = Wants /\ IsIdle' = IsIdle /\ Covered' = Covered
       /\ Answers' = Answers /\ ComesBack' = ComesBack /\ (\A c : Home(c)' = Home(c))
       /\ (due \in {"lock", "recovering"} => listed \in LeaseRows)'
  BY <1>1, <1>5, <1>10, OnlyJob
<1>12. Those(job.todo)' = Those(td) /\ Those(job.undo)' = Those(un)
  BY <1>10 DEF Those
<1>13. /\ EgressOf(job.todo)' \subseteq EgressOf(job.todo)
       /\ \A x \in EgressOf(job.undo)' : x \in EgressOf(job.undo) \/ (x = u /\ w.part = "eg")
       /\ (w.part # "eg" => EgressOf(job.todo)' = EgressOf(job.todo))
  <2>1. EgressOf(job.todo)' = {x \in Those(td) : x.part = "eg"} /\ EgressOf(job.undo)' = {x \in Those(un) : x.part = "eg"}
    BY <1>12 DEF EgressOf, Those
  <2>2. Those(td) = Those(job.todo) \/ Those(job.todo) = {w} \cup Those(td)
    BY <1>2, <1>9
  <2> QED  BY <1>6, <1>8, <1>10, <2>1, <2>2 DEF EgressOf
<1>14. JobIsWell'
  <2>1. job.ok \/ job.kind = "tear"
    BY DEF QueueInv, JobIsWell
  <2>2. (job.ok => ~job.bad) /\ Those(job.todo) \cap [part : {"eg"}, to : {"netem"}] = {}
    BY DEF QueueInv, JobIsWell
  <2> QED  BY <1>8, <1>10, <1>12, <2>1, <2>2 DEF JobIsWell
<1>15. RootsAreTheirs' /\ FaultsAreLeased'
  <2>1. /\ alien = (chain.eg = "foreign")
        /\ alien => EgressOf(job.todo) = {} /\ EgressOf(job.undo) = {}
        /\ chain.eg = "netem" /\ EgressOf(job.todo) # {} => job.kind \in Restorers
        /\ \A x \in EgressOf(job.undo) : x.to = "netem" => job.kind \in Restorers /\ stress = "degrade"
        /\ (chain.eg = "netem" => stress = "degrade")
    BY DEF QueueInv, RootsAreTheirs, FaultsAreLeased
  <2>2. alien => EgressOf(job.todo)' = {} /\ EgressOf(job.undo)' = {}
    BY <1>3, <1>13, <2>1
  <2>3. ASSUME NEW x \in EgressOf(job.undo)', x.to = "netem" PROVE job.kind \in Restorers /\ stress = "degrade"
    BY <1>3, <1>6, <1>13, <2>1, <2>3
  <2>4. FaultsAreLeased'
    BY <1>5, <1>11, <2>1 DEF QueueInv, FaultsAreLeased
  <2> QED  BY <1>5, <1>10, <1>11, <1>13, <2>1, <2>2, <2>3, <2>4 DEF RootsAreTheirs
<1>16. RestoresRemove'
  <2>1. "update" \notin Restorers /\ "current" \notin Restorers
    BY DEF Restorers
  <2> QED  BY <1>5, <1>10, <1>11, <1>13, <2>1 DEF QueueInv, RestoresRemove
<1>17. ASSUME NEW c \in Chains, PathTo(job.todo, chain, c), job'.at = "write" PROVE PathTo(job.todo, chain, c)'
  <2>1. PathTo(Tail(job.todo), Put(chain, w), c)
    BY <1>1, <1>17, PathSteps
  <2> QED  BY <1>4, <1>10, <1>17, <2>1 DEF PathTo
<1>18. ASSUME NEW c \in Chains, PathTo(job.undo, chain, c), job.kind # "tear" PROVE PathTo(job.undo, chain, c)'
  <2>1. PathTo(job.undo, Put(chain', u), c)
    BY <1>4, <1>6, <1>18
  <2>2. PathTo(<<u>> \o job.undo, chain', c)
    BY <1>1, <1>5, <1>6, <2>1, PathGrows
  <2> QED  BY <1>8, <1>10, <1>18, <2>2 DEF PathTo
<1>19. JobsArrive'
  <2> SUFFICES ASSUME Covered, Answers, job'.ok
               PROVE  job.goals = <<>> /\ \E c \in Chains : PathTo(job.todo, chain, c)' /\ Done(c, Wants)
    BY <1>10, <1>11 DEF JobsArrive, Done, Mended, WholeOf, BareOf, FitsFor, WholeChain
  <2> QED  BY <1>10, <1>17 DEF QueueInv, JobsArrive
<1>20. JobsComeBack'
  <2>1. Covered /\ ComesBack => ~IsIdle /\ job.kind # "tear"
    BY DEF QueueInv, JobsComeBack, ComesBack, Unleased, Restorers
  <2>2. Covered /\ ComesBack /\ ~job.bad => \E c \in Chains : PathTo(job.undo, chain, c) /\ Home(c)
    BY DEF QueueInv, JobsComeBack
  <2>3. Covered' /\ ComesBack' /\ ~job'.bad => \E c \in Chains : PathTo(job.undo, chain, c)' /\ Home(c)'
    BY <1>10, <1>11, <1>18, <2>1, <2>2
  <2> QED  BY <1>10, <1>11, <2>1, <2>3 DEF JobsComeBack
<1>21. RestoresAreSafe'
  <2> SUFFICES ASSUME Covered, job.kind \in Restorers, lease = NoLease
               PROVE  /\ due = "nothing" /\ stress = "none" =>
                           FitsFor(chain', Effective) /\ \A x \in Those(td) \cup Those(un) : Put(chain', x) = chain'
                      /\ (due = "nothing" \/ ~link.exists) /\ Effective = Off =>
                           /\ chain'.eg \in {"none", "netem"}
                           /\ \A x \in EgressOf(job.todo)' \cup EgressOf(job.undo)' : x.to \in {"none", "netem"}
    BY <1>10, <1>11, <1>12 DEF RestoresAreSafe, FitsFor, BareOf, WholeChain, Put
  <2>1. ASSUME due = "nothing", stress = "none"
        PROVE  FitsFor(chain', Effective) /\ \A x \in Those(td) \cup Those(un) : Put(chain', x) = chain'
    <3>1. FitsFor(chain, Effective) /\ \A x \in Those(job.todo) \cup Those(job.undo) : Put(chain, x) = chain
      BY <2>1 DEF QueueInv, RestoresAreSafe
    <3>2. chain' = chain
      BY <1>2, <1>4, <3>1
    <3> QED  BY <1>6, <1>8, <1>10, <3>1, <3>2
  <2>2. ASSUME due = "nothing" \/ ~link.exists, Effective = Off
        PROVE  /\ chain'.eg \in {"none", "netem"}
               /\ \A x \in EgressOf(job.todo)' \cup EgressOf(job.undo)' : x.to \in {"none", "netem"}
    <3>1. /\ chain.eg \in {"none", "netem"}
          /\ \A x \in EgressOf(job.todo) \cup EgressOf(job.undo) : x.to \in {"none", "netem"}
      BY <2>2 DEF QueueInv, RestoresAreSafe
    <3>2. chain'.eg \in {"none", "netem"}
      BY <1>3, <1>5, <3>1
    <3> QED  BY <1>6, <1>13, <3>1, <3>2
  <2> QED  BY <2>1, <2>2
<1>22. RecoveryIsWhole'
  <2>1. job.kind \in {"tear", "recover"} => job'.at = "write" /\ job'.ok = job.ok
    BY <1>10
  <2> SUFFICES ASSUME Covered, job.ok, job.kind \in {"tear", "recover"}
               PROVE  /\ job.kind = "tear" => \E c \in Chains : PathTo(job.todo, chain, c)' /\ BareOf(c)
                      /\ job.kind = "tear" /\ job.goals # <<>> => link.exists /\ \E a \in Plans : job.goals = <<a>>
                      /\ job.kind = "recover" => link.exists /\ job.goals = <<>>
                                                 /\ \E c \in Chains : PathTo(job.todo, chain, c)' /\ WholeOf(c)
    BY <1>10, <1>11, <2>1 DEF RecoveryIsWhole, WholeOf, BareOf
  <2> QED  BY <1>17, <2>1 DEF QueueInv, RecoveryIsWhole
<1> QED  BY <1>11, <1>14, <1>15, <1>16, <1>19, <1>20, <1>21, <1>22 DEF QueueInv

LEMMA CommandsKeep ==
    ASSUME QueueInv, RunCommand
    PROVE  QueueInv'
<1>1. job # Free /\ job.at = "write" /\ JobOnly
  BY DEF RunCommand
<1>2. CASE job.todo = <<>> /\ job' = [job EXCEPT !.at = "next"] /\ UNCHANGED chain
  BY <1>1, <1>2, WritesEnd
<1>3. CASE job.todo # <<>> /\ UNCHANGED chain /\ job' = [job EXCEPT !.at = "undo", !.ok = FALSE]
  BY <1>1, <1>3, WritesStop
<1>4. CASE /\ job.todo # <<>>
           /\ chain' = [chain EXCEPT ![Head(job.todo).part] = Head(job.todo).to]
           /\ \/ job' = [job EXCEPT !.todo = Tail(@), !.undo = Remember(Head(job.todo))]
              \/ /\ job.kind \in {"update", "current"}
                 /\ job' = [job EXCEPT !.at = "undo", !.ok = FALSE, !.undo = Remember(Head(job.todo))]
  BY <1>1, <1>4, WritesGo
<1> QED  BY <1>2, <1>3, <1>4 DEF RunCommand

\* There is nothing left to undo.
LEMMA UndosEnd ==
    ASSUME QueueInv, JobOnly, UNCHANGED chain, job # Free, job.at = "undo", job.undo = <<>>,
           job' = [job EXCEPT !.at = "end"]
    PROVE  QueueInv'
<1>1. job \in Jobs /\ chain \in Chains /\ ~job.ok
  BY DEF QueueInv, QueueShape, JobIsWell
<1>2. /\ job' \in Jobs /\ job'.kind = job.kind /\ job'.at = "end" /\ job'.ok = job.ok /\ job'.bad = job.bad
      /\ job'.goals = job.goals /\ job'.todo = job.todo /\ job'.undo = job.undo /\ job'.new = job.new
      /\ job'.had = job.had
  BY <1>1 DEF Jobs
<1>3. /\ UNCHANGED <<link, carrier, lease, stress, test, mode, due, listed, alien, unrecorded>>
      /\ job' # Free /\ QueueShape' /\ ChainIsKept' /\ JobsHaveLeases'
      /\ Effective' = Effective /\ Wants' = Wants /\ IsIdle' = IsIdle /\ Covered' = Covered
      /\ Answers' = Answers /\ ComesBack' = ComesBack /\ (\A c : Home(c)' = Home(c))
      /\ (due \in {"lock", "recovering"} => listed \in LeaseRows)'
  BY <1>1, <1>2, OnlyJob
<1>4. Those(job.todo)' = Those(job.todo) /\ Those(job.undo)' = Those(job.undo)
  BY <1>2 DEF Those
<1>5. JobIsWell'
  BY <1>1, <1>2, <1>4 DEF QueueInv, JobIsWell
<1>6. RootsAreTheirs' /\ FaultsAreLeased'
  BY <1>2, <1>3 DEF QueueInv, RootsAreTheirs, FaultsAreLeased, EgressOf, Those
<1>7. RestoresRemove' /\ JobsArrive' /\ RecoveryIsWhole'
  BY <1>1, <1>2, <1>3 DEF QueueInv, RestoresRemove, JobsArrive, RecoveryIsWhole
<1>8. JobsComeBack'
  <2>1. Covered /\ ComesBack => ~IsIdle
    BY DEF QueueInv, JobsComeBack
  <2>2. \A c \in Chains : PathTo(job.undo, chain, c) => c = chain
    BY <1>1, PathEnds
  <2>3. Covered /\ ComesBack /\ ~job.bad => Home(chain)
    BY <2>2 DEF QueueInv, JobsComeBack
  <2>4. Home(chain)' = Home(chain)
    BY <1>3
  <2> QED  BY <1>2, <1>3, <2>1, <2>3, <2>4 DEF JobsComeBack
<1>9. RestoresAreSafe'
  <2>1. EgressOf(job.todo)' = EgressOf(job.todo) /\ EgressOf(job.undo)' = EgressOf(job.undo)
    BY <1>2 DEF EgressOf, Those
  <2>2. FitsFor(chain, Effective) => FitsFor(chain, Effective)'
    BY <1>3 DEF FitsFor, BareOf, WholeChain
  <2>3. \A w : Put(chain, w)' = Put(chain, w)
    BY DEF Put
  <2> QED  BY <1>2, <1>3, <1>4, <2>1, <2>2, <2>3 DEF QueueInv, RestoresAreSafe
<1> QED  BY <1>3, <1>5, <1>6, <1>7, <1>8, <1>9 DEF QueueInv

\* One undo was run, or given up.
LEMMA UndosGo ==
    ASSUME QueueInv, JobOnly, job # Free, job.at = "undo", job.undo # <<>>, NEW w, w = Head(job.undo),
           \/ chain' = [chain EXCEPT ![w.part] = w.to] /\ job' = [job EXCEPT !.undo = Tail(@)]
           \/ UNCHANGED chain /\ job' = [job EXCEPT !.undo = Tail(@), !.bad = TRUE]
    PROVE  QueueInv'
<1>1. job \in Jobs /\ chain \in Chains /\ job.undo \in Seq(Commands) /\ ~job.ok
  BY DEF QueueInv, QueueShape, Jobs, JobIsWell
<1>2. /\ w \in Those(job.undo) /\ w \in Commands /\ Tail(job.undo) \in Seq(Commands)
      /\ Those(Tail(job.undo)) \subseteq Those(job.undo)
  BY <1>1, ListsAre
<1>3. w.part = "eg" => w \in EgressOf(job.undo) /\ chain.eg # "foreign"
  <2>1. w.part = "eg" => w \in EgressOf(job.undo)
    BY <1>2 DEF EgressOf
  <2> QED  BY <2>1 DEF QueueInv, RootsAreTheirs
<1>4. chain' = Put(chain, w) \/ (UNCHANGED chain /\ job'.bad)
  BY <1>1 DEF Put, Jobs
<1>5. /\ chain' \in Chains
      /\ (chain'.eg = "foreign") = (chain.eg = "foreign")
      /\ chain'.eg = chain.eg \/ (w.part = "eg" /\ chain'.eg = w.to)
  <2>1. CASE chain' = Put(chain, w)
    BY <1>2, <1>3, <2>1, CommandsTouch
  <2>2. CASE UNCHANGED chain
    BY <1>1, <2>2
  <2> QED  BY <1>4, <2>1, <2>2
<1>6. /\ job' \in Jobs /\ job'.kind = job.kind /\ job'.at = "undo" /\ job'.ok = FALSE
      /\ job'.goals = job.goals /\ job'.todo = job.todo /\ job'.undo = Tail(job.undo) /\ job'.new = job.new
      /\ job'.had = job.had /\ (job.bad => job'.bad)
  BY <1>1, <1>2 DEF Jobs
<1>7. /\ UNCHANGED <<link, carrier, lease, stress, test, mode, due, listed, alien, unrecorded>>
      /\ job' # Free /\ QueueShape' /\ ChainIsKept' /\ JobsHaveLeases'
      /\ Effective' = Effective /\ Wants' = Wants /\ IsIdle' = IsIdle /\ Covered' = Covered
      /\ Answers' = Answers /\ ComesBack' = ComesBack /\ (\A c : Home(c)' = Home(c))
      /\ (due \in {"lock", "recovering"} => listed \in LeaseRows)'
  BY <1>1, <1>5, <1>6, OnlyJob
<1>8. Those(job.todo)' = Those(job.todo) /\ Those(job.undo)' \subseteq Those(job.undo)
      /\ EgressOf(job.todo)' = EgressOf(job.todo) /\ EgressOf(job.undo)' \subseteq EgressOf(job.undo)
  <2>1. Those(job.todo)' = Those(job.todo) /\ Those(job.undo)' \subseteq Those(job.undo)
    BY <1>2, <1>6 DEF Those
  <2>2. EgressOf(job.todo)' = {x \in Those(job.todo)' : x.part = "eg"} /\ EgressOf(job.undo)' = {x \in Those(job.undo)' : x.part = "eg"}
    BY DEF EgressOf, Those
  <2> QED  BY <2>1, <2>2 DEF EgressOf
<1>9. JobIsWell'
  BY <1>6, <1>8 DEF QueueInv, JobIsWell
<1>10. RootsAreTheirs' /\ FaultsAreLeased'
  <2>1. /\ alien = (chain.eg = "foreign")
        /\ alien => EgressOf(job.todo) = {} /\ EgressOf(job.undo) = {}
        /\ chain.eg = "netem" /\ EgressOf(job.todo) # {} => job.kind \in Restorers
        /\ \A x \in EgressOf(job.undo) : x.to = "netem" => job.kind \in Restorers /\ stress = "degrade"
        /\ (chain.eg = "netem" => stress = "degrade")
    BY DEF QueueInv, RootsAreTheirs, FaultsAreLeased
  <2>2. chain'.eg = "netem" => stress = "degrade" /\ (EgressOf(job.todo) # {} => job.kind \in Restorers)
    BY <1>3, <1>5, <2>1
  <2>3. FaultsAreLeased'
    BY <1>7, <2>2 DEF QueueInv, FaultsAreLeased
  <2> QED  BY <1>5, <1>6, <1>7, <1>8, <2>1, <2>2, <2>3 DEF RootsAreTheirs
<1>11. RestoresRemove'
  BY <1>6, <1>7 DEF QueueInv, RestoresRemove
<1>12. JobsArrive' /\ RecoveryIsWhole'
  BY <1>6, <1>7 DEF JobsArrive, RecoveryIsWhole
<1>13. JobsComeBack'
  <2>1. Covered /\ ComesBack => ~IsIdle
    BY DEF QueueInv, JobsComeBack
  <2>2. ASSUME Covered, ComesBack, ~job'.bad PROVE \E c \in Chains : PathTo(job.undo, chain, c)' /\ Home(c)
    <3>1. ~job.bad /\ chain' = Put(chain, w)
      BY <1>4, <1>6, <2>2
    <3>2. PICK c \in Chains : PathTo(job.undo, chain, c) /\ Home(c)
      BY <2>2, <3>1 DEF QueueInv, JobsComeBack
    <3>3. PathTo(Tail(job.undo), Put(chain, w), c)
      BY <1>1, <3>2, PathSteps
    <3> QED  BY <1>6, <3>1, <3>2, <3>3 DEF PathTo
  <2> QED  BY <1>6, <1>7, <2>1, <2>2 DEF JobsComeBack
<1>14. RestoresAreSafe'
  <2> SUFFICES ASSUME Covered, job.kind \in Restorers, lease = NoLease
               PROVE  /\ due = "nothing" /\ stress = "none" =>
                           FitsFor(chain', Effective)
                           /\ \A x \in Those(job.todo)' \cup Those(job.undo)' : Put(chain', x) = chain'
                      /\ (due = "nothing" \/ ~link.exists) /\ Effective = Off =>
                           /\ chain'.eg \in {"none", "netem"}
                           /\ \A x \in EgressOf(job.todo)' \cup EgressOf(job.undo)' : x.to \in {"none", "netem"}
    BY <1>6, <1>7 DEF RestoresAreSafe, FitsFor, BareOf, WholeChain, Put
  <2>1. ASSUME due = "nothing", stress = "none"
        PROVE  FitsFor(chain', Effective) /\ \A x \in Those(job.todo)' \cup Those(job.undo)' : Put(chain', x) = chain'
    <3>1. FitsFor(chain, Effective) /\ \A x \in Those(job.todo) \cup Those(job.undo) : Put(chain, x) = chain
      BY <2>1 DEF QueueInv, RestoresAreSafe
    <3>2. chain' = chain
      BY <1>2, <1>4, <3>1
    <3> QED  BY <1>8, <3>1, <3>2
  <2>2. ASSUME due = "nothing" \/ ~link.exists, Effective = Off
        PROVE  /\ chain'.eg \in {"none", "netem"}
               /\ \A x \in EgressOf(job.todo)' \cup EgressOf(job.undo)' : x.to \in {"none", "netem"}
    <3>1. /\ chain.eg \in {"none", "netem"}
          /\ \A x \in EgressOf(job.todo) \cup EgressOf(job.undo) : x.to \in {"none", "netem"}
      BY <2>2 DEF QueueInv, RestoresAreSafe
    <3> QED  BY <1>3, <1>5, <1>8, <3>1
  <2> QED  BY <2>1, <2>2
<1> QED  BY <1>7, <1>9, <1>10, <1>11, <1>12, <1>13, <1>14 DEF QueueInv

LEMMA UndosKeep ==
    ASSUME QueueInv, Undo
    PROVE  QueueInv'
<1>1. job # Free /\ job.at = "undo" /\ JobOnly
  BY DEF Undo
<1>2. CASE job.undo = <<>> /\ job' = [job EXCEPT !.at = "end"] /\ UNCHANGED chain
  BY <1>1, <1>2, UndosEnd
<1>3. CASE /\ job.undo # <<>>
           /\ \/ /\ chain' = [chain EXCEPT ![Head(job.undo).part] = Head(job.undo).to]
                 /\ job' = [job EXCEPT !.undo = Tail(@)]
              \/ UNCHANGED chain /\ job' = [job EXCEPT !.undo = Tail(@), !.bad = TRUE]
  BY <1>1, <1>3, UndosGo
<1> QED  BY <1>2, <1>3 DEF Undo

-----------------------------------------------------------------------------
(* Queues: the invariant *)

LEMMA QueueSteps ==
    ASSUME QueueInv, [QueueNext]_queueVars
    PROVE  QueueInv'
<1>1. CASE UNCHANGED queueVars
  <2>1. UNCHANGED <<link, chain, carrier, lease, stress, test, mode, job, due, listed, alien, unrecorded>>
    BY <1>1 DEF queueVars
  <2>2. QueueShape' /\ FaultsAreLeased' /\ (due' \in {"lock", "recovering"} => listed' \in LeaseRows)
    BY <2>1 DEF QueueInv, QueueShape, FaultsAreLeased, RecoveryIsWhole
  <2> QED  BY <2>1, <2>2, AsideOfLock
<1>2. CASE Update \/ Benchmark \/ ReconcileQueue
  BY <1>2, OperationsStart
<1>3. CASE EditLink
  BY <1>3, EditsStart
<1>4. CASE ListLeases \/ NothingToRestore \/ SecondPass \/ StartTest
  BY <1>4, AsidesKeepQueue
<1>5. CASE RecoverLease
  BY <1>5, RecoveryStarts
<1>6. CASE Restore("boot") \/ Restore("half") \/ Restore("close") \/ Restore("watchdog")
  BY <1>6, RestoresStart DEF Restorers
<1>7. CASE NextGoal
  BY <1>7, GoalsKeep
<1>8. CASE RunCommand
  BY <1>8, CommandsKeep
<1>9. CASE Undo
  BY <1>9, UndosKeep
<1>10. CASE EndOperation
  BY <1>10, OperationsEnd
<1>11. CASE EndLink
  BY <1>11, LinkEditsEnd
<1>12. CASE EndRecovery
  BY <1>12, RecoveriesEnd
<1>13. CASE EndRestore
  BY <1>13, RestoresEnd
<1>14. CASE Inject
  BY <1>14, InjectsKeep
<1>15. CASE Dies
  BY <1>15, DeathsKeep
<1>16. CASE ForeignArrives
  BY <1>16, ForeignersKeep
<1> QED  BY <1>1, <1>2, <1>3, <1>4, <1>5, <1>6, <1>7, <1>8, <1>9, <1>10, <1>11, <1>12, <1>13, <1>14, <1>15, <1>16
         DEF QueueNext, BootStep, LockStep, TestStep

LEMMA QueueInvHolds ==
    ASSUME QueueInv
    PROVE  MidwayIsRecorded /\ FaultHasLease /\ ForeignIsKept
<1>1. FaultHasLease
  BY DEF QueueInv, FaultsAreLeased, FaultHasLease
<1>2. ForeignIsKept
  BY DEF QueueInv, RootsAreTheirs, ForeignIsKept
<1>3. MidwayIsRecorded
  <2> SUFFICES ASSUME job = Free, Covered, lease = NoLease, stress = "none", due = "nothing" PROVE Fits
    BY DEF MidwayIsRecorded, Covered
  <2>1. Kept(chain) /\ chain \in Chains
    BY DEF QueueInv, ChainIsKept, QueueShape
  <2> QED  BY <2>1, FitsIsFitsFor DEF Kept
<1> QED  BY <1>1, <1>2, <1>3

-----------------------------------------------------------------------------
(* Domains: shapes *)

DomRows == {"absent", "trial"} \cup Caps
Records == [claims : SUBSET Domains, age : 0..2, cap : Caps \cup {None},
            doubtful : BOOLEAN, pend : Caps \cup {None}]
WriteRows == [addr : Addrs, cap : Caps, replace : BOOLEAN]
RemovalRows == [addr : Addrs, struct : Structs, tries : Nat]
Elements == {Gone} \cup [cap : Caps, age : 0..1]
Owing == [writes : SUBSET WriteRows, removals : SUBSET RemovalRows]
Batches == [busy : {TRUE}, adds : SUBSET [addr : Addrs, cap : Caps],
            dels : SUBSET (Addrs \X Structs), back : SUBSET RemovalRows]
AnswerRows == [busy : {TRUE}, whole : BOOLEAN, failed : BOOLEAN, batch : Batches]

DomainShape ==
    /\ list \in [Domains -> DomRows] /\ gate \in BOOLEAN
    /\ rows \in [Domains -> DomRows]
    /\ index \in [Addrs -> Records]
    /\ adjusts \in Owing /\ owed \in Owing
    /\ queued \in {NoBatch} \cup Batches /\ writing \in {NoBatch} \cup AnswerRows
    /\ returned \in Seq(SUBSET RemovalRows)
    /\ kernel \in [Addrs -> [Structs -> Elements]]
    /\ astray \subseteq Addrs

\* An address nobody claims has no record, one that is not written waits for its
\* first answer.
RecordFit(r) ==
    /\ r.claims = {} => r = NotKnown
    /\ r.claims # {} /\ r.pend = None => r.cap # None
    /\ r.claims # {} /\ r.cap = None => r.age = 0 /\ ~r.doubtful

\* What is owed, queued or answered about an address.
Has(p, a) == \E w \in p.writes : w.addr = a
Asks(p, a, s) == \E r \in p.removals : r.addr = a /\ r.struct = s
Carries(b, a) == b.busy /\ \E x \in b.adds : x.addr = a
Deletes(b, a, s) == b.busy /\ <<a, s>> \in b.dels
Returns(b, a) == b.busy /\ \E x \in b.back : x.addr = a
Flight(w) == IF w.busy THEN w.batch ELSE NoBatch
Refused(w, a, s) == w.busy /\ ~w.whole /\ <<a, s>> \in w.batch.dels
GivenBack(ret, a, s) == \E i \in DOMAIN ret : \E r \in ret[i] : r.addr = a /\ r.struct = s

\* The record once the answer on its way is heard.
Told(w, r, a) ==
    IF r.pend = None \/ ~Carries(Flight(w), a) THEN r
    ELSE IF a \in Missed(w) THEN NotConfirmed(r) ELSE Confirmed(r)

-----------------------------------------------------------------------------
(* Domains: the invariant *)

\* A batch that deletes an element of an address writes the address or can
\* bring a removal of it back.
Backed(b) == \A a \in Addrs : \A s \in Structs : Deletes(b, a, s) => Carries(b, a) \/ Returns(b, a)

\* What waits is carried.
Waits(a) ==
    index[a].pend # None =>
        Has(adjusts, a) \/ Has(owed, a) \/ Carries(queued, a) \/ Carries(Flight(writing), a)

\* With the gate closed the index is empty and no domain is active.
GateIsClosed == ~gate => Active(list) = {} /\ \A a \in Addrs : index[a] = NotKnown

\* A write is of what the record waits for, and what is written leaves with it.
OwedFit(p, r, a) ==
    \A w \in p.writes : w.addr = a =>
        /\ w.cap = r.pend /\ w.replace = (r.cap = r.pend)
        /\ r.cap # None /\ r.cap # r.pend => Asks(p, a, StructOf(r.cap))
BatchFit(b, r, a) ==
    b.busy => \A x \in b.adds : x.addr = a =>
        x.cap = r.pend /\ (r.cap # None => Deletes(b, a, StructOf(r.cap)))
WritesFit(a) ==
    /\ OwedFit(adjusts, index[a], a) /\ OwedFit(owed, index[a], a)
    /\ BatchFit(queued, index[a], a) /\ BatchFit(Flight(writing), index[a], a)

\* There is one write of an address on its way.
OneWrite(a) ==
    /\ Has(adjusts, a) => ~Has(owed, a) /\ ~Carries(queued, a) /\ ~Carries(Flight(writing), a)
    /\ Has(owed, a) => ~Carries(queued, a) /\ ~Carries(Flight(writing), a)
    /\ Carries(queued, a) => ~Carries(Flight(writing), a)

Rec(a) == Told(writing, index[a], a)
Leaving(a, s) ==
    \/ Asks(adjusts, a, s) \/ Asks(owed, a, s) \/ Deletes(queued, a, s)
    \/ Refused(writing, a, s) \/ GivenBack(returned, a, s)

\* An element is what the record says, or its removal is on its way.
NothingElse(a) ==
    gate => \A s \in Structs : Present(a, s) /\ ~Leaving(a, s) =>
                Holds(Rec(a), s) /\ kernel[a][s].cap = Rec(a).cap

\* What the record says is there, and as old, but for what an add found there.
Believed(a) ==
    \A s \in Structs : Holds(Rec(a), s) =>
        \/ /\ kernel[a][s].age = Rec(a).age
           /\ Present(a, s) => kernel[a][s].cap = Rec(a).cap
        \/ /\ Rec(a).age = 0 /\ index[a].age = 0
           /\ kernel[a][s].cap = Rec(a).cap /\ GivenBack(returned, a, s)

\* A removal of what the record says goes with a write.
MovesWhole(a) ==
    \A s \in Structs : Holds(Rec(a), s) =>
        /\ Asks(adjusts, a, s) => Has(adjusts, a)
        /\ Asks(owed, a, s) => Has(owed, a)
        /\ Deletes(queued, a, s) => Carries(queued, a)

\* A removal does not follow the write of what it removes.
InOrder(a) ==
    \A s \in Structs : index[a].pend # None /\ StructOf(index[a].pend) = s =>
        /\ Asks(adjusts, a, s) => ~Has(owed, a) /\ ~Carries(queued, a) /\ ~Carries(Flight(writing), a)
        /\ Asks(owed, a, s) => ~Carries(queued, a) /\ ~Carries(Flight(writing), a)
        /\ Deletes(queued, a, s) => ~Carries(Flight(writing), a)

\* While an element is still to leave, the other one is new.
LeavesSoon(a) ==
    gate => \A s \in Structs :
        Present(a, s) /\ Rec(a).cap # None /\ ~Holds(Rec(a), s) => Rec(a).age = 0

\* A removal that was tried before is of nothing the record says, unless that is new.
Again(R, a, s) == \E x \in R : x.addr = a /\ x.struct = s /\ x.tries # 0
TriedOf(b, a, s) == b.busy /\ Again(b.back, a, s)
TriedIn(ret, a, s) == \E i \in DOMAIN ret : Again(ret[i], a, s)
Tried(a, s) ==
    \/ Again(adjusts.removals, a, s) \/ Again(owed.removals, a, s)
    \/ TriedOf(queued, a, s) \/ TriedOf(Flight(writing), a, s) \/ TriedIn(returned, a, s)
AgainIsNew(a) == \A s \in Structs : Holds(Rec(a), s) /\ Tried(a, s) => Rec(a).age = 0

Tracked(a) ==
    /\ WritesFit(a) /\ OneWrite(a) /\ NothingElse(a) /\ Believed(a)
    /\ MovesWhole(a) /\ InOrder(a) /\ LeavesSoon(a) /\ AgainIsNew(a)

DomainInv ==
    /\ DomainShape
    /\ \A a \in Addrs : RecordFit(index[a]) /\ Waits(a)
    /\ Backed(queued) /\ Backed(Flight(writing))
    /\ GateIsClosed
    /\ \A a \in Addrs \ astray : Tracked(a)

-----------------------------------------------------------------------------
(* Domains: the capability of an address *)

LEMMA CapsAre ==
    /\ None \notin Caps /\ "trial" \notin Caps /\ "absent" \notin Caps
    /\ \A c \in Caps : StructOf(c) \in Structs
  BY DomainAssumption DEF Caps, None, StructOf, Structs

\* A set of names has a first.
LEMMA FirstIs ==
    ASSUME NEW D \in SUBSET Domains, D # {}
    PROVE  First(D) \in D
<1>1. D \subseteq Nat /\ IsFiniteSet(D)
  BY DomainAssumption, FS_Subset
<1>2. \E d \in D : \A e \in D : d <= e
  BY <1>1, FiniteMin
<1> QED  BY <1>2 DEF First

LEMMA CapIs ==
    ASSUME NEW l \in [Domains -> DomRows], NEW claims \in SUBSET Domains
    PROVE  /\ claims \cap Active(l) = {} => CapEfetiva(l, claims) = None
           /\ claims \cap Active(l) # {} => CapEfetiva(l, claims) \in Caps
           /\ CapEfetiva(l, claims \cap Active(l)) = CapEfetiva(l, claims)
<1> DEFINE active == claims \cap Active(l)
<1>1. active \subseteq Domains /\ \A d \in active : l[d] \in Caps
  BY DEF Active
<1>2. active # {} => First(active) \in active
  BY <1>1, FirstIs
<1>3. (claims \cap Active(l)) \cap Active(l) = active
  OBVIOUS
<1>4. "block" \in Caps
  BY DEF Caps
<1> QED  BY <1>1, <1>2, <1>3, <1>4 DEF CapEfetiva

-----------------------------------------------------------------------------
(* Domains: what an operation makes of one address *)

Same(r, q) == q.cap = r.cap /\ q.pend = r.pend /\ q.age = r.age /\ q.doubtful = r.doubtful
Unmoved(o, r) == Same(r, o.record) /\ o.writes = {} /\ o.removals = {}
Requested(o, a, r) ==
    /\ o.record.pend \in Caps /\ o.record.cap = r.cap
    /\ o.record.age = r.age /\ o.record.doubtful = r.doubtful
    /\ o.writes = {Write(a, o.record.pend, o.record.pend = r.cap)}
    /\ o.removals = IF o.record.pend = r.cap THEN {} ELSE Leaves(a, r)
Dropped(o, a, r) == o.record = NotKnown /\ o.writes = {} /\ o.removals = Leaves(a, r)
Retaught(o, a, r) ==
    /\ o.record.pend \in Caps /\ o.record.cap = None
    /\ o.record.age = 0 /\ ~o.record.doubtful
    /\ o.writes = {Write(a, o.record.pend, FALSE)}
    /\ o.removals = Leaves(a, r)
Fit(r) == r \in Records /\ RecordFit(r)

Claimed(r, C) == [r EXCEPT !.claims = C]
Awaits(r, C, c) == [r EXCEPT !.claims = C, !.pend = c]

LEMMA RecordsAre ==
    ASSUME NEW r \in Records
    PROVE  /\ r.claims \subseteq Domains /\ r.age \in 0..2 /\ r.doubtful \in BOOLEAN
           /\ r.cap \in Caps \cup {None} /\ r.pend \in Caps \cup {None}
  BY DEF Records

LEMMA ClaimedIs ==
    ASSUME NEW r \in Records, NEW C \in SUBSET Domains
    PROVE  Claimed(r, C) \in Records /\ Claimed(r, C).claims = C /\ Same(r, Claimed(r, C))
  BY DEF Records, Same, Claimed

LEMMA AwaitsIs ==
    ASSUME NEW r \in Records, NEW C \in SUBSET Domains, NEW c \in Caps
    PROVE  /\ Awaits(r, C, c) \in Records /\ Awaits(r, C, c).claims = C /\ Awaits(r, C, c).pend = c
           /\ Awaits(r, C, c).cap = r.cap /\ Awaits(r, C, c).age = r.age
           /\ Awaits(r, C, c).doubtful = r.doubtful
  BY DEF Records, Awaits

LEMMA OutcomeIs ==
    ASSUME NEW r, NEW W, NEW R
    PROVE  /\ Outcome(r, W, R).record = r /\ Outcome(r, W, R).writes = W
           /\ Outcome(r, W, R).removals = R
  BY DEF Outcome

LEMMA NotKnownIs ==
    /\ NotKnown \in Records /\ RecordFit(NotKnown)
    /\ NotKnown.claims = {} /\ NotKnown.cap = None /\ NotKnown.pend = None
    /\ NotKnown.age = 0 /\ NotKnown.doubtful = FALSE
  BY DEF NotKnown, Records, RecordFit

\* A record that keeps what it says is fit when it keeps its claims.
LEMMA SameFit ==
    ASSUME NEW r \in Records, RecordFit(r), NEW q \in Records, Same(r, q),
           r.claims \subseteq q.claims, r.claims # {} \/ q.claims = {}
    PROVE  RecordFit(q)
<1>1. CASE r.claims # {}
  BY <1>1 DEF RecordFit, Same
<1>2. CASE q.claims = {}
  <2>1. r = NotKnown
    BY <1>2 DEF RecordFit
  <2>2. q = NotKnown
    BY <1>2, <2>1, NotKnownIs DEF Records, Same, NotKnown
  <2> QED  BY <2>2, NotKnownIs
<1> QED  BY <1>1, <1>2

\* A record that waits is fit.
LEMMA AskedFit ==
    ASSUME NEW r, Fit(r), NEW C \in SUBSET Domains, C # {}, NEW c \in Caps
    PROVE  Fit(Awaits(r, C, c))
<1> DEFINE q == Awaits(r, C, c)
<1>1. /\ q \in Records /\ q.claims = C /\ q.pend = c /\ q.cap = r.cap
      /\ q.age = r.age /\ q.doubtful = r.doubtful
  BY AwaitsIs DEF Fit
<1>2. c # None
  BY CapsAre
<1>3. r.cap = None => r.age = 0 /\ ~r.doubtful
  BY NotKnownIs DEF Fit, RecordFit
<1> QED  BY <1>1, <1>2, <1>3 DEF Fit, RecordFit

LEMMA AbsorvidoIs ==
    ASSUME NEW l \in [Domains -> DomRows], NEW a \in Addrs, NEW r, Fit(r),
           NEW claims \in SUBSET Domains, r.claims \subseteq claims, claims \cap Active(l) # {}
    PROVE  LET o == Absorvido(l, a, r, claims)
           IN  /\ Fit(o.record) /\ o.record.claims = claims
               /\ Unmoved(o, r) \/ (r.pend = None /\ Requested(o, a, r))
<1> DEFINE cap == CapEfetiva(l, claims)
           o == Absorvido(l, a, r, claims)
<1>1. cap \in Caps /\ cap # None
  BY CapIs, CapsAre
<1>2. r \in Records /\ RecordFit(r)
  BY DEF Fit
<1>3. CASE r.pend # None \/ (cap = r.cap /\ ~(r.doubtful \/ r.age >= 1))
  <2>1. o = Outcome(Claimed(r, claims), {}, {})
    BY <1>3 DEF Absorvido, Claimed, Awaits
  <2>2. /\ Claimed(r, claims) \in Records /\ Claimed(r, claims).claims = claims
        /\ Same(r, Claimed(r, claims))
    BY <1>2, ClaimedIs
  <2>3. r.claims # {}
    BY <1>1, <1>2, <1>3, NotKnownIs DEF RecordFit
  <2>4. RecordFit(Claimed(r, claims))
    BY <1>2, <2>2, <2>3, SameFit
  <2> QED  BY <2>1, <2>2, <2>4, OutcomeIs DEF Unmoved, Fit
<1>4. CASE ~(r.pend # None \/ (cap = r.cap /\ ~(r.doubtful \/ r.age >= 1)))
  <2>1. o = Outcome(Awaits(r, claims, cap), {Write(a, cap, cap = r.cap)},
                    IF cap = r.cap THEN {} ELSE Leaves(a, r))
    BY <1>1, <1>4 DEF Absorvido, Claimed, Awaits
  <2>2. claims # {}
    OBVIOUS
  <2>3. Fit(Awaits(r, claims, cap))
    BY <1>1, <2>2, AskedFit
  <2>4. /\ Awaits(r, claims, cap).claims = claims /\ Awaits(r, claims, cap).pend = cap
        /\ Awaits(r, claims, cap).cap = r.cap /\ Awaits(r, claims, cap).age = r.age
        /\ Awaits(r, claims, cap).doubtful = r.doubtful
    BY <1>1, <1>2, AwaitsIs
  <2> QED  BY <1>1, <1>4, <2>1, <2>3, <2>4, OutcomeIs DEF Requested
<1> QED  BY <1>3, <1>4

\* An active domain teaches an address.
LEMMA AbsorveIs ==
    ASSUME list \in [Domains -> DomRows], NEW d \in Domains, list[d] \in Caps, NEW a \in Addrs,
           Fit(index[a])
    PROVE  LET o == Absorve(d, a)
           IN  Fit(o.record) /\ (Unmoved(o, index[a]) \/ (index[a].pend = None /\ Requested(o, a, index[a])))
<1> DEFINE r == index[a]
           claims == IF Room(d) THEN r.claims \cup {d} ELSE r.claims
<1>1. r \in Records /\ RecordFit(r) /\ r.claims \subseteq Domains
  BY RecordsAre DEF Fit
<1>2. d \in Active(list)
  BY DEF Active
<1>3. claims \in SUBSET Domains /\ r.claims \subseteq claims
  BY <1>1
<1>4. Absorve(d, a) = Absorvido(list, a, r, claims)
  BY DEF Absorve
<1>5. CASE claims \cap Active(list) # {}
  BY <1>3, <1>4, <1>5, AbsorvidoIs
<1>6. CASE claims \cap Active(list) = {}
  <2>1. claims = r.claims
    BY <1>2, <1>6
  <2>2. CapEfetiva(list, claims) = None
    BY <1>3, <1>6, CapIs
  <2>3. Absorve(d, a) = Outcome(Claimed(r, claims), {}, {})
    BY <1>4, <2>2 DEF Absorvido, Claimed, Awaits
  <2>4. /\ Claimed(r, claims) \in Records /\ Claimed(r, claims).claims = claims
        /\ Same(r, Claimed(r, claims))
    BY <1>1, <1>3, ClaimedIs
  <2>5. RecordFit(Claimed(r, claims))
    BY <1>1, <2>1, <2>4, SameFit
  <2> QED  BY <2>3, <2>4, <2>5, OutcomeIs DEF Unmoved, Fit
<1> QED  BY <1>5, <1>6

LEMMA RevistoIs ==
    ASSUME NEW l \in [Domains -> DomRows], NEW a \in Addrs, Fit(index[a])
    PROVE  LET o == Revisto(l, a)
               r == index[a]
           IN  /\ Fit(o.record) /\ o.record.claims \subseteq Active(l)
               /\ Unmoved(o, r) \/ Requested(o, a, r) \/ Dropped(o, a, r)
               /\ {r.cap, r.pend} = {CapEfetiva(l, r.claims)} /\ r.pend # None => Unmoved(o, r)
<1> DEFINE r == index[a]
           claims == r.claims \cap Active(l)
           cap == CapEfetiva(l, claims)
           o == Revisto(l, a)
<1>1. r \in Records /\ RecordFit(r) /\ r.claims \subseteq Domains
  BY RecordsAre DEF Fit
<1>2. claims \in SUBSET Domains /\ cap = CapEfetiva(l, r.claims)
  BY <1>1, CapIs
<1>7. o = IF cap = None THEN Outcome(NotKnown, {}, Leaves(a, r))
          ELSE IF cap = r.cap THEN Outcome(Claimed(r, claims), {}, {})
          ELSE Outcome(Awaits(r, claims, cap), {Write(a, cap, FALSE)}, Leaves(a, r))
  BY DEF Revisto, Claimed, Awaits
<1>8. claims \subseteq Active(l) /\ (cap # None => claims # {} /\ cap \in Caps)
  BY <1>2, CapIs
<1>9. Fit(r)
  OBVIOUS
<1> HIDE DEF r, claims, cap, o
<1> DEFINE Goal == /\ Fit(o.record) /\ o.record.claims \subseteq Active(l)
                   /\ Unmoved(o, r) \/ Requested(o, a, r) \/ Dropped(o, a, r)
                   /\ {r.cap, r.pend} = {CapEfetiva(l, r.claims)} /\ r.pend # None => Unmoved(o, r)
<1>3. ASSUME cap = None PROVE Goal
  <2>1. o = Outcome(NotKnown, {}, Leaves(a, r))
    BY <1>3, <1>7
  <2> QED  BY <1>2, <1>3, <1>8, <2>1, NotKnownIs, OutcomeIs DEF Dropped, Fit
<1>4. ASSUME cap # None PROVE Goal
  <2>1. claims # {} /\ cap \in Caps
    BY <1>4, <1>8
  <2>2. CASE cap = r.cap
    <3>1. o = Outcome(Claimed(r, claims), {}, {})
      BY <1>4, <1>7, <2>2
    <3>2. /\ Claimed(r, claims) \in Records /\ Claimed(r, claims).claims = claims
          /\ Same(r, Claimed(r, claims))
      BY <1>1, <1>2, ClaimedIs
    <3>3. RecordFit(Claimed(r, claims))
      BY <1>1, <1>4, <2>1, <2>2, <3>2 DEF RecordFit, Same
    <3> QED  BY <3>1, <3>2, <3>3, <1>8, OutcomeIs DEF Unmoved, Fit
  <2>3. CASE cap # r.cap
    <3>1. o = Outcome(Awaits(r, claims, cap), {Write(a, cap, FALSE)}, Leaves(a, r))
      BY <1>4, <1>7, <2>3
    <3>2. Fit(Awaits(r, claims, cap))
      BY <1>2, <1>9, <2>1, AskedFit
    <3>3. /\ Awaits(r, claims, cap).claims = claims /\ Awaits(r, claims, cap).pend = cap
          /\ Awaits(r, claims, cap).cap = r.cap /\ Awaits(r, claims, cap).age = r.age
          /\ Awaits(r, claims, cap).doubtful = r.doubtful
      BY <1>1, <1>2, <2>1, AwaitsIs
    <3>4. {r.cap, r.pend} # {CapEfetiva(l, r.claims)}
      <4>1. ASSUME {r.cap, r.pend} = {CapEfetiva(l, r.claims)} PROVE r.cap = CapEfetiva(l, r.claims)
        BY <4>1
      <4> QED  BY <1>2, <2>3, <4>1
    <3>5. (cap = r.cap) = FALSE
      BY <2>3
    <3>6. o.record = Awaits(r, claims, cap) /\ o.removals = Leaves(a, r)
          /\ o.writes = {Write(a, cap, FALSE)}
      BY <3>1 DEF Outcome
    <3>8. Write(a, cap, FALSE) = Write(a, cap, cap = r.cap)
      BY <3>5, Zenon
    <3>7. Requested(o, a, r)
      BY <2>1, <2>3, <3>3, <3>6, <3>8 DEF Requested
    <3> QED  BY <1>8, <3>2, <3>3, <3>4, <3>6, <3>7
  <2> QED  BY <2>2, <2>3
<1> QED  BY <1>3, <1>4 DEF r, o

LEMMA ReplayEnsaioIs ==
    ASSUME NEW l \in [Domains -> DomRows], NEW a \in Addrs, NEW r, Fit(r),
           NEW promoted \in SUBSET Active(l)
    PROVE  LET o == ReplayEnsaio(l, a, r, promoted)
           IN  /\ Fit(o.record) /\ (Unmoved(o, r) \/ (r.pend = None /\ Requested(o, a, r)))
               /\ promoted = {} => o.record.claims = r.claims
<1> DEFINE new == {d \in promoted : a \in trialed[d]}
           claims(d) == r.claims \cup {e \in new : e <= d}
           told(d) == Absorvido(l, a, r, claims(d))
           asking == {d \in new : told(d).writes # {}}
           all == r.claims \cup new
           x == IF asking = {} THEN Outcome(r, {}, {}) ELSE told(First(asking))
           o == ReplayEnsaio(l, a, r, promoted)
<1>1. r \in Records /\ RecordFit(r) /\ r.claims \subseteq Domains
  BY RecordsAre DEF Fit
<1>2. promoted \subseteq Domains /\ new \subseteq Domains /\ Domains \subseteq Nat /\ all \in SUBSET Domains
  BY <1>1, DomainAssumption DEF Active
<1>3. o = Outcome(Claimed(x.record, all), x.writes, x.removals)
  BY DEF ReplayEnsaio, Claimed
<1>4. ASSUME NEW d \in new
      PROVE  /\ Fit(told(d).record) /\ told(d).record.claims # {}
             /\ Unmoved(told(d), r) \/ (r.pend = None /\ Requested(told(d), a, r))
  <2>1. d \in Domains /\ d <= d /\ d \in Active(l)
    BY <1>2
  <2>2. claims(d) \in SUBSET Domains /\ claims(d) \cap Active(l) # {}
    BY <1>1, <1>2, <2>1
  <2> DEFINE C == claims(d)
  <2>3. C \in SUBSET Domains /\ C \cap Active(l) # {} /\ r.claims \subseteq C /\ C # {}
    BY <2>2
  <2>4. told(d) = Absorvido(l, a, r, C)
    OBVIOUS
  <2> HIDE DEF C, told
  <2> QED  BY <2>3, <2>4, AbsorvidoIs
<1>5. promoted = {} => all = r.claims
  OBVIOUS
<1>6. /\ o.record = Claimed(x.record, all) /\ o.writes = x.writes /\ o.removals = x.removals
  BY <1>3 DEF Outcome
<1>7. CASE asking = {}
  <2>1. x.record = r /\ x.writes = {} /\ x.removals = {}
    BY <1>7, OutcomeIs
  <2>2. Claimed(r, all) \in Records /\ Claimed(r, all).claims = all /\ Same(r, Claimed(r, all))
    BY <1>1, <1>2, ClaimedIs
  <2>3. ASSUME new # {} PROVE r.claims # {}
    <3>1. PICK d \in new : told(d).writes = {}
      BY <1>7, <2>3
    <3>2. ~Requested(told(d), a, r)
      BY <3>1 DEF Requested
    <3>3. Unmoved(told(d), r) /\ RecordFit(told(d).record) /\ told(d).record.claims # {}
      BY <1>4, <3>2 DEF Fit
    <3>4. ~(r.cap = None /\ r.pend = None)
      BY <3>3 DEF Unmoved, Same, RecordFit
    <3> QED  BY <1>1, <3>4, NotKnownIs DEF RecordFit
  <2>4. RecordFit(Claimed(r, all))
    BY <1>1, <2>2, <2>3, SameFit
  <2>5. Fit(o.record) /\ Unmoved(o, r)
    BY <1>6, <2>1, <2>2, <2>4 DEF Unmoved, Fit
  <2> QED  BY <1>5, <1>6, <2>1, <2>2, <2>5
<1>8. CASE asking # {}
  <2>1. PICK f \in asking : x = told(f)
    <3>1. First(asking) \in asking
      BY <1>2, <1>8, FirstIs
    <3> QED  BY <1>8, <3>1
  <2>2. ~Unmoved(x, r)
    BY <2>1 DEF Unmoved
  <2>3. Fit(x.record) /\ r.pend = None /\ Requested(x, a, r)
    BY <1>4, <2>1, <2>2
  <2>4. x.record \in Records
    BY <2>3 DEF Fit
  <2>5. all # {} /\ promoted # {}
    BY <2>1
  <2> HIDE DEF x, o, all
  <2>6. /\ Claimed(x.record, all) \in Records /\ Claimed(x.record, all).claims = all
        /\ Same(x.record, Claimed(x.record, all))
    BY <1>2, <2>4, ClaimedIs
  <2>7. x.record.pend \in Caps /\ x.record.pend # None
    BY <2>3, CapsAre DEF Requested
  <2>8. x.record.cap = None => x.record.age = 0 /\ ~x.record.doubtful
    BY <2>3, NotKnownIs DEF Fit, RecordFit
  <2>9. RecordFit(Claimed(x.record, all))
    BY <2>5, <2>6, <2>7, <2>8 DEF RecordFit, Same
  <2>10. Requested(o, a, r)
    <3>1. /\ o.record.pend = x.record.pend /\ o.record.cap = x.record.cap
          /\ o.record.age = x.record.age /\ o.record.doubtful = x.record.doubtful
      BY <1>6, <2>6 DEF Same
    <3>2. o.writes = {Write(a, o.record.pend, o.record.pend = r.cap)}
      <4>1. x.writes = {Write(a, x.record.pend, x.record.pend = r.cap)}
        BY <2>3 DEF Requested
      <4> QED  BY <1>6, <3>1, <4>1
    <3>3. o.removals = IF o.record.pend = r.cap THEN {} ELSE Leaves(a, r)
      BY <1>6, <2>3, <3>1 DEF Requested
    <3> QED  BY <2>3, <3>1, <3>2, <3>3 DEF Requested
  <2>11. Fit(o.record)
    BY <1>6, <2>6, <2>9 DEF Fit
  <2> QED  BY <2>3, <2>5, <2>10, <2>11 DEF o
<1> QED  BY <1>7, <1>8

\* What a change of the list makes of one address.
LEMMA ReconciliadoIs ==
    ASSUME list \in [Domains -> DomRows], NEW l \in [Domains -> DomRows], NEW a \in Addrs, Fit(index[a])
    PROVE  LET o == Reconciliado(l, a)
               r == index[a]
           IN  /\ Fit(o.record)
               /\ Unmoved(o, r) \/ Requested(o, a, r) \/ Dropped(o, a, r) \/ Retaught(o, a, r)
               /\ {r.cap, r.pend} = {CapEfetiva(l, r.claims)} /\ r.pend # None => Unmoved(o, r)
               /\ Active(l) = {} => o.record = NotKnown
<1> DEFINE r == index[a]
           promoted == Active(l) \ Active(list)
           seen == Revisto(l, a)
           taught == ReplayEnsaio(l, a, seen.record, promoted)
           o == Reconciliado(l, a)
<1>1. /\ Fit(seen.record) /\ seen.record.claims \subseteq Active(l)
      /\ Unmoved(seen, r) \/ Requested(seen, a, r) \/ Dropped(seen, a, r)
      /\ {r.cap, r.pend} = {CapEfetiva(l, r.claims)} /\ r.pend # None => Unmoved(seen, r)
  BY RevistoIs
<1>2. promoted \in SUBSET Active(l)
  OBVIOUS
<1>3. /\ Fit(taught.record)
      /\ Unmoved(taught, seen.record) \/ (seen.record.pend = None /\ Requested(taught, a, seen.record))
      /\ promoted = {} => taught.record.claims = seen.record.claims
  BY <1>1, <1>2, ReplayEnsaioIs
<1>4. /\ o.record = taught.record /\ o.writes = seen.writes \cup taught.writes
      /\ o.removals = seen.removals \cup taught.removals
  BY DEF Reconciliado, Outcome
<1> HIDE DEF r, seen, taught, o
<1>5. ASSUME Unmoved(seen, r) PROVE Unmoved(o, r) \/ (r.pend = None /\ Requested(o, a, r))
  <2>1. CASE Unmoved(taught, seen.record)
    BY <1>4, <1>5, <2>1 DEF Unmoved, Same
  <2>2. CASE seen.record.pend = None /\ Requested(taught, a, seen.record)
    <3>1. seen.writes = {} /\ seen.removals = {} /\ Same(r, seen.record)
      BY <1>5 DEF Unmoved
    <3>2. Leaves(a, seen.record) = Leaves(a, r)
      BY <3>1 DEF Leaves, Same
    <3> QED  BY <1>4, <2>2, <3>1, <3>2 DEF Requested, Same
  <2> QED  BY <1>3, <2>1, <2>2
<1>6. ASSUME Requested(seen, a, r) PROVE Requested(o, a, r)
  <2>1. Unmoved(taught, seen.record)
    BY <1>3, <1>6, CapsAre DEF Requested
  <2> QED  BY <1>4, <1>6, <2>1 DEF Requested, Unmoved, Same
<1>7. ASSUME Dropped(seen, a, r) PROVE Dropped(o, a, r) \/ Retaught(o, a, r)
  <2>1. CASE Unmoved(taught, seen.record)
    <3>1. taught.record.cap = None /\ taught.record.pend = None
      BY <1>7, <2>1, NotKnownIs DEF Dropped, Unmoved, Same
    <3>2. taught.record = NotKnown
      BY <1>3, <3>1 DEF Fit, RecordFit
    <3> QED  BY <1>4, <1>7, <2>1, <3>2 DEF Dropped, Unmoved
  <2>2. CASE Requested(taught, a, seen.record)
    <3>1. seen.record.cap = None /\ seen.record.age = 0 /\ seen.record.doubtful = FALSE
      BY <1>7, NotKnownIs DEF Dropped
    <3>2. taught.record.pend \in Caps /\ taught.record.pend # None
      BY <2>2, CapsAre DEF Requested
    <3>3. taught.writes = {Write(a, taught.record.pend, FALSE)}
      <4>1. (taught.record.pend = seen.record.cap) = FALSE
        BY <3>1, <3>2
      <4>2. Write(a, taught.record.pend, taught.record.pend = seen.record.cap)
              = Write(a, taught.record.pend, FALSE)
        BY <4>1, Zenon
      <4> QED  BY <2>2, <4>2 DEF Requested
    <3>4. taught.removals = {}
      BY <2>2, <3>1 DEF Requested, Leaves
    <3> QED  BY <1>4, <1>7, <2>2, <3>1, <3>2, <3>3, <3>4 DEF Dropped, Retaught, Requested
  <2> QED  BY <1>3, <2>1, <2>2
<1>8. ASSUME {r.cap, r.pend} = {CapEfetiva(l, r.claims)}, r.pend # None PROVE Unmoved(o, r)
  BY <1>1, <1>5, <1>8
<1>9. ASSUME Active(l) = {} PROVE o.record = NotKnown
  <2>1. seen.record.claims = {} /\ promoted = {}
    BY <1>1, <1>9
  <2> QED  BY <1>3, <1>4, <2>1 DEF Fit, RecordFit
<1>10. Fit(o.record)
  BY <1>3, <1>4
<1>11. Unmoved(o, r) \/ Requested(o, a, r) \/ Dropped(o, a, r) \/ Retaught(o, a, r)
  BY <1>1, <1>5, <1>6, <1>7
<1> QED  BY <1>8, <1>9, <1>10, <1>11 DEF r, o

-----------------------------------------------------------------------------
(* Domains: what is owed *)

LEMMA OutcomeTypes ==
    ASSUME NEW a \in Addrs, NEW r \in Records, NEW o,
           Unmoved(o, r) \/ Requested(o, a, r) \/ Dropped(o, a, r) \/ Retaught(o, a, r)
    PROVE  /\ o.writes \subseteq WriteRows /\ o.removals \subseteq RemovalRows
           /\ \A w \in o.writes : w.addr = a /\ w.cap = o.record.pend
           /\ \A x \in o.removals : /\ x.addr = a /\ r.cap # None
                                   /\ x.struct = StructOf(r.cap) /\ x.tries = 0
<1>1. \A c \in Caps : \A b \in BOOLEAN :
         Write(a, c, b) \in WriteRows /\ Write(a, c, b).addr = a /\ Write(a, c, b).cap = c
               /\ Write(a, c, b).replace = b
  BY DEF Write, WriteRows
<1>2. ASSUME r.cap # None
      PROVE  /\ Removal(a, r.cap) \in RemovalRows /\ Removal(a, r.cap).addr = a
             /\ Removal(a, r.cap).struct = StructOf(r.cap) /\ Removal(a, r.cap).tries = 0
  BY <1>2, RecordsAre, CapsAre DEF Removal, RemovalRows
<1>3. Leaves(a, r) \subseteq RemovalRows /\ \A x \in Leaves(a, r) :
         x.addr = a /\ r.cap # None /\ x.struct = StructOf(r.cap) /\ x.tries = 0
  BY <1>2 DEF Leaves
<1>4. CASE Unmoved(o, r)
  BY <1>4 DEF Unmoved
<1>5. CASE Requested(o, a, r)
  <2>1. o.record.pend \in Caps /\ (o.record.pend = r.cap) \in BOOLEAN
        /\ o.writes = {Write(a, o.record.pend, o.record.pend = r.cap)}
    BY <1>5 DEF Requested
  <2>2. o.removals \subseteq Leaves(a, r)
    BY <1>5 DEF Requested
  <2> DEFINE w == Write(a, o.record.pend, o.record.pend = r.cap)
  <2>4. w \in WriteRows /\ w.addr = a /\ w.cap = o.record.pend
    BY <1>1, <2>1
  <2> HIDE DEF w
  <2>5. o.writes = {w}
    BY <2>1 DEF w
  <2> QED  BY <1>3, <2>2, <2>4, <2>5
<1>6. CASE Dropped(o, a, r)
  BY <1>3, <1>6 DEF Dropped
<1>7. CASE Retaught(o, a, r)
  <2>1. o.record.pend \in Caps /\ o.writes = {Write(a, o.record.pend, FALSE)}
        /\ o.removals = Leaves(a, r)
    BY <1>7 DEF Retaught
  <2> DEFINE w == Write(a, o.record.pend, FALSE)
  <2>2. w \in WriteRows /\ w.addr = a /\ w.cap = o.record.pend
    BY <1>1, <2>1
  <2> HIDE DEF w
  <2>3. o.writes = {w}
    BY <2>1 DEF w
  <2> QED  BY <1>3, <2>1, <2>2, <2>3
<1> QED  BY <1>4, <1>5, <1>6, <1>7

\* Later writes replace, later removals wait behind the ones that are there.
Merged(p, q, W, R) ==
    /\ q \in Owing
    /\ \A w \in q.writes : w \in p.writes \/ w \in W
    /\ \A x \in q.removals : x \in p.removals \/ x \in R
    /\ \A a : Has(q, a) <=> Has(p, a) \/ \E w \in W : w.addr = a
    /\ \A a : \A s : Asks(q, a, s) <=> Asks(p, a, s) \/ \E x \in R : x.addr = a /\ x.struct = s

LEMMA Accumulated ==
    ASSUME NEW p \in Owing, NEW W \in SUBSET WriteRows, NEW R \in SUBSET RemovalRows
    PROVE  Merged(p, Acumula(p, W, R), W, R)
<1> DEFINE q == Acumula(p, W, R)
           old == {w \in p.writes : ~\E x \in W : SamePlace(w, x)}
           new == {r \in R : ~\E x \in p.removals : x.addr = r.addr /\ x.struct = r.struct}
<1>1. p.writes \subseteq WriteRows /\ p.removals \subseteq RemovalRows
  BY DEF Owing
<1>2. q = [writes |-> old \cup W, removals |-> p.removals \cup new]
  BY DEF Acumula
<1>3. q \in Owing /\ q.writes = old \cup W /\ q.removals = p.removals \cup new
  BY <1>1, <1>2 DEF Owing
<1> HIDE DEF q
<1>4. \A w \in q.writes : w \in p.writes \/ w \in W
  BY <1>3
<1>7. \A x \in q.removals : x \in p.removals \/ x \in R
  BY <1>3
<1>5. ASSUME NEW a PROVE Has(q, a) <=> Has(p, a) \/ \E w \in W : w.addr = a
  <2>1. ASSUME NEW w \in p.writes, w.addr = a PROVE w \in q.writes \/ \E x \in W : x.addr = a
    BY <1>3, <2>1 DEF SamePlace
  <2> QED  BY <1>3, <1>4, <2>1 DEF Has
<1>6. ASSUME NEW a, NEW s
      PROVE  Asks(q, a, s) <=> Asks(p, a, s) \/ \E x \in R : x.addr = a /\ x.struct = s
  <2>1. ASSUME NEW x \in R, x.addr = a, x.struct = s PROVE Asks(q, a, s)
    BY <1>3, <2>1 DEF Asks
  <2>2. \A x \in q.removals : x \in p.removals \/ x \in R
    BY <1>3
  <2>3. \A x \in p.removals : x \in q.removals
    BY <1>3
  <2> QED  BY <2>1, <2>2, <2>3 DEF Asks
<1> QED  BY <1>3, <1>4, <1>5, <1>6, <1>7 DEF q, Merged

\* What is owed about an address fits its record still when it says the same.
LEMMA OwedFitStays ==
    ASSUME NEW p, NEW q, NEW a, NEW r, NEW t, OwedFit(p, r, a), Same(r, t),
           \A w \in q.writes : w.addr = a => w \in p.writes,
           \A s : Asks(p, a, s) => Asks(q, a, s)
    PROVE  OwedFit(q, t, a)
  BY DEF OwedFit, Same

LEMMA BatchFitStays ==
    ASSUME NEW b, NEW a, NEW r, NEW t, BatchFit(b, r, a), Same(r, t)
    PROVE  BatchFit(b, t, a)
  BY DEF BatchFit, Same

LEMMA FlightIs ==
    ASSUME NEW w \in {NoBatch} \cup AnswerRows
    PROVE  /\ Flight(w) \in {NoBatch} \cup Batches
           /\ w.busy => w \in AnswerRows /\ Flight(w) = w.batch /\ w.batch \in Batches
           /\ w.batch.busy \/ ~w.busy
           /\ ~w.busy => w = NoBatch /\ Flight(w) = NoBatch
<1>1. CASE w = NoBatch
  <2>1. w.busy = FALSE
    BY <1>1 DEF NoBatch
  <2> QED  BY <1>1, <2>1 DEF Flight
<1>2. CASE w \in AnswerRows
  <2>1. w.busy = TRUE /\ w.batch \in Batches /\ w.batch.busy = TRUE
    BY <1>2 DEF AnswerRows, Batches
  <2> QED  BY <1>2, <2>1 DEF Flight
<1> QED  BY <1>1, <1>2

LEMMA NoBatchIs == NoBatch.busy = FALSE /\ \A a, s : ~Carries(NoBatch, a) /\ ~Deletes(NoBatch, a, s)
  BY DEF NoBatch, Carries, Deletes

\* A record that waits for nothing has no write on its way.
LEMMA NoWriteUnasked ==
    ASSUME DomainShape, NEW a \in Addrs, WritesFit(a), index[a].pend = None
    PROVE  ~Has(adjusts, a) /\ ~Has(owed, a) /\ ~Carries(queued, a) /\ ~Carries(Flight(writing), a)
<1>1. adjusts.writes \subseteq WriteRows /\ owed.writes \subseteq WriteRows
  BY DEF DomainShape, Owing
<1>2. \A w \in WriteRows : w.cap \in Caps
  BY DEF WriteRows
<1>3. ASSUME NEW b \in {NoBatch} \cup Batches, BatchFit(b, index[a], a) PROVE ~Carries(b, a)
  <2>1. CASE b = NoBatch
    BY <2>1 DEF Carries, NoBatch
  <2>2. CASE b \in Batches
    <3>1. \A x \in b.adds : x.cap \in Caps
      BY <2>2 DEF Batches
    <3> QED  BY <1>3, <3>1, CapsAre DEF Carries, BatchFit
  <2> QED  BY <2>1, <2>2
<1>4. queued \in {NoBatch} \cup Batches /\ Flight(writing) \in {NoBatch} \cup Batches
  BY FlightIs DEF DomainShape
<1>5. ~Has(adjusts, a) /\ ~Has(owed, a)
  BY <1>1, <1>2, CapsAre DEF Has, WritesFit, OwedFit
<1> QED  BY <1>3, <1>4, <1>5 DEF WritesFit

LEMMA HeardIs ==
    ASSUME NEW r \in Records, r.pend # None
    PROVE  /\ Confirmed(r) \in Records /\ Confirmed(r).cap = r.pend /\ Confirmed(r).age = 0
           /\ Confirmed(r).pend = None /\ Confirmed(r).claims = r.claims /\ Confirmed(r).doubtful = FALSE
           /\ r.cap = None => NotConfirmed(r) = NotKnown
           /\ r.cap # None => /\ NotConfirmed(r) \in Records /\ NotConfirmed(r).cap = r.cap
                              /\ NotConfirmed(r).age = r.age /\ NotConfirmed(r).pend = None
                              /\ NotConfirmed(r).claims = r.claims
                              /\ NotConfirmed(r).doubtful = TRUE
<1>1. /\ Confirmed(r) \in Records /\ Confirmed(r).cap = r.pend /\ Confirmed(r).age = 0
      /\ Confirmed(r).pend = None /\ Confirmed(r).claims = r.claims /\ Confirmed(r).doubtful = FALSE
  <2>1. Confirmed(r) = [r EXCEPT !.age = 0, !.cap = r.pend, !.pend = None, !.doubtful = FALSE]
    BY DEF Confirmed
  <2>2. Confirmed(r) = [claims |-> r.claims, age |-> 0, cap |-> r.pend, doubtful |-> FALSE, pend |-> None]
    BY <2>1 DEF Records
  <2>3. r.claims \in SUBSET Domains /\ r.pend \in Caps \cup {None} /\ 0 \in 0..2
    BY DEF Records
  <2> QED  BY <2>2, <2>3 DEF Records
<1>2. ASSUME r.cap # None
      PROVE  /\ NotConfirmed(r) \in Records /\ NotConfirmed(r).cap = r.cap
             /\ NotConfirmed(r).age = r.age /\ NotConfirmed(r).pend = None
             /\ NotConfirmed(r).claims = r.claims /\ NotConfirmed(r).doubtful = TRUE
  <2>1. NotConfirmed(r) = [r EXCEPT !.pend = None, !.doubtful = TRUE]
    BY <1>2 DEF NotConfirmed
  <2> QED  BY <2>1 DEF Records
<1>3. r.cap = None => NotConfirmed(r) = NotKnown
  BY DEF NotConfirmed
<1> QED  BY <1>1, <1>2, <1>3

LEMMA ToldStays ==
    ASSUME NEW w, NEW a, NEW r \in Records, NEW t \in Records, Same(r, t)
    PROVE  /\ Told(w, r, a).cap = Told(w, t, a).cap /\ Told(w, r, a).age = Told(w, t, a).age
           /\ Told(w, r, a).pend = Told(w, t, a).pend
<1>1. r.pend = t.pend /\ r.cap = t.cap /\ r.age = t.age
  BY DEF Same
<1>2. CASE r.pend = None \/ ~Carries(Flight(w), a)
  BY <1>1, <1>2 DEF Told
<1>3. CASE r.pend # None /\ Carries(Flight(w), a) /\ a \in Missed(w)
  <2>1. Told(w, r, a) = NotConfirmed(r) /\ Told(w, t, a) = NotConfirmed(t)
    BY <1>1, <1>3 DEF Told
  <2>2. CASE r.cap = None
    BY <1>1, <2>1, <2>2 DEF NotConfirmed
  <2>3. CASE r.cap # None
    <3>1. NotConfirmed(r).cap = r.cap /\ NotConfirmed(r).age = r.age /\ NotConfirmed(r).pend = None
      BY <1>3, <2>3, HeardIs
    <3>2. NotConfirmed(t).cap = t.cap /\ NotConfirmed(t).age = t.age /\ NotConfirmed(t).pend = None
      BY <1>1, <1>3, <2>3, HeardIs
    <3> QED  BY <1>1, <2>1, <3>1, <3>2
  <2> QED  BY <2>2, <2>3
<1>4. CASE r.pend # None /\ Carries(Flight(w), a) /\ a \notin Missed(w)
  <2>1. Told(w, r, a) = Confirmed(r) /\ Told(w, t, a) = Confirmed(t)
    BY <1>1, <1>4 DEF Told
  <2>2. Confirmed(r).cap = r.pend /\ Confirmed(r).age = 0 /\ Confirmed(r).pend = None
    BY <1>4, HeardIs
  <2>3. Confirmed(t).cap = t.pend /\ Confirmed(t).age = 0 /\ Confirmed(t).pend = None
    BY <1>1, <1>4, HeardIs
  <2> QED  BY <1>1, <2>1, <2>2, <2>3
<1> QED  BY <1>2, <1>3, <1>4

\* What is owed about an address after an operation, or when nothing changes it.
TakesUp(p, q, o, a) ==
    /\ \A w \in q.writes : w.addr = a => w \in p.writes \/ w \in o.writes
    /\ \A x \in q.removals : x.addr = a => x \in p.removals \/ x \in o.removals
    /\ Has(q, a) <=> Has(p, a) \/ \E w \in o.writes : w.addr = a
    /\ \A s : Asks(q, a, s) <=> Asks(p, a, s) \/ \E x \in o.removals : x.addr = a /\ x.struct = s
Stays(p, q, a) ==
    /\ \A w \in q.writes : w.addr = a => w \in p.writes
    /\ \A x \in q.removals : x.addr = a => x \in p.removals
    /\ Has(q, a) <=> Has(p, a)
    /\ \A s : Asks(q, a, s) <=> Asks(p, a, s)

-----------------------------------------------------------------------------
(* Domains: the steps *)

LEMMA DomainStarts == DomainInit => DomainInv
<1> SUFFICES ASSUME DomainInit PROVE DomainInv
  OBVIOUS
<1>1. /\ index = [a \in Addrs |-> NotKnown] /\ gate = TRUE
      /\ adjusts = Nothing /\ owed = Nothing
      /\ queued = NoBatch /\ writing = NoBatch /\ returned = <<>>
      /\ kernel = [a \in Addrs |-> [s \in Structs |-> Gone]] /\ astray = {}
  BY DEF DomainInit
<1>2. rows \in [Domains -> DomRows] /\ list = rows
  BY DomainAssumption DEF DomainInit, DomRows, Caps
<1>3. Nothing \in Owing /\ Nothing.writes = {} /\ Nothing.removals = {}
  BY DEF Nothing, Owing
<1>4. DomainShape
  <2>1. <<>> \in Seq(SUBSET RemovalRows)
    OBVIOUS
  <2>2. kernel \in [Addrs -> [Structs -> Elements]]
    BY <1>1 DEF Elements
  <2>3. index \in [Addrs -> Records]
    BY <1>1, NotKnownIs
  <2>4. adjusts \in Owing /\ owed \in Owing /\ returned \in Seq(SUBSET RemovalRows)
    BY <1>1, <1>3, <2>1
  <2>5. gate \in BOOLEAN /\ astray \subseteq Addrs
    BY <1>1
  <2> QED  BY <1>1, <1>2, <2>2, <2>3, <2>4, <2>5 DEF DomainShape
<1>5. Flight(writing) = NoBatch
  BY <1>1, FlightIs, NoBatchIs
<1>6. ASSUME NEW a \in Addrs PROVE RecordFit(index[a]) /\ Waits(a) /\ Tracked(a)
  <2>1. index[a] = NotKnown /\ index[a].pend = None /\ index[a].cap = None
    BY <1>1, <1>6, NotKnownIs
  <2>2. Rec(a) = index[a]
    BY <2>1 DEF Rec, Told
  <2>3. ~Has(adjusts, a) /\ ~Has(owed, a) /\ ~Carries(queued, a) /\ ~Carries(Flight(writing), a)
    BY <1>1, <1>3, <1>5, NoBatchIs DEF Has
  <2>4. WritesFit(a) /\ OneWrite(a)
    BY <1>1, <1>3, <1>5, <2>3, NoBatchIs DEF WritesFit, OneWrite, OwedFit, BatchFit
  <2>7. AgainIsNew(a)
    BY <2>1, <2>2 DEF AgainIsNew, Holds
  <2>5. \A s \in Structs : ~Present(a, s)
    BY <1>1 DEF Present, Gone
  <2>6. \A s \in Structs : ~Holds(Rec(a), s)
    BY <2>1, <2>2 DEF Holds
  <2> QED  BY <2>1, <2>4, <2>5, <2>6, <2>7, NotKnownIs DEF Waits, Tracked, NothingElse, Believed,
               MovesWhole, InOrder, LeavesSoon
<1>7. Backed(queued) /\ Backed(Flight(writing))
  BY <1>1, <1>5, NoBatchIs DEF Backed
<1>8. GateIsClosed
  BY <1>1 DEF GateIsClosed
<1> QED  BY <1>4, <1>6, <1>7, <1>8 DEF DomainInv

\* An address whose record says the same and that no step of its own touches.
LEMMA TrackedStays ==
    ASSUME NEW a \in Addrs, index[a] \in Records, index'[a] \in Records,
           Same(index[a], index'[a]), Tracked(a),
           UNCHANGED <<queued, writing, returned>>,
           Stays(adjusts, adjusts', a), Stays(owed, owed', a),
           \/ kernel'[a] = kernel[a] /\ (gate' => gate)
           \/ Rec(a).cap = None /\ \A s \in Structs : ~Present(a, s)'
    PROVE  Tracked(a)'
<1>1. WritesFit(a)'
  <2>1. OwedFit(adjusts', index'[a], a) /\ OwedFit(owed', index'[a], a)
    BY OwedFitStays DEF Tracked, WritesFit, Stays
  <2>2. BatchFit(queued', index'[a], a) /\ BatchFit(Flight(writing'), index'[a], a)
    BY BatchFitStays DEF Tracked, WritesFit
  <2> QED  BY <2>1, <2>2 DEF WritesFit
<1>2. /\ (Has(adjusts', a) <=> Has(adjusts, a)) /\ (Has(owed', a) <=> Has(owed, a))
      /\ \A s : Asks(adjusts', a, s) <=> Asks(adjusts, a, s)
      /\ \A s : Asks(owed', a, s) <=> Asks(owed, a, s)
  BY DEF Stays
<1>3. OneWrite(a)'
  BY <1>2 DEF Tracked, OneWrite
<1>4. Rec(a)'.cap = Rec(a).cap /\ Rec(a)'.age = Rec(a).age
  <2>1. writing' = writing
    OBVIOUS
  <2>2. /\ Told(writing, index'[a], a).cap = Told(writing, index[a], a).cap
        /\ Told(writing, index'[a], a).age = Told(writing, index[a], a).age
    BY ToldStays
  <2> QED  BY <2>1, <2>2 DEF Rec
<1>5. \A s : Holds(Rec(a)', s) <=> Holds(Rec(a), s)
  BY <1>4 DEF Holds
<1>6. \A s : Leaving(a, s)' <=> Leaving(a, s)
  BY <1>2 DEF Leaving
<1>7. index'[a].pend = index[a].pend /\ index'[a].age = index[a].age
  BY DEF Same
<1>13. ASSUME kernel'[a] = kernel[a], gate' => gate PROVE NothingElse(a)' /\ Believed(a)' /\ LeavesSoon(a)'
  <2>1. \A s : Present(a, s)' <=> Present(a, s)
    BY <1>13 DEF Present
  <2>2. NothingElse(a)'
    BY <1>4, <1>5, <1>6, <1>13, <2>1 DEF Tracked, NothingElse
  <2>3. Believed(a)'
    BY <1>4, <1>5, <1>7, <1>13, <2>1 DEF Tracked, Believed
  <2>4. LeavesSoon(a)'
    BY <1>4, <1>5, <1>13, <2>1 DEF Tracked, LeavesSoon
  <2> QED  BY <2>2, <2>3, <2>4
<1>14. ASSUME Rec(a).cap = None, \A s \in Structs : ~Present(a, s)' PROVE NothingElse(a)' /\ Believed(a)' /\ LeavesSoon(a)'
  <2>1. \A s \in Structs : ~Holds(Rec(a)', s)
    BY <1>4, <1>14 DEF Holds
  <2> QED  BY <1>14, <2>1 DEF NothingElse, Believed, LeavesSoon
<1>8. NothingElse(a)' /\ Believed(a)' /\ LeavesSoon(a)'
  BY <1>13, <1>14
<1>10. MovesWhole(a)'
  BY <1>2, <1>5 DEF Tracked, MovesWhole
<1>11. InOrder(a)'
  BY <1>2, <1>7 DEF Tracked, InOrder
<1>12. AgainIsNew(a)'
  <2>1. \A s : Again(adjusts'.removals, a, s) => Again(adjusts.removals, a, s)
    BY DEF Again, Stays
  <2>2. \A s : Again(owed'.removals, a, s) => Again(owed.removals, a, s)
    BY DEF Again, Stays
  <2>3. \A s : Tried(a, s)' => Tried(a, s)
    BY <2>1, <2>2 DEF Tried
  <2> QED  BY <1>4, <1>5, <2>3 DEF Tracked, AgainIsNew
<1> QED  BY <1>1, <1>3, <1>8, <1>10, <1>11, <1>12 DEF Tracked

\* The writes an outcome asks for fit its record.
LEMMA AskedWritesFit ==
    ASSUME NEW a \in Addrs, NEW r \in Records, NEW o, o.record \in Records,
           Requested(o, a, r) \/ Dropped(o, a, r) \/ Retaught(o, a, r),
           NEW p, NEW q, TakesUp(p, q, o, a), ~Has(p, a)
    PROVE  OwedFit(q, o.record, a)
<1>1. \A w \in q.writes : w.addr = a => w \in o.writes
  BY DEF TakesUp, Has
<1>2. ASSUME NEW w \in o.writes
      PROVE  /\ w.cap = o.record.pend /\ w.replace = (o.record.cap = o.record.pend)
             /\ o.record.cap # None /\ o.record.cap # o.record.pend => Asks(q, a, StructOf(o.record.cap))
  <2>1. CASE Requested(o, a, r)
    <3>1. w = Write(a, o.record.pend, o.record.pend = r.cap) /\ o.record.cap = r.cap
      BY <1>2, <2>1 DEF Requested
    <3>2. w.cap = o.record.pend /\ w.replace = (o.record.pend = r.cap)
      BY <3>1 DEF Write
    <3>3. w.replace = (o.record.cap = o.record.pend)
      BY <3>1, <3>2
    <3>4. ASSUME r.cap # None, r.cap # o.record.pend PROVE Asks(q, a, StructOf(r.cap))
      <4>1. o.removals = {Removal(a, r.cap)}
        BY <2>1, <3>4 DEF Requested, Leaves
      <4>2. Removal(a, r.cap).addr = a /\ Removal(a, r.cap).struct = StructOf(r.cap)
        BY DEF Removal
      <4> QED  BY <4>1, <4>2 DEF TakesUp
    <3> QED  BY <3>1, <3>2, <3>3, <3>4
  <2>2. CASE Dropped(o, a, r)
    BY <1>2, <2>2 DEF Dropped
  <2>3. CASE Retaught(o, a, r)
    <3>1. w = Write(a, o.record.pend, FALSE) /\ o.record.cap = None /\ o.record.pend # None
      BY <1>2, <2>3, CapsAre DEF Retaught
    <3>2. w.cap = o.record.pend /\ w.replace = FALSE
      BY <3>1 DEF Write
    <3> QED  BY <3>1, <3>2
  <2> QED  BY <2>1, <2>2, <2>3
<1> QED  BY <1>1, <1>2 DEF OwedFit

\* An address that waited for nothing is written, moved or dropped.
LEMMA ChangedTracks ==
    ASSUME DomainInv, NEW a \in Addrs, a \notin astray, index[a].pend = None,
           NEW o, Fit(o.record), index'[a] = o.record,
           Requested(o, a, index[a]) \/ Dropped(o, a, index[a]) \/ Retaught(o, a, index[a]),
           \/ TakesUp(adjusts, adjusts', o, a) /\ Stays(owed, owed', a)
           \/ TakesUp(owed, owed', o, a) /\ Stays(adjusts, adjusts', a) /\ \A s \in Structs : ~Asks(adjusts, a, s),
           UNCHANGED <<queued, writing, returned>>,
           \/ kernel'[a] = kernel[a] /\ (gate' => gate)
           \/ index[a].cap = None /\ \A s \in Structs : ~Present(a, s)'
    PROVE  Tracked(a)'
<1> DEFINE r == index[a]
           q == o.record
<1>1. Tracked(a) /\ DomainShape /\ r \in Records /\ q \in Records
  BY DEF DomainInv, DomainShape, Fit
<1>2. ~Has(adjusts, a) /\ ~Has(owed, a) /\ ~Carries(queued, a) /\ ~Carries(Flight(writing), a)
  BY <1>1, NoWriteUnasked DEF Tracked
<1>3. Rec(a) = r /\ Rec(a)' = q
  BY <1>2 DEF Rec, Told
<1>4. /\ o.writes \subseteq WriteRows /\ \A w \in o.writes : w.addr = a
      /\ \A x \in o.removals : /\ x.addr = a /\ r.cap # None
                               /\ x.struct = StructOf(r.cap) /\ x.tries = 0
  BY <1>1, OutcomeTypes
<1>5. q.cap = None \/ (q.cap = r.cap /\ q.age = r.age /\ q.pend \in Caps /\ Requested(o, a, r))
  BY NotKnownIs DEF Requested, Dropped, Retaught
<1>6. q.cap = None => r.cap = None \/ o.removals = Leaves(a, r)
  BY CapsAre DEF Requested, Dropped, Retaught
<1>7. ASSUME NEW p, NEW t, Stays(p, t, a), ~Has(p, a) PROVE ~Has(t, a) /\ OwedFit(t, q, a)
  BY <1>7 DEF Stays, Has, OwedFit
<1>8. WritesFit(a)'
  <2>1. ASSUME NEW p, NEW t, TakesUp(p, t, o, a), ~Has(p, a) PROVE OwedFit(t, q, a)
    BY <1>1, <2>1, AskedWritesFit DEF Fit
  <2>2. OwedFit(adjusts', q, a) /\ OwedFit(owed', q, a)
    BY <1>2, <1>7, <2>1
  <2>3. BatchFit(queued', q, a) /\ BatchFit(Flight(writing'), q, a)
    BY <1>2 DEF BatchFit, Carries
  <2> QED  BY <2>2, <2>3 DEF WritesFit
<1>9. ~Has(adjusts', a) \/ ~Has(owed', a)
  BY <1>2, <1>7
<1>10. OneWrite(a)'
  BY <1>2, <1>9 DEF OneWrite
<1>11. /\ ~Carries(queued', a) /\ ~Carries(Flight(writing'), a)
       /\ \A s : (Deletes(queued', a, s) <=> Deletes(queued, a, s)) /\ (Refused(writing', a, s) <=> Refused(writing, a, s))
       /\ \A s : (GivenBack(returned', a, s) <=> GivenBack(returned, a, s))
  BY <1>2
<1>12. \A s : (Asks(adjusts, a, s) => Asks(adjusts', a, s)) /\ (Asks(owed, a, s) => Asks(owed', a, s))
  BY DEF TakesUp, Stays
<1>13. \A s : Leaving(a, s) => Leaving(a, s)'
  BY <1>11, <1>12 DEF Leaving
<1>14. ASSUME NEW s \in Structs, Holds(r, s), q.cap = None PROVE Leaving(a, s)'
  <2>1. r.cap # None /\ s = StructOf(r.cap)
    BY <1>14 DEF Holds
  <2>2. o.removals = {Removal(a, r.cap)}
    BY <1>6, <1>14, <2>1 DEF Leaves
  <2>3. Removal(a, r.cap).addr = a /\ Removal(a, r.cap).struct = s
    BY <2>1 DEF Removal
  <2>4. \E x \in o.removals : x.addr = a /\ x.struct = s
    BY <2>2, <2>3
  <2>5. Asks(adjusts', a, s) \/ Asks(owed', a, s)
    BY <2>4 DEF TakesUp
  <2> QED  BY <2>5 DEF Leaving
<1> HIDE DEF r, q
<1>15. NothingElse(a)'
  <2>1. SUFFICES ASSUME gate', NEW s \in Structs, Present(a, s)', ~Leaving(a, s)'
                 PROVE  Holds(q, s) /\ kernel'[a][s].cap = q.cap
    BY <1>3 DEF NothingElse
  <2>2. kernel'[a] = kernel[a] /\ gate
    BY <2>1
  <2>3. Present(a, s) /\ ~Leaving(a, s)
    BY <1>13, <2>1, <2>2 DEF Present
  <2>4. Holds(r, s) /\ kernel[a][s].cap = r.cap
    BY <1>1, <1>3, <2>2, <2>3 DEF Tracked, NothingElse
  <2>5. q.cap = r.cap
    BY <1>5, <1>14, <2>1, <2>4 DEF Holds
  <2> QED  BY <2>2, <2>4, <2>5 DEF Holds
<1>16. ASSUME NEW s \in Structs, Holds(q, s)
       PROVE  /\ Holds(r, s) /\ q.cap = r.cap /\ q.age = r.age /\ kernel'[a] = kernel[a] /\ Requested(o, a, r)
              /\ Has(adjusts', a) \/ Has(owed', a)
  <2>1. q.cap # None
    BY <1>16 DEF Holds
  <2>2. q.cap = r.cap /\ q.age = r.age /\ Requested(o, a, r)
    BY <1>5, <2>1
  <2>3. o.writes # {}
    BY <2>2 DEF Requested
  <2>4. Has(adjusts', a) \/ Has(owed', a)
    BY <1>4, <2>3 DEF TakesUp
  <2> QED  BY <1>16, <2>1, <2>2, <2>4 DEF Holds, r
<1>17. Believed(a)'
  <2>1. \A s \in Structs : Holds(r, s) =>
        \/ /\ kernel[a][s].age = r.age
           /\ Present(a, s) => kernel[a][s].cap = r.cap
        \/ /\ r.age = 0 /\ r.age = 0
           /\ kernel[a][s].cap = r.cap /\ GivenBack(returned, a, s)
    BY <1>1, <1>3 DEF Tracked, Believed, r
  <2>2. index'[a].age = q.age
    BY DEF q
  <2> QED  BY <1>3, <1>11, <1>16, <2>1, <2>2 DEF Believed, Present
<1>18. MovesWhole(a)'
  <2>1. ASSUME NEW s \in Structs, Holds(q, s)
        PROVE  /\ ~Asks(adjusts, a, s) /\ ~Asks(owed, a, s) /\ ~Deletes(queued, a, s)
    BY <1>1, <1>2, <1>3, <1>16, <2>1 DEF Tracked, MovesWhole
  <2>2. ASSUME NEW s \in Structs, Holds(q, s)
        PROVE  /\ Asks(adjusts', a, s) => Has(adjusts', a)
               /\ Asks(owed', a, s) => Has(owed', a)
    BY <1>2, <1>7, <1>16, <2>1, <2>2 DEF TakesUp, Stays
  <2> QED  BY <1>3, <1>11, <2>1, <2>2 DEF MovesWhole
<1>19. InOrder(a)'
  <2>1. ASSUME NEW s \in Structs, Asks(adjusts', a, s) PROVE ~Has(owed', a)
    BY <1>2, <1>7, <2>1 DEF TakesUp, Stays
  <2> QED  BY <1>11, <2>1 DEF InOrder
<1>20. LeavesSoon(a)'
  <2>1. SUFFICES ASSUME gate', NEW s \in Structs, Present(a, s)', q.cap # None, ~Holds(q, s)
                 PROVE  q.age = 0
    BY <1>3 DEF LeavesSoon
  <2>2. kernel'[a] = kernel[a] /\ gate /\ q.cap = r.cap /\ q.age = r.age
    BY <1>5, <2>1
  <2>3. Present(a, s) /\ ~Holds(r, s) /\ r.cap # None
    BY <2>1, <2>2 DEF Present, Holds
  <2> QED  BY <1>1, <1>3, <2>2, <2>3 DEF Tracked, LeavesSoon
<1>21. AgainIsNew(a)'
  <2>1. ASSUME NEW p, NEW t, TakesUp(p, t, o, a) \/ Stays(p, t, a), NEW s, Again(t.removals, a, s)
        PROVE  Again(p.removals, a, s)
    BY <1>4, <2>1 DEF TakesUp, Stays, Again
  <2>2. \A s : Again(adjusts'.removals, a, s) => Again(adjusts.removals, a, s)
    BY <2>1
  <2>3. \A s : Again(owed'.removals, a, s) => Again(owed.removals, a, s)
    BY <2>1
  <2>4. \A s : Tried(a, s)' => Tried(a, s)
    BY <2>2, <2>3 DEF Tried
  <2> QED  BY <1>1, <1>3, <1>16, <2>4 DEF Tracked, AgainIsNew
<1> QED  BY <1>8, <1>10, <1>15, <1>17, <1>18, <1>19, <1>20, <1>21 DEF Tracked

\* What a change of the list makes one owe about an address is about it alone.
LEMMA AlvosOwe ==
    ASSUME DomainInv, NEW l \in [Domains -> DomRows], NEW E, DefineAlvos(l, E)
    PROVE  /\ adjusts' \in Owing
           /\ \A a \in Addrs : TakesUp(adjusts, adjusts', Reconciliado(l, a), a)
<1> DEFINE W == UNION {Reconciliado(l, b).writes : b \in Addrs}
           R == UNION {Reconciliado(l, b).removals : b \in Addrs}
<1>1. ASSUME NEW b \in Addrs
      PROVE  /\ Reconciliado(l, b).writes \subseteq WriteRows /\ Reconciliado(l, b).removals \subseteq RemovalRows
             /\ \A w \in Reconciliado(l, b).writes : w.addr = b
             /\ \A x \in Reconciliado(l, b).removals : x.addr = b /\ x.tries = 0
  <2> DEFINE o == Reconciliado(l, b)
             r == index[b]
  <2>1. list \in [Domains -> DomRows] /\ Fit(r) /\ r \in Records
    BY DEF DomainInv, DomainShape, Fit
  <2>2. Unmoved(o, r) \/ Requested(o, b, r) \/ Dropped(o, b, r) \/ Retaught(o, b, r)
    BY <2>1, ReconciliadoIs
  <2> HIDE DEF o, r
  <2>3. /\ o.writes \subseteq WriteRows /\ o.removals \subseteq RemovalRows
        /\ \A w \in o.writes : w.addr = b /\ w.cap = o.record.pend
        /\ \A x \in o.removals : /\ x.addr = b /\ r.cap # None
                                 /\ x.struct = StructOf(r.cap) /\ x.tries = 0
    BY <2>1, <2>2, OutcomeTypes
  <2> QED  BY <2>3 DEF o
<1>2. W \in SUBSET WriteRows /\ R \in SUBSET RemovalRows
  BY <1>1
<1>3. adjusts \in Owing /\ adjusts' = Acumula(adjusts, W, R)
  BY DEF DomainInv, DomainShape, DefineAlvos
<1>4. ASSUME NEW a \in Addrs
      PROVE  /\ \A w : w \in W /\ w.addr = a <=> w \in Reconciliado(l, a).writes
             /\ \A x : x \in R /\ x.addr = a <=> x \in Reconciliado(l, a).removals
  BY <1>1
<1> HIDE DEF W, R
<1> DEFINE q == Acumula(adjusts, W, R)
<1>6. Merged(adjusts, q, W, R)
  BY <1>2, <1>3, Accumulated
<1> HIDE DEF q
<1>5. adjusts' = q
  BY <1>3 DEF q
<1>7. ASSUME NEW a \in Addrs PROVE TakesUp(adjusts, q, Reconciliado(l, a), a)
  BY <1>1, <1>4, <1>6 DEF TakesUp, Merged
<1> QED  BY <1>5, <1>6, <1>7 DEF Merged

\* A change of the list, with what follows it in the same call.
LEMMA AlvosStep ==
    ASSUME DomainInv, NEW l \in [Domains -> DomRows], NEW E \in SUBSET Addrs, DefineAlvos(l, E),
           UNCHANGED <<owed, queued, writing, returned>>,
           rows' \in [Domains -> DomRows], gate' \in BOOLEAN, ~gate' => Active(l) = {},
           \/ kernel' = kernel /\ (gate' => gate)
           \/ kernel' = [a \in Addrs |-> [s \in Structs |-> Gone]] /\ (gate => E = Addrs)
    PROVE  DomainInv'
<1>1. /\ list' = l /\ index' = [a \in Addrs |-> Reconciliado(l, a).record]
      /\ astray' = astray \cup E \cup
               {a \in Addrs : /\ index[a].pend # None
                              /\ {index[a].cap, index[a].pend} # {CapEfetiva(l, index[a].claims)}}
  BY DEF DefineAlvos
<1>2. DomainShape /\ list \in [Domains -> DomRows] /\ astray \subseteq Addrs
  BY DEF DomainInv, DomainShape
<1>3. adjusts' \in Owing /\ \A a \in Addrs : TakesUp(adjusts, adjusts', Reconciliado(l, a), a)
  BY AlvosOwe
<1>4. ASSUME NEW a \in Addrs
      PROVE  /\ Fit(index[a]) /\ index[a] \in Records
             /\ Fit(index'[a]) /\ index'[a] = Reconciliado(l, a).record
             /\ \/ Unmoved(Reconciliado(l, a), index[a]) \/ Requested(Reconciliado(l, a), a, index[a])
                \/ Dropped(Reconciliado(l, a), a, index[a]) \/ Retaught(Reconciliado(l, a), a, index[a])
             /\ {index[a].cap, index[a].pend} = {CapEfetiva(l, index[a].claims)} /\ index[a].pend # None
                  => Unmoved(Reconciliado(l, a), index[a])
             /\ Active(l) = {} => index'[a] = NotKnown
  <2>1. Fit(index[a])
    BY DEF DomainInv, DomainShape, Fit
  <2>2. index'[a] = Reconciliado(l, a).record
    BY <1>1
  <2> QED  BY <1>2, <2>1, <2>2, ReconciliadoIs DEF Fit
<1>5. DomainShape'
  <2>1. index' \in [Addrs -> Records]
    BY <1>1, <1>4 DEF Fit
  <2>2. astray' \subseteq Addrs
    BY <1>1, <1>2
  <2>3. kernel' \in [Addrs -> [Structs -> Elements]]
    BY <1>2 DEF DomainShape, Elements
  <2> QED  BY <1>1, <1>2, <1>3, <2>1, <2>2, <2>3 DEF DomainShape
<1>6. ASSUME NEW a \in Addrs PROVE RecordFit(index[a])' /\ Waits(a)'
  <2>1. RecordFit(index'[a])
    BY <1>4 DEF Fit
  <2>2. CASE Unmoved(Reconciliado(l, a), index[a])
    <3>1. index'[a].pend = index[a].pend
      BY <1>4, <2>2 DEF Unmoved, Same
    <3>2. Has(adjusts, a) => Has(adjusts', a)
      BY <1>3 DEF TakesUp
    <3> QED  BY <2>1, <3>1, <3>2 DEF DomainInv, Waits
  <2>3. CASE Requested(Reconciliado(l, a), a, index[a]) \/ Retaught(Reconciliado(l, a), a, index[a])
    <3>3. \A c, b : Write(a, c, b).addr = a
      BY DEF Write
    <3>4. \E c, b : Reconciliado(l, a).writes = {Write(a, c, b)}
      BY <2>3 DEF Requested, Retaught
    <3>1. \E w \in Reconciliado(l, a).writes : w.addr = a
      BY <3>3, <3>4
    <3>2. Has(adjusts', a)
      BY <1>3, <3>1 DEF TakesUp
    <3> QED  BY <2>1, <3>2 DEF Waits
  <2>4. CASE Dropped(Reconciliado(l, a), a, index[a])
    <3>1. index'[a].pend = None
      BY <1>4, <2>4, NotKnownIs DEF Dropped
    <3> QED  BY <2>1, <3>1 DEF Waits
  <2> QED  BY <1>4, <2>2, <2>3, <2>4
<1>7. GateIsClosed'
  BY <1>1, <1>4 DEF GateIsClosed
<1>8. ASSUME NEW a \in Addrs \ astray' PROVE Tracked(a)'
  <2>1. a \in Addrs /\ a \notin astray /\ a \notin E /\ Tracked(a)
    BY <1>1, <1>8 DEF DomainInv
  <2>2. index[a].pend = None \/ Unmoved(Reconciliado(l, a), index[a])
    BY <1>1, <1>4, <1>8
  <2>3. \/ kernel'[a] = kernel[a] /\ (gate' => gate)
        \/ index[a].cap = None /\ index[a].pend = None /\ \A s \in Structs : ~Present(a, s)'
    <3>1. CASE kernel' = kernel /\ (gate' => gate)
      BY <3>1
    <3>2. CASE kernel' = [b \in Addrs |-> [s \in Structs |-> Gone]] /\ (gate => E = Addrs)
      <4>1. ~gate /\ index[a] = NotKnown
        BY <2>1, <3>2 DEF DomainInv, GateIsClosed
      <4>2. \A s \in Structs : kernel'[a][s].cap = None
        BY <2>1, <3>2 DEF Gone
      <4> QED  BY <4>1, <4>2, NotKnownIs DEF Present
    <3> QED  BY <3>1, <3>2
  <2>4. CASE Unmoved(Reconciliado(l, a), index[a])
    <3>1. Same(index[a], index'[a])
      BY <1>4, <2>1, <2>4 DEF Unmoved
    <3>2. Reconciliado(l, a).writes = {} /\ Reconciliado(l, a).removals = {}
      BY <2>4 DEF Unmoved
    <3>3. Stays(adjusts, adjusts', a) /\ Stays(owed, owed', a)
      BY <1>3, <2>1, <3>2 DEF TakesUp, Stays
    <3>4. Rec(a).cap = None \/ (kernel'[a] = kernel[a] /\ (gate' => gate))
      BY <2>3 DEF Rec, Told
    <3>5. index[a] \in Records /\ index'[a] \in Records
      BY <1>4, <2>1 DEF Fit
    <3> QED  BY <2>1, <2>3, <3>1, <3>3, <3>4, <3>5, TrackedStays
  <2>5. CASE index[a].pend = None /\ ~Unmoved(Reconciliado(l, a), index[a])
    <3>1. /\ Fit(Reconciliado(l, a).record) /\ index'[a] = Reconciliado(l, a).record
          /\ \/ Requested(Reconciliado(l, a), a, index[a]) \/ Dropped(Reconciliado(l, a), a, index[a])
             \/ Retaught(Reconciliado(l, a), a, index[a])
      BY <1>4, <2>1, <2>5
    <3>2. TakesUp(adjusts, adjusts', Reconciliado(l, a), a) /\ Stays(owed, owed', a)
      BY <1>3, <2>1 DEF Stays
    <3> QED  BY <2>1, <2>3, <2>5, <3>1, <3>2, ChangedTracks
  <2> QED  BY <2>2, <2>4, <2>5
<1>9. Backed(queued)' /\ Backed(Flight(writing))'
  BY DEF DomainInv, Backed
<1> QED  BY <1>5, <1>6, <1>7, <1>8, <1>9 DEF DomainInv

-----------------------------------------------------------------------------
(* Domains: the steps of the coordinator and of the loop *)

\* Nothing about the addresses changes.
LEMMA QuietStep ==
    ASSUME DomainInv, rows' \in [Domains -> DomRows],
           UNCHANGED <<gate, list, index, pipeVars, kernel, astray>>
    PROVE  DomainInv'
<1>1. /\ gate' = gate /\ list' = list /\ index' = index /\ kernel' = kernel /\ astray' = astray
      /\ adjusts' = adjusts /\ owed' = owed /\ queued' = queued /\ writing' = writing
      /\ returned' = returned
  BY DEF pipeVars
<1>2. DomainShape'
  BY <1>1 DEF DomainInv, DomainShape
<1>3. ASSUME NEW a \in Addrs \ astray' PROVE Tracked(a)'
  <2>1. a \in Addrs /\ index[a] \in Records /\ Tracked(a) /\ index'[a] = index[a]
    BY <1>1, <1>3 DEF DomainInv, DomainShape
  <2>2. Same(index[a], index'[a]) /\ Stays(adjusts, adjusts', a) /\ Stays(owed, owed', a)
    BY <1>1, <2>1 DEF Same, Stays
  <2> QED  BY <1>1, <2>1, <2>2, TrackedStays
<1>4. ASSUME NEW a \in Addrs PROVE RecordFit(index[a])' /\ Waits(a)'
  BY <1>1 DEF DomainInv, Waits
<1>5. Backed(queued)' /\ Backed(Flight(writing))' /\ GateIsClosed'
  BY <1>1 DEF DomainInv, Backed, GateIsClosed
<1> QED  BY <1>2, <1>3, <1>4, <1>5 DEF DomainInv

LEMMA ResolveIs ==
    ASSUME NEW r \in [Domains -> DomRows], NEW u, NEW g
    PROVE  /\ Resolve(r, u, g) \in [Domains -> DomRows]
           /\ g = FALSE => Active(Resolve(r, u, g)) = {}
  BY CapsAre DEF Resolve, DomRows, Active

LEMMA EditRowStep ==
    ASSUME DomainInv, NEW d \in Domains, EditRow(d)
    PROVE  DomainInv'
<1>1. PICK v \in ({"absent", "trial"} \cup Caps) \ {rows[d]} : rows' = [rows EXCEPT ![d] = v]
  BY DEF EditRow
<1>2. rows' \in [Domains -> DomRows]
  BY <1>1 DEF DomainInv, DomainShape, DomRows
<1>3. /\ gate' = gate /\ kernel' = kernel /\ owed' = owed /\ queued' = queued /\ writing' = writing
      /\ returned' = returned
  BY DEF EditRow
<1>4. CASE DefineAlvos(Resolve(rows', usable, gate), {})
  <2>1. gate \in BOOLEAN
    BY DEF DomainInv, DomainShape
  <2>2. /\ Resolve(rows', usable, gate) \in [Domains -> DomRows]
        /\ ~gate => Active(Resolve(rows', usable, gate)) = {}
    BY <1>2, <2>1, ResolveIs
  <2> QED  BY <1>2, <1>3, <1>4, <2>1, <2>2, AlvosStep
<1>5. CASE UNCHANGED <<indexVars, adjusts, astray>>
  BY <1>2, <1>3, <1>5, QuietStep DEF indexVars, pipeVars
<1> QED  BY <1>4, <1>5 DEF EditRow

LEMMA ReconcileStep ==
    ASSUME DomainInv, Reconcile
    PROVE  DomainInv'
<1>1. /\ DefineAlvos(Resolve(rows, usable, gate), {})
      /\ rows' = rows /\ gate' = gate /\ kernel' = kernel /\ owed' = owed /\ queued' = queued
      /\ writing' = writing /\ returned' = returned
  BY DEF Reconcile
<1>2. gate \in BOOLEAN /\ rows \in [Domains -> DomRows]
  BY DEF DomainInv, DomainShape
<1>3. /\ Resolve(rows, usable, gate) \in [Domains -> DomRows]
      /\ ~gate => Active(Resolve(rows, usable, gate)) = {}
  BY <1>2, ResolveIs
<1> QED  BY <1>1, <1>2, <1>3, AlvosStep

LEMMA ProvisionaStep ==
    ASSUME DomainInv, Provisiona
    PROVE  DomainInv'
<1> DEFINE E == IF gate THEN Addrs ELSE {}
<1>1. /\ kernel' = [a \in Addrs |-> [s \in Structs |-> Gone]] /\ gate' = TRUE
      /\ DefineAlvos(Resolve(rows, usable, TRUE), E)
      /\ rows' = rows /\ owed' = owed /\ queued' = queued
      /\ writing' = writing /\ returned' = returned
  BY DEF Provisiona
<1>2. rows \in [Domains -> DomRows] /\ E \in SUBSET Addrs /\ (gate => E = Addrs)
  BY DEF DomainInv, DomainShape
<1>3. Resolve(rows, usable, TRUE) \in [Domains -> DomRows]
  BY <1>2, ResolveIs
<1> HIDE DEF E
<1> QED  BY <1>1, <1>2, <1>3, AlvosStep

LEMMA SeguraStep ==
    ASSUME DomainInv, Segura
    PROVE  DomainInv'
<1>1. /\ kernel' = kernel /\ gate' = FALSE
      /\ DefineAlvos(Resolve(rows, usable, FALSE), {})
      /\ rows' = rows /\ owed' = owed /\ queued' = queued
      /\ writing' = writing /\ returned' = returned
  BY DEF Segura
<1>2. rows \in [Domains -> DomRows]
  BY DEF DomainInv, DomainShape
<1>3. /\ Resolve(rows, usable, FALSE) \in [Domains -> DomRows]
      /\ Active(Resolve(rows, usable, FALSE)) = {}
  BY <1>2, ResolveIs
<1> QED  BY <1>1, <1>2, <1>3, AlvosStep

LEMMA DomainRestartStep ==
    ASSUME DomainInv, DomainRestart
    PROVE  DomainInv'
<1>1. /\ gate' = FALSE /\ list' = Resolve(rows, usable, FALSE)
      /\ index' = [a \in Addrs |-> NotKnown]
      /\ adjusts' = Nothing /\ owed' = Nothing
      /\ queued' = NoBatch /\ writing' = NoBatch /\ returned' = <<>>
      /\ rows' = rows /\ kernel' = kernel /\ astray' = astray
  BY DEF DomainRestart
<1>2. list' \in [Domains -> DomRows] /\ Active(list') = {}
  BY <1>1, ResolveIs DEF DomainInv, DomainShape
<1>3. Nothing \in Owing /\ Nothing.writes = {} /\ Nothing.removals = {}
  BY DEF Nothing, Owing
<1>4. DomainShape'
  <2>1. <<>> \in Seq(SUBSET RemovalRows)
    OBVIOUS
  <2>2. kernel' \in [Addrs -> [Structs -> Elements]] /\ rows' \in [Domains -> DomRows]
        /\ astray' \subseteq Addrs
    BY <1>1 DEF DomainInv, DomainShape
  <2>3. index' \in [Addrs -> Records]
    BY <1>1, NotKnownIs
  <2>4. adjusts' \in Owing /\ owed' \in Owing /\ returned' \in Seq(SUBSET RemovalRows)
    BY <1>1, <1>3, <2>1
  <2>5. gate' \in BOOLEAN /\ queued' \in {NoBatch} \cup Batches /\ writing' \in {NoBatch} \cup AnswerRows
    BY <1>1
  <2> QED  BY <1>2, <2>2, <2>3, <2>4, <2>5 DEF DomainShape
<1>5. Flight(writing') = NoBatch
  BY <1>1, FlightIs, NoBatchIs
<1>6. ASSUME NEW a \in Addrs PROVE RecordFit(index[a])' /\ Waits(a)' /\ Tracked(a)'
  <2>1. index'[a] = NotKnown /\ index'[a].pend = None /\ index'[a].cap = None
    BY <1>1, <1>6, NotKnownIs
  <2>2. Rec(a)' = index'[a]
    BY <2>1 DEF Rec, Told
  <2>3. ~Has(adjusts', a) /\ ~Has(owed', a) /\ ~Carries(queued', a) /\ ~Carries(Flight(writing'), a)
    BY <1>1, <1>3, <1>5, NoBatchIs DEF Has
  <2>4. WritesFit(a)' /\ OneWrite(a)'
    BY <1>1, <1>3, <1>5, <2>3, NoBatchIs DEF WritesFit, OneWrite, OwedFit, BatchFit
  <2>5. \A s \in Structs : ~Holds(Rec(a)', s)
    BY <2>1, <2>2 DEF Holds
  <2>6. NothingElse(a)' /\ LeavesSoon(a)'
    BY <1>1 DEF NothingElse, LeavesSoon
  <2>7. Believed(a)' /\ MovesWhole(a)' /\ AgainIsNew(a)'
    BY <2>5 DEF Believed, MovesWhole, AgainIsNew
  <2>8. InOrder(a)' /\ Waits(a)'
    BY <2>1 DEF InOrder, Waits
  <2> QED  BY <2>1, <2>4, <2>6, <2>7, <2>8, NotKnownIs DEF Tracked
<1>7. Backed(queued') /\ Backed(Flight(writing'))
  BY <1>1, <1>5, NoBatchIs DEF Backed
<1>8. GateIsClosed'
  BY <1>1, <1>2 DEF GateIsClosed
<1> QED  BY <1>4, <1>6, <1>7, <1>8 DEF DomainInv

\* DNS teaches an address to an active domain.
LEMMA AprendeStep ==
    ASSUME DomainInv, NEW d \in Domains, NEW a \in Addrs, Aprende(d, a)
    PROVE  DomainInv'
<1> DEFINE o == Absorve(d, a)
           r == index[a]
<1>1. /\ list[d] \in Caps /\ index' = [index EXCEPT ![a] = o.record]
      /\ owed' = Acumula(owed, o.writes, o.removals)
      /\ astray' = astray \cup (IF \E x \in adjusts.removals : x.addr = a THEN {a} ELSE {})
      /\ rows' = rows /\ gate' = gate /\ list' = list /\ adjusts' = adjusts /\ queued' = queued
      /\ writing' = writing /\ returned' = returned /\ kernel' = kernel
  BY DEF Aprende
<1>2. DomainShape /\ Fit(r) /\ r \in Records /\ list \in [Domains -> DomRows] /\ owed \in Owing
      /\ index \in [Addrs -> Records] /\ astray \subseteq Addrs
  BY DEF DomainInv, DomainShape, Fit
<1>3. Fit(o.record) /\ (Unmoved(o, r) \/ (r.pend = None /\ Requested(o, a, r)))
  BY <1>1, <1>2, AbsorveIs
<1> HIDE DEF o, r
<1>4. /\ o.writes \subseteq WriteRows /\ o.removals \subseteq RemovalRows
      /\ \A w \in o.writes : w.addr = a
      /\ \A x \in o.removals : x.addr = a
  BY <1>2, <1>3, OutcomeTypes
<1>5. Merged(owed, owed', o.writes, o.removals)
  BY <1>1, <1>2, <1>4, Accumulated
<1>6. TakesUp(owed, owed', o, a)
  BY <1>5 DEF Merged, TakesUp
<1>7. \A b \in Addrs : b # a => Stays(owed, owed', b)
  BY <1>4, <1>5 DEF Merged, Stays
<1>8. index'[a] = o.record /\ \A b \in Addrs : b # a => index'[b] = index[b]
  BY <1>1, <1>2
<1>9. DomainShape'
  <2>1. index' \in [Addrs -> Records]
    BY <1>1, <1>2, <1>3 DEF Fit
  <2>2. owed' \in Owing
    BY <1>5 DEF Merged
  <2>3. astray' \subseteq Addrs
    BY <1>1, <1>2
  <2> QED  BY <1>1, <1>2, <2>1, <2>2, <2>3 DEF DomainShape
<1>10. \A b : Has(owed, b) => Has(owed', b)
  BY <1>5 DEF Merged
<1>11. ASSUME NEW b \in Addrs PROVE RecordFit(index[b])' /\ Waits(b)'
  <2>1. CASE b # a
    BY <1>1, <1>8, <1>10, <2>1 DEF DomainInv, Waits
  <2>2. CASE b = a /\ Unmoved(o, r)
    <3>1. index'[a].pend = index[a].pend
      BY <1>8, <2>2 DEF Unmoved, Same, r
    <3> QED  BY <1>1, <1>3, <1>8, <1>10, <2>2, <3>1 DEF DomainInv, Waits, Fit
  <2>3. CASE b = a /\ Requested(o, a, r)
    <3>1. o.writes # {}
      BY <2>3 DEF Requested
    <3>2. Has(owed', a)
      BY <1>4, <1>6, <3>1 DEF TakesUp
    <3> QED  BY <1>3, <1>8, <2>3, <3>2 DEF Waits, Fit
  <2> QED  BY <1>3, <2>1, <2>2, <2>3
<1>12. GateIsClosed'
  <2>1. gate
    BY <1>1 DEF DomainInv, GateIsClosed, Active
  <2> QED  BY <1>1, <2>1 DEF GateIsClosed
<1>13. Backed(queued)' /\ Backed(Flight(writing))'
  BY <1>1 DEF DomainInv, Backed
<1>14. \A b : Stays(adjusts, adjusts', b)
  BY <1>1 DEF Stays
<1>15. ASSUME NEW b \in Addrs \ astray' PROVE Tracked(b)'
  <2>1. b \in Addrs /\ b \notin astray /\ Tracked(b) /\ index[b] \in Records /\ index'[b] \in Records
    BY <1>1, <1>2, <1>9, <1>15 DEF DomainInv, DomainShape
  <2>2. CASE b # a
    <3>1. Same(index[b], index'[b])
      BY <1>8, <2>1, <2>2 DEF Same
    <3> QED  BY <1>1, <1>7, <1>14, <2>1, <2>2, <3>1, TrackedStays
  <2>3. CASE b = a /\ Unmoved(o, r)
    <3>1. Same(index[a], index'[a])
      BY <1>8, <2>3 DEF Unmoved, r
    <3>2. Stays(owed, owed', a)
      BY <1>6, <2>3 DEF TakesUp, Stays, Unmoved
    <3> QED  BY <1>1, <1>14, <2>1, <2>3, <3>1, <3>2, TrackedStays
  <2>4. CASE b = a /\ r.pend = None /\ Requested(o, a, r)
    <3>1. \A s \in Structs : ~Asks(adjusts, a, s)
      BY <1>1, <1>15, <2>4 DEF Asks
    <3> QED  BY <1>1, <1>3, <1>6, <1>8, <1>14, <2>1, <2>4, <3>1, ChangedTracks DEF r
  <2> QED  BY <1>3, <2>2, <2>3, <2>4
<1> QED  BY <1>9, <1>11, <1>12, <1>13, <1>15 DEF DomainInv

LEMMA DrenaAjustesStep ==
    ASSUME DomainInv, DrenaAjustes
    PROVE  DomainInv'
<1>1. /\ owed' = Acumula(owed, adjusts.writes, adjusts.removals) /\ adjusts' = Nothing
      /\ rows' = rows /\ gate' = gate /\ list' = list /\ index' = index /\ queued' = queued
      /\ writing' = writing /\ returned' = returned /\ kernel' = kernel /\ astray' = astray
  BY DEF DrenaAjustes, indexVars
<1>2. /\ DomainShape /\ owed \in Owing /\ adjusts.writes \in SUBSET WriteRows
      /\ adjusts.removals \in SUBSET RemovalRows
  BY DEF DomainInv, DomainShape, Owing
<1>3. Merged(owed, owed', adjusts.writes, adjusts.removals)
  BY <1>1, <1>2, Accumulated
<1>4. Nothing \in Owing /\ Nothing.writes = {} /\ Nothing.removals = {}
  BY DEF Nothing, Owing
<1>5. /\ \A w \in owed'.writes : w \in owed.writes \/ w \in adjusts.writes
      /\ \A x \in owed'.removals : x \in owed.removals \/ x \in adjusts.removals
      /\ \A a : Has(owed', a) <=> Has(owed, a) \/ Has(adjusts, a)
      /\ \A a : \A s : Asks(owed', a, s) <=> Asks(owed, a, s) \/ Asks(adjusts, a, s)
  BY <1>3 DEF Merged, Has, Asks
<1>6. /\ \A a : ~Has(adjusts', a)
      /\ \A a : \A s : ~Asks(adjusts', a, s) /\ ~Again(adjusts'.removals, a, s)
  BY <1>1, <1>4 DEF Has, Asks, Again
<1>7. DomainShape'
  BY <1>1, <1>2, <1>3, <1>4 DEF DomainShape, Merged
<1>8. ASSUME NEW a \in Addrs PROVE RecordFit(index[a])' /\ Waits(a)'
  BY <1>1, <1>5 DEF DomainInv, Waits
<1>9. Backed(queued)' /\ Backed(Flight(writing))' /\ GateIsClosed'
  BY <1>1 DEF DomainInv, Backed, GateIsClosed
<1>10. ASSUME NEW a \in Addrs \ astray' PROVE Tracked(a)'
  <2>1. a \in Addrs /\ Tracked(a) /\ index'[a] = index[a] /\ Rec(a)' = Rec(a)
    BY <1>1, <1>10 DEF DomainInv, Rec
  <2>2. WritesFit(a)'
    <3>1. OwedFit(owed', index[a], a)
      BY <1>5, <2>1 DEF Tracked, WritesFit, OwedFit
    <3>2. OwedFit(adjusts', index[a], a)
      BY <1>1, <1>4 DEF OwedFit
    <3>3. BatchFit(queued', index[a], a) /\ BatchFit(Flight(writing'), index[a], a)
      BY <1>1, <2>1 DEF Tracked, WritesFit
    <3> QED  BY <2>1, <3>1, <3>2, <3>3 DEF WritesFit
  <2>3. OneWrite(a)'
    BY <1>1, <1>5, <1>6, <2>1 DEF Tracked, OneWrite
  <2>4. \A s : Leaving(a, s)' <=> Leaving(a, s)
    BY <1>1, <1>5, <1>6 DEF Leaving
  <2>5. NothingElse(a)' /\ LeavesSoon(a)'
    BY <1>1, <2>1, <2>4 DEF Tracked, NothingElse, LeavesSoon, Present
  <2>6. Believed(a)'
    BY <1>1, <2>1 DEF Tracked, Believed, Present
  <2>7. MovesWhole(a)'
    BY <1>1, <1>5, <1>6, <2>1 DEF Tracked, MovesWhole
  <2>8. InOrder(a)'
    BY <1>1, <1>5, <1>6, <2>1 DEF Tracked, InOrder
  <2>9. AgainIsNew(a)'
    <3>1. \A s : Again(owed'.removals, a, s) => Again(owed.removals, a, s) \/ Again(adjusts.removals, a, s)
      BY <1>5 DEF Again
    <3>2. \A s : Tried(a, s)' => Tried(a, s)
      BY <1>1, <1>6, <3>1 DEF Tried
    <3> QED  BY <2>1, <3>2 DEF Tracked, AgainIsNew
  <2> QED  BY <2>2, <2>3, <2>5, <2>6, <2>7, <2>8, <2>9 DEF Tracked
<1> QED  BY <1>7, <1>8, <1>9, <1>10 DEF DomainInv

\* The loop hands what it owes to the writer.
LEMMA DescarregaStep ==
    ASSUME DomainInv, Descarrega
    PROVE  DomainInv'
<1>1. PICK back \in SUBSET owed.removals :
         /\ {r.addr : r \in back} = {r.addr : r \in owed.removals}
         /\ queued' = Batch(back)
  BY DEF Descarrega
<1>2. /\ ~queued.busy /\ owed' = Nothing
      /\ rows' = rows /\ gate' = gate /\ list' = list /\ index' = index /\ adjusts' = adjusts
      /\ writing' = writing /\ returned' = returned /\ kernel' = kernel /\ astray' = astray
  BY DEF Descarrega, indexVars
<1>3. DomainShape /\ owed.writes \subseteq WriteRows /\ owed.removals \subseteq RemovalRows
  BY DEF DomainInv, DomainShape, Owing
<1>4. Nothing \in Owing /\ Nothing.writes = {} /\ Nothing.removals = {}
  BY DEF Nothing, Owing
<1>5. /\ queued'.busy = TRUE /\ queued'.back = back
      /\ queued'.adds = {[addr |-> w.addr, cap |-> w.cap] : w \in owed.writes}
      /\ queued'.dels = {<<r.addr, r.struct>> : r \in owed.removals} \cup
              {<<w.addr, StructOf(w.cap)>> : w \in {x \in owed.writes : x.replace}}
  BY <1>1 DEF Batch
<1>6. \A a : Carries(queued', a) <=> Has(owed, a)
  <2>1. \A w \in owed.writes : \E x \in queued'.adds : x.addr = w.addr
    <3>1. ASSUME NEW w \in owed.writes PROVE \E x \in queued'.adds : x.addr = w.addr
      <4>1. [addr |-> w.addr, cap |-> w.cap] \in queued'.adds
        BY <1>5
      <4> QED  BY <4>1
    <3> QED  BY <3>1
  <2>2. \A x \in queued'.adds : \E w \in owed.writes : x.addr = w.addr
    BY <1>5
  <2> QED  BY <1>5, <2>1, <2>2 DEF Carries, Has
<1>7. \A a, s : Deletes(queued', a, s) <=>
          Asks(owed, a, s) \/ \E w \in owed.writes : w.replace /\ w.addr = a /\ StructOf(w.cap) = s
  BY <1>5 DEF Deletes, Asks
<1>8. \A a, s : Asks(owed, a, s) => Returns(queued', a)
  BY <1>1, <1>5 DEF Returns, Asks
<1>9. \A a, s : ~Carries(queued, a) /\ ~Deletes(queued, a, s)
  BY <1>2 DEF Carries, Deletes
<1>10. /\ \A a : ~Has(owed', a)
       /\ \A a : \A s : ~Asks(owed', a, s) /\ ~Again(owed'.removals, a, s)
  BY <1>2, <1>4 DEF Has, Asks, Again
<1>11. queued' \in Batches
  <2>1. queued' = [busy |-> TRUE, adds |-> queued'.adds, dels |-> queued'.dels, back |-> back]
    BY <1>1, <1>5 DEF Batch
  <2>2. queued'.adds \subseteq [addr : Addrs, cap : Caps]
    BY <1>3, <1>5 DEF WriteRows
  <2>3. queued'.dels \subseteq Addrs \X Structs
    BY <1>3, <1>5, CapsAre DEF WriteRows, RemovalRows
  <2>4. back \subseteq RemovalRows
    BY <1>1, <1>3
  <2>5. \A A \in SUBSET [addr : Addrs, cap : Caps] : \A D \in SUBSET (Addrs \X Structs) :
           \A B \in SUBSET RemovalRows : [busy |-> TRUE, adds |-> A, dels |-> D, back |-> B] \in Batches
    BY DEF Batches
  <2> QED  BY <2>1, <2>2, <2>3, <2>4, <2>5
<1>12. DomainShape'
  BY <1>2, <1>3, <1>4, <1>11 DEF DomainShape
<1>13. ASSUME NEW a \in Addrs PROVE RecordFit(index[a])' /\ Waits(a)'
  BY <1>2, <1>6, <1>9 DEF DomainInv, Waits
<1>14. Backed(queued)' /\ Backed(Flight(writing))' /\ GateIsClosed'
  <2>1. ASSUME NEW a, NEW s, Deletes(queued', a, s) PROVE Carries(queued', a) \/ Returns(queued', a)
    BY <1>6, <1>7, <1>8, <2>1 DEF Has
  <2> QED  BY <1>2, <2>1 DEF DomainInv, Backed, GateIsClosed
<1>15. ASSUME NEW a \in Addrs \ astray' PROVE Tracked(a)'
  <2>1. a \in Addrs /\ Tracked(a) /\ index'[a] = index[a] /\ Rec(a)' = Rec(a)
    BY <1>2, <1>15 DEF DomainInv, Rec
  <2>2. BatchFit(queued', index[a], a)
    <3>1. SUFFICES ASSUME NEW x \in queued'.adds, x.addr = a
                   PROVE  /\ x.cap = index[a].pend
                          /\ index[a].cap # None => Deletes(queued', a, StructOf(index[a].cap))
      BY DEF BatchFit
    <3>2. PICK w \in owed.writes : w.addr = a /\ w.cap = x.cap
      BY <1>5, <3>1
    <3>3. /\ w.cap = index[a].pend /\ w.replace = (index[a].cap = index[a].pend)
          /\ index[a].cap # None /\ index[a].cap # index[a].pend => Asks(owed, a, StructOf(index[a].cap))
      BY <2>1, <3>2 DEF Tracked, WritesFit, OwedFit
    <3>4. CASE index[a].cap = index[a].pend
      <4>1. w.replace
        BY <3>3, <3>4
      <4> QED  BY <1>7, <3>2, <3>3, <3>4, <4>1
    <3>5. CASE index[a].cap # index[a].pend
      BY <1>7, <3>2, <3>3, <3>5
    <3> QED  BY <3>4, <3>5
  <2>3. WritesFit(a)'
    <3>1. OwedFit(owed', index[a], a)
      BY <1>2, <1>4 DEF OwedFit
    <3>2. OwedFit(adjusts', index[a], a) /\ BatchFit(Flight(writing'), index[a], a)
      BY <1>2, <2>1 DEF Tracked, WritesFit
    <3> QED  BY <2>1, <2>2, <3>1, <3>2 DEF WritesFit
  <2>4. OneWrite(a) /\ InOrder(a) /\ MovesWhole(a)
    BY <2>1 DEF Tracked
  <2>5. OneWrite(a)'
    BY <1>2, <1>6, <1>10, <2>4 DEF OneWrite
  <2>6. \A s : Leaving(a, s) => Leaving(a, s)'
    BY <1>2, <1>7, <1>9 DEF Leaving
  <2>7. NothingElse(a)' /\ LeavesSoon(a)'
    BY <1>2, <2>1, <2>6 DEF Tracked, NothingElse, LeavesSoon, Present
  <2>8. Believed(a)'
    BY <1>2, <2>1 DEF Tracked, Believed, Present
  <2>9. \A s : Deletes(queued', a, s) => Asks(owed, a, s) \/ Has(owed, a)
    BY <1>7 DEF Has
  <2>10. MovesWhole(a)'
    BY <1>2, <1>6, <1>10, <2>1, <2>4, <2>9 DEF MovesWhole
  <2>11. InOrder(a)'
    BY <1>2, <1>6, <1>10, <2>1, <2>4, <2>9 DEF InOrder, OneWrite
  <2>12. AgainIsNew(a)'
    <3>1. \A s : TriedOf(queued', a, s) => Again(owed.removals, a, s)
      BY <1>1, <1>5 DEF TriedOf, Again
    <3>2. \A s : Tried(a, s)' => Tried(a, s)
      BY <1>2, <1>10, <3>1 DEF Tried
    <3> QED  BY <2>1, <3>2 DEF Tracked, AgainIsNew
  <2> QED  BY <2>3, <2>5, <2>7, <2>8, <2>10, <2>11, <2>12 DEF Tracked
<1> QED  BY <1>12, <1>13, <1>14, <1>15 DEF DomainInv

\* What comes back is what came back first and the rest.
LEMMA ReturnedIs ==
    ASSUME NEW ret \in Seq(SUBSET RemovalRows), ret # <<>>
    PROVE  /\ Head(ret) \in SUBSET RemovalRows /\ Tail(ret) \in Seq(SUBSET RemovalRows)
           /\ \A i \in DOMAIN ret : ret[i] = Head(ret) \/ \E j \in DOMAIN Tail(ret) : Tail(ret)[j] = ret[i]
           /\ \A j \in DOMAIN Tail(ret) : \E i \in DOMAIN ret : ret[i] = Tail(ret)[j]
<1>1. /\ Head(ret) \in SUBSET RemovalRows /\ Tail(ret) \in Seq(SUBSET RemovalRows)
      /\ Len(ret) \in Nat \ {0} /\ Len(Tail(ret)) = Len(ret) - 1
      /\ DOMAIN ret = 1..Len(ret) /\ DOMAIN Tail(ret) = 1..Len(Tail(ret))
  OBVIOUS
<1>2. Head(ret) = ret[1] /\ \A j \in 1..(Len(ret) - 1) : Tail(ret)[j] = ret[j + 1]
  OBVIOUS
<1>3. ASSUME NEW i \in DOMAIN ret
      PROVE  ret[i] = Head(ret) \/ \E j \in DOMAIN Tail(ret) : Tail(ret)[j] = ret[i]
  <2>1. CASE i = 1
    BY <1>2, <2>1
  <2>2. CASE i # 1
    <3>1. i - 1 \in DOMAIN Tail(ret) /\ Tail(ret)[i - 1] = ret[i]
      BY <1>1, <1>2, <1>3, <2>2
    <3> QED  BY <3>1
  <2> QED  BY <2>1, <2>2
<1>4. ASSUME NEW j \in DOMAIN Tail(ret) PROVE \E i \in DOMAIN ret : ret[i] = Tail(ret)[j]
  <2>1. j + 1 \in DOMAIN ret /\ ret[j + 1] = Tail(ret)[j]
    BY <1>1, <1>2, <1>4
  <2> QED  BY <2>1
<1> QED  BY <1>1, <1>3, <1>4

\* What a record waits for is the only thing that what it is told may name besides.
LEMMA ToldIs ==
    ASSUME NEW w, NEW r \in Records, NEW a
    PROVE  /\ Told(w, r, a) = r \/ (r.pend # None /\ Carries(Flight(w), a) /\ a \in Missed(w)
                                      /\ Told(w, r, a) = NotConfirmed(r))
                \/ (r.pend # None /\ Carries(Flight(w), a) /\ Told(w, r, a) = Confirmed(r))
           /\ Told(w, r, a).cap \in {r.cap, r.pend, None}
           /\ Told(w, r, a).cap = r.cap \/ Told(w, r, a).age = 0
<1>1. CASE r.pend = None \/ ~Carries(Flight(w), a)
  BY <1>1 DEF Told
<1>2. CASE r.pend # None /\ Carries(Flight(w), a) /\ a \in Missed(w)
  <2>1. Told(w, r, a) = NotConfirmed(r)
    BY <1>2 DEF Told
  <2> QED  BY <1>2, <2>1, HeardIs, NotKnownIs
<1>3. CASE r.pend # None /\ Carries(Flight(w), a) /\ a \notin Missed(w)
  <2>1. Told(w, r, a) = Confirmed(r)
    BY <1>3 DEF Told
  <2> QED  BY <1>3, <2>1, HeardIs
<1> QED  BY <1>1, <1>2, <1>3

\* The removals that came back wait again, once.
LEMMA RecolocaStep ==
    ASSUME DomainInv, RecolocaRemocoes
    PROVE  DomainInv'
<1> DEFINE back == Head(returned)
           again == {[r EXCEPT !.tries = 1] : r \in {x \in back : x.tries = 0}}
           others == {r \in owed.removals :
                        ~\E x \in back : x.addr = r.addr /\ x.struct = r.struct}
           lost == {x.addr : x \in {y \in back : IF y.tries >= 1 THEN Present(y.addr, y.struct)
                                                 ELSE Wanted(y.addr, y.struct)}}
<1>1. /\ returned # <<>> /\ owed' = [owed EXCEPT !.removals = others \cup again]
      /\ astray' = astray \cup lost /\ returned' = Tail(returned)
      /\ rows' = rows /\ gate' = gate /\ list' = list /\ index' = index /\ adjusts' = adjusts
      /\ queued' = queued /\ writing' = writing /\ kernel' = kernel
  BY DEF RecolocaRemocoes, indexVars
<1>2. /\ DomainShape /\ owed.writes \subseteq WriteRows /\ owed.removals \subseteq RemovalRows
      /\ owed \in Owing /\ returned \in Seq(SUBSET RemovalRows) /\ astray \subseteq Addrs
  BY DEF DomainInv, DomainShape, Owing
<1>3. /\ back \subseteq RemovalRows /\ returned' \in Seq(SUBSET RemovalRows)
      /\ \A i \in DOMAIN returned :
            returned[i] = back \/ \E j \in DOMAIN returned' : returned'[j] = returned[i]
      /\ \A j \in DOMAIN returned' : \E i \in DOMAIN returned : returned[i] = returned'[j]
      /\ \E i \in DOMAIN returned : returned[i] = back
  <2>1. 1 \in DOMAIN returned /\ returned[1] = Head(returned)
    BY <1>1, <1>2
  <2> QED  BY <1>1, <1>2, <2>1, ReturnedIs
<1> HIDE DEF back
<1>4. /\ \A x \in again : x \in RemovalRows /\ x.tries = 1
            /\ \E y \in back : y.addr = x.addr /\ y.struct = x.struct /\ y.tries = 0
      /\ \A y \in back : y.tries = 0 => \E x \in again : x.addr = y.addr /\ x.struct = y.struct
  <2>1. ASSUME NEW y \in back
        PROVE  /\ [y EXCEPT !.tries = 1] \in RemovalRows /\ [y EXCEPT !.tries = 1].tries = 1
               /\ [y EXCEPT !.tries = 1].addr = y.addr /\ [y EXCEPT !.tries = 1].struct = y.struct
    BY <1>3 DEF RemovalRows
  <2> QED  BY <2>1
<1>5. /\ \A x \in others : x \in owed.removals
      /\ \A x \in owed.removals : x \in others \/ \E y \in back : y.addr = x.addr /\ y.struct = x.struct
  OBVIOUS
<1>6. \A y \in back : IF y.tries >= 1 THEN Present(y.addr, y.struct) => y.addr \in astray'
                      ELSE Wanted(y.addr, y.struct) => y.addr \in astray'
  BY <1>1
<1>7. owed' = [writes |-> owed.writes, removals |-> others \cup again]
  BY <1>1, <1>2 DEF Owing
<1> HIDE DEF again, others, lost
<1>8. /\ owed' \in Owing /\ owed'.writes = owed.writes
      /\ \A x \in owed'.removals : x \in others \/ x \in again
      /\ \A x \in others : x \in owed'.removals
      /\ \A x \in again : x \in owed'.removals
  BY <1>2, <1>4, <1>5, <1>7 DEF Owing
<1>9. \A y \in back : y.tries \in Nat /\ y.addr \in Addrs /\ y.struct \in Structs
  BY <1>3 DEF RemovalRows
<1>10. \A a : Has(owed', a) <=> Has(owed, a)
  BY <1>8 DEF Has
<1>11. DomainShape'
  <2>1. lost \subseteq Addrs
    BY <1>9 DEF lost
  <2> QED  BY <1>1, <1>2, <1>3, <1>8, <2>1 DEF DomainShape
<1>12. ASSUME NEW a \in Addrs PROVE RecordFit(index[a])' /\ Waits(a)'
  BY <1>1, <1>10 DEF DomainInv, Waits
<1>13. Backed(queued)' /\ Backed(Flight(writing))' /\ GateIsClosed'
  BY <1>1 DEF DomainInv, Backed, GateIsClosed
<1>14. ASSUME NEW a \in Addrs \ astray' PROVE Tracked(a)'
  <2>1. a \in Addrs /\ Tracked(a) /\ index'[a] = index[a] /\ Rec(a)' = Rec(a) /\ index[a] \in Records
    BY <1>1, <1>2, <1>14 DEF DomainInv, DomainShape, Rec
  <2>2. \A s \in Structs : Holds(Rec(a), s) => Wanted(a, s)
    BY <2>1, ToldIs DEF Holds, Wanted, Rec
  <2>3. ASSUME NEW y \in back, y.addr = a
        PROVE  IF y.tries = 0 THEN ~Wanted(a, y.struct) /\ Asks(owed', a, y.struct)
                              ELSE ~Present(a, y.struct)
    BY <1>4, <1>6, <1>8, <1>9, <1>14, <2>3 DEF Asks
  <2>4. ASSUME NEW s, Asks(owed', a, s), ~Asks(owed, a, s) PROVE ~Wanted(a, s)
    <3>1. PICK x \in owed'.removals : x.addr = a /\ x.struct = s
      BY <2>4 DEF Asks
    <3>2. x \in again
      BY <1>5, <1>8, <2>4, <3>1 DEF Asks
    <3> QED  BY <1>4, <2>3, <3>1, <3>2
  <2>5. ASSUME NEW s \in Structs, Asks(owed, a, s), ~Asks(owed', a, s)
        PROVE  ~Present(a, s) /\ Tried(a, s)
    <3>1. PICK x \in owed.removals : x.addr = a /\ x.struct = s
      BY <2>5 DEF Asks
    <3>2. x \notin others
      BY <1>8, <2>5, <3>1 DEF Asks
    <3>3. PICK y \in back : y.addr = a /\ y.struct = s
      BY <1>5, <3>1, <3>2
    <3>4. y.tries # 0 /\ ~Present(a, s)
      BY <2>3, <2>5, <3>3
    <3> QED  BY <1>3, <3>3, <3>4 DEF Tried, TriedIn, Again
  <2>6. ASSUME NEW s, Present(a, s), Leaving(a, s) PROVE Leaving(a, s)'
    <3>1. CASE Asks(owed, a, s)
      <4>1. s \in Structs
        BY <1>2, <3>1 DEF Asks, RemovalRows
      <4> QED  BY <2>5, <2>6, <3>1, <4>1 DEF Leaving
    <3>2. CASE GivenBack(returned, a, s)
      <4>1. PICK i \in DOMAIN returned : \E x \in returned[i] : x.addr = a /\ x.struct = s
        BY <3>2 DEF GivenBack
      <4>2. CASE returned[i] = back
        BY <2>3, <2>6, <4>1, <4>2 DEF Leaving
      <4>3. CASE returned[i] # back
        BY <1>3, <4>1, <4>3 DEF Leaving, GivenBack
      <4> QED  BY <4>2, <4>3
    <3> QED  BY <1>1, <2>6, <3>1, <3>2 DEF Leaving
  <2>7. ASSUME NEW s \in Structs, Holds(Rec(a), s), Asks(owed, a, s) PROVE Asks(owed', a, s)
    <3>1. SUFFICES ASSUME ~Asks(owed', a, s) PROVE FALSE
      OBVIOUS
    <3>2. ~Present(a, s) /\ Rec(a).age = 0
      BY <2>1, <2>5, <2>7, <3>1 DEF Tracked, AgainIsNew
    <3>3. kernel[a][s].cap = None /\ kernel[a][s] \in Elements /\ Rec(a).cap # None
      BY <1>2, <2>1, <2>7, <3>2 DEF Present, DomainShape, Holds
    <3>4. kernel[a][s].age = 2
      BY <3>3, CapsAre DEF Elements, Gone
    <3> QED  BY <2>1, <2>7, <3>2, <3>3, <3>4 DEF Tracked, Believed
  <2>8. WritesFit(a)'
    <3>1. OwedFit(owed', index[a], a)
      <4>1. SUFFICES ASSUME NEW w \in owed.writes, w.addr = a
                     PROVE  /\ w.cap = index[a].pend /\ w.replace = (index[a].cap = index[a].pend)
                            /\ index[a].cap # None /\ index[a].cap # index[a].pend
                                  => Asks(owed', a, StructOf(index[a].cap))
        BY <1>8 DEF OwedFit
      <4>2. /\ w.cap = index[a].pend /\ w.replace = (index[a].cap = index[a].pend)
            /\ index[a].cap # None /\ index[a].cap # index[a].pend
                  => Asks(owed, a, StructOf(index[a].cap))
        BY <2>1, <4>1 DEF Tracked, WritesFit, OwedFit
      <4>3. Has(owed, a)
        BY <4>1 DEF Has
      <4>4. Rec(a) = index[a]
        BY <2>1, <4>3 DEF Tracked, OneWrite, Rec, Told
      <4>5. ASSUME index[a].cap # None PROVE Holds(Rec(a), StructOf(index[a].cap)) /\ StructOf(index[a].cap) \in Structs
        BY <2>1, <4>4, <4>5, CapsAre, RecordsAre DEF Holds
      <4> QED  BY <2>7, <4>2, <4>5
    <3> QED  BY <1>1, <2>1, <3>1 DEF Tracked, WritesFit
  <2>9. OneWrite(a)'
    BY <1>1, <1>10, <2>1 DEF Tracked, OneWrite
  <2>10. NothingElse(a)'
    BY <1>1, <2>1, <2>6 DEF Tracked, NothingElse, Present
  <2>11. Believed(a)'
    <3>1. ASSUME NEW s \in Structs, Holds(Rec(a), s), GivenBack(returned, a, s), ~GivenBack(returned', a, s)
          PROVE  ~Present(a, s)
      <4>1. PICK i \in DOMAIN returned : \E x \in returned[i] : x.addr = a /\ x.struct = s
        BY <3>1 DEF GivenBack
      <4>2. returned[i] = back
        BY <1>3, <3>1, <4>1 DEF GivenBack
      <4> QED  BY <2>2, <2>3, <3>1, <4>1, <4>2
    <3>2. \A s : Holds(Rec(a), s) => Rec(a).cap # None
      BY DEF Holds
    <3> QED  BY <1>1, <2>1, <3>1, <3>2 DEF Tracked, Believed, Present
  <2>12. MovesWhole(a)'
    BY <1>1, <1>10, <2>1, <2>2, <2>4 DEF Tracked, MovesWhole
  <2>13. InOrder(a)'
    <3>1. \A s : index[a].pend # None /\ StructOf(index[a].pend) = s => Wanted(a, s)
      BY DEF Wanted
    <3> QED  BY <1>1, <1>10, <2>1, <2>4, <3>1 DEF Tracked, InOrder
  <2>14. LeavesSoon(a)'
    BY <1>1, <2>1 DEF Tracked, LeavesSoon, Present
  <2>15. AgainIsNew(a)'
    <3>1. ASSUME NEW s \in Structs, Again(owed'.removals, a, s), ~Again(owed.removals, a, s)
          PROVE  ~Wanted(a, s)
      <4>1. PICK x \in owed'.removals : x.addr = a /\ x.struct = s /\ x.tries # 0
        BY <3>1 DEF Again
      <4>2. x \in again
        BY <1>5, <1>8, <3>1, <4>1 DEF Again
      <4> QED  BY <1>4, <2>3, <4>1, <4>2
    <3>2. \A s : TriedIn(returned', a, s) => TriedIn(returned, a, s)
      BY <1>3 DEF TriedIn
    <3>3. \A s \in Structs : Tried(a, s)' => Tried(a, s) \/ ~Wanted(a, s)
      BY <1>1, <3>1, <3>2 DEF Tried
    <3> QED  BY <2>1, <2>2, <3>3 DEF Tracked, AgainIsNew
  <2> QED  BY <2>8, <2>9, <2>10, <2>11, <2>12, <2>13, <2>14, <2>15 DEF Tracked
<1> QED  BY <1>11, <1>12, <1>13, <1>14 DEF DomainInv

-----------------------------------------------------------------------------
(* Domains: time *)

\* What is on its way about an address.
LEMMA CarriedIs ==
    ASSUME DomainInv, NEW a \in Addrs
    PROVE  /\ \A s \in Structs : Leaving(a, s) => Carried(a)
           /\ \A s \in Structs : Tried(a, s) => Carried(a)
           /\ \A s : GivenBack(returned, a, s) => Carried(a)
           /\ index[a].pend # None => Carried(a)
           /\ Carries(Flight(writing), a) => Carried(a)
<1>1. writing.busy => Flight(writing) = writing.batch
  BY DEF Flight
<1>2. ~writing.busy => ~Carries(Flight(writing), a) /\ ~Returns(Flight(writing), a)
                          /\ \A s : ~TriedOf(Flight(writing), a, s)
  BY NoBatchIs DEF Flight, Carries, Returns, TriedOf
<1>3. /\ Carries(queued, a) \/ Returns(queued, a) => Carried(a)
      /\ Carries(Flight(writing), a) \/ Returns(Flight(writing), a) => Carried(a)
  BY <1>1, <1>2 DEF Carries, Returns, Carried
<1>4. /\ Has(adjusts, a) \/ Has(owed, a) => Carried(a)
      /\ \A s : Asks(adjusts, a, s) \/ Asks(owed, a, s) => Carried(a)
      /\ \A s : Again(adjusts.removals, a, s) \/ Again(owed.removals, a, s) => Carried(a)
      /\ \A s : GivenBack(returned, a, s) \/ TriedIn(returned, a, s) => Carried(a)
  BY DEF Has, Asks, Again, GivenBack, TriedIn, Carried
<1>5. \A s \in Structs : Deletes(queued, a, s) => Carried(a)
  BY <1>3 DEF DomainInv, Backed
<1>6. \A s \in Structs : Refused(writing, a, s) => Deletes(Flight(writing), a, s)
  <2>1. writing \in {NoBatch} \cup AnswerRows
    BY DEF DomainInv, DomainShape
  <2>2. writing.busy => Flight(writing).busy
    BY <1>1, <2>1, FlightIs
  <2> QED  BY <1>1, <2>2 DEF Refused, Deletes
<1>7. \A s \in Structs : Refused(writing, a, s) => Carried(a)
  BY <1>3, <1>6 DEF DomainInv, Backed
<1>8. \A s : TriedOf(queued, a, s) \/ TriedOf(Flight(writing), a, s) => Carried(a)
  BY <1>3 DEF TriedOf, Again, Returns
<1>9. index[a].pend # None => Carried(a)
  BY <1>3, <1>4 DEF DomainInv, Waits
<1> QED  BY <1>3, <1>4, <1>5, <1>7, <1>8, <1>9 DEF Leaving, Tried

LEMMA ElementsAre ==
    ASSUME NEW k \in Elements
    PROVE  /\ k.cap # None => k.age \in 0..1
           /\ k.cap = None => k = Gone /\ k.age = 2
           /\ k.age \in 0..2 /\ (k.age = 0 => k.cap # None)
           /\ Gone \in Elements /\ Gone.cap = None /\ Gone.age = 2
  BY CapsAre DEF Elements, Gone

LEMMA PassaStep ==
    ASSUME DomainInv, NEW a \in Addrs, Passa(a)
    PROVE  DomainInv'
<1> DEFINE r == index[a]
           q == index'[a]
           older(s) == IF kernel[a][s].age = 0 THEN [kernel[a][s] EXCEPT !.age = 1] ELSE Gone
<1>1. /\ Carried(a) => 0 \notin Aged(a)
      /\ kernel' = [kernel EXCEPT ![a] = [s \in Structs |-> older(s)]]
      /\ index' = IF Known(a) /\ index[a].age < 2
                  THEN [index EXCEPT ![a].age = @ + 1] ELSE index
      /\ rows' = rows /\ gate' = gate /\ list' = list /\ astray' = astray
      /\ adjusts' = adjusts /\ owed' = owed /\ queued' = queued /\ writing' = writing
      /\ returned' = returned
  BY DEF Passa, pipeVars
<1>2. /\ DomainShape /\ r \in Records /\ RecordFit(r) /\ index \in [Addrs -> Records]
      /\ kernel \in [Addrs -> [Structs -> Elements]]
  BY DEF DomainInv, DomainShape
<1>3. /\ r.age \in 0..2 /\ q \in Records /\ q.claims = r.claims /\ q.cap = r.cap /\ q.pend = r.pend
      /\ q.doubtful = r.doubtful
      /\ q.age = IF Known(a) /\ r.age < 2 THEN r.age + 1 ELSE r.age
      /\ ~Known(a) => q = r
      /\ \A b \in Addrs : b # a => index'[b] = index[b]
  <2>1. CASE Known(a) /\ r.age < 2
    <3>1. r.age \in 0..2 /\ r.age + 1 \in 0..2
      BY <1>2, <2>1, RecordsAre
    <3>2. q = [r EXCEPT !.age = r.age + 1] /\ \A b \in Addrs : b # a => index'[b] = index[b]
      BY <1>1, <1>2, <2>1
    <3>3. q = [claims |-> r.claims, age |-> r.age + 1, cap |-> r.cap, doubtful |-> r.doubtful, pend |-> r.pend]
      BY <1>2, <3>2 DEF Records
    <3> QED  BY <1>2, <2>1, <3>1, <3>2, <3>3 DEF Records
  <2>2. CASE ~(Known(a) /\ r.age < 2)
    BY <1>1, <1>2, <2>2, RecordsAre
  <2> QED  BY <2>1, <2>2
<1>4. /\ \A s \in Structs : kernel'[a][s] = older(s)
      /\ \A b \in Addrs : b # a => kernel'[b] = kernel[b]
  BY <1>1, <1>2
<1>5. ASSUME NEW s \in Structs
      PROVE  /\ kernel[a][s] \in Elements /\ older(s) \in Elements
             /\ kernel[a][s].age = 0 => older(s).age = 1 /\ older(s).cap = kernel[a][s].cap
                                          /\ Present(a, s) /\ older(s).cap # None
             /\ kernel[a][s].age # 0 => older(s) = Gone /\ older(s).cap = None /\ older(s).age = 2
  <2>1. kernel[a][s] \in Elements
    BY <1>2
  <2>2. CASE kernel[a][s].age = 0
    <3>1. kernel[a][s] \in [cap : Caps, age : 0..1]
      BY <2>1, <2>2 DEF Elements, Gone
    <3>2. older(s) = [cap |-> kernel[a][s].cap, age |-> 1]
      BY <2>2, <3>1
    <3> QED  BY <2>1, <2>2, <3>1, <3>2, CapsAre DEF Elements, Present
  <2>3. CASE kernel[a][s].age # 0
    BY <2>1, <2>3, ElementsAre DEF Present
  <2> QED  BY <2>1, <2>2, <2>3
<1> HIDE DEF older
<1>6. /\ \A s \in Structs : 0 \in {kernel[a][s].age} => 0 \in Aged(a)
      /\ Known(a) /\ r.age = 0 => 0 \in Aged(a)
  BY DEF Aged
<1>7. DomainShape'
  <2>1. index' \in [Addrs -> Records]
    BY <1>1, <1>2, <1>3
  <2>2. kernel' \in [Addrs -> [Structs -> Elements]]
    BY <1>1, <1>2, <1>5
  <2> QED  BY <1>1, <1>2, <2>1, <2>2 DEF DomainShape
<1>8. r.claims # {} /\ r.cap = None => q.age = r.age
  <2>1. SUFFICES ASSUME r.claims # {}, r.cap = None PROVE FALSE \/ q.age = r.age
    OBVIOUS
  <2>2. r.pend # None /\ r.age = 0 /\ Known(a)
    BY <1>2, <2>1 DEF RecordFit, Known
  <2> QED  BY <1>1, <1>6, <2>2, CarriedIs
<1>9. ASSUME NEW b \in Addrs PROVE RecordFit(index[b])' /\ Waits(b)'
  <2>1. CASE b # a
    BY <1>1, <1>3, <2>1 DEF DomainInv, Waits
  <2>2. CASE b = a
    <3>1. RecordFit(q)
      BY <1>2, <1>3, <1>8 DEF RecordFit, Known
    <3>2. Waits(a)'
      BY <1>1, <1>3 DEF DomainInv, Waits
    <3> QED  BY <2>2, <3>1, <3>2
  <2> QED  BY <2>1, <2>2
<1>10. Backed(queued)' /\ Backed(Flight(writing))'
  BY <1>1 DEF DomainInv, Backed
<1>11. GateIsClosed'
  <2>1. ASSUME ~gate PROVE Active(list) = {} /\ \A b \in Addrs : index'[b] = NotKnown
    BY <1>3, <2>1, NotKnownIs DEF DomainInv, GateIsClosed, Known
  <2> QED  BY <1>1, <2>1 DEF GateIsClosed
<1>12. \A b : Stays(adjusts, adjusts', b) /\ Stays(owed, owed', b)
  BY <1>1 DEF Stays
<1>13. ASSUME NEW b \in Addrs \ astray', b # a PROVE Tracked(b)'
  <2>1. b \in Addrs /\ Tracked(b) /\ index[b] \in Records /\ index'[b] \in Records
        /\ kernel'[b] = kernel[b] /\ Same(index[b], index'[b])
    BY <1>1, <1>2, <1>3, <1>4, <1>13 DEF DomainInv, Same
  <2> QED  BY <1>1, <1>12, <2>1, TrackedStays
<1>14. ASSUME a \notin astray PROVE Tracked(a)'
  <2> DEFINE t == Told(writing, r, a)
             u == Told(writing, q, a)
  <2>1. Tracked(a) /\ Rec(a) = t /\ Rec(a)' = u
    BY <1>1, <1>14 DEF DomainInv, Rec
  <2>2. /\ u.cap = t.cap
        /\ \/ t = r /\ u = q
           \/ t.age = 0 /\ u.age = 0 /\ (t.cap # None => Carried(a))
           \/ t.cap = r.cap /\ t.age = r.age /\ u.age = q.age
    <3>1. CASE r.pend = None \/ ~Carries(Flight(writing), a)
      BY <1>3, <3>1 DEF Told
    <3>4. r \in Records /\ q \in Records /\ q.cap = r.cap /\ q.pend = r.pend
      BY <1>2, <1>3
    <3>2. CASE r.pend # None /\ Carries(Flight(writing), a) /\ a \in Missed(writing)
      <4>1. t = NotConfirmed(r) /\ u = NotConfirmed(q)
        BY <1>3, <3>2 DEF Told
      <4>2. CASE r.cap = None
        <5>1. NotConfirmed(r) = NotKnown
          BY <3>2, <3>4, <4>2, HeardIs
        <5>2. NotConfirmed(q) = NotKnown
          BY <3>2, <3>4, <4>2, HeardIs
        <5> QED  BY <4>1, <5>1, <5>2, NotKnownIs
      <4>3. CASE r.cap # None
        <5>1. NotConfirmed(r).cap = r.cap /\ NotConfirmed(r).age = r.age
          BY <3>2, <3>4, <4>3, HeardIs
        <5>2. NotConfirmed(q).cap = q.cap /\ NotConfirmed(q).age = q.age
          BY <3>2, <3>4, <4>3, HeardIs
        <5> QED  BY <3>4, <4>1, <5>1, <5>2
      <4> QED  BY <4>2, <4>3
    <3>3. CASE r.pend # None /\ Carries(Flight(writing), a) /\ a \notin Missed(writing)
      <4>1. t = Confirmed(r) /\ u = Confirmed(q)
        BY <1>3, <3>3 DEF Told
      <4>2. Confirmed(r).cap = r.pend /\ Confirmed(r).age = 0
        BY <3>3, <3>4, HeardIs
      <4>3. Confirmed(q).cap = q.pend /\ Confirmed(q).age = 0
        BY <3>3, <3>4, HeardIs
      <4>4. Carried(a)
        BY <3>3, CarriedIs
      <4> QED  BY <3>4, <4>1, <4>2, <4>3, <4>4
    <3> QED  BY <3>1, <3>2, <3>3
  <2>3. t.cap # None => Known(a)
    <3>1. t.cap \in {r.cap, r.pend, None}
      BY <1>2, ToldIs
    <3> QED  BY <1>2, <3>1, NotKnownIs DEF RecordFit, Known
  <2> HIDE DEF t, u, r, q
  <2>4. \A s : Holds(u, s) <=> Holds(t, s)
    BY <2>2 DEF Holds
  <2>5. \A s : Holds(t, s) => t.cap # None
    BY DEF Holds
  <2>6. WritesFit(a)'
    <3>1. /\ OwedFit(adjusts, r, a) /\ OwedFit(owed, r, a)
          /\ BatchFit(queued, r, a) /\ BatchFit(Flight(writing), r, a)
      BY <2>1 DEF Tracked, WritesFit, r
    <3>2. /\ OwedFit(adjusts, q, a) /\ OwedFit(owed, q, a)
          /\ BatchFit(queued, q, a) /\ BatchFit(Flight(writing), q, a)
      BY <1>3, <3>1 DEF OwedFit, BatchFit
    <3> QED  BY <1>1, <3>2 DEF WritesFit, q
  <2>7. OneWrite(a)'
    BY <1>1, <2>1 DEF Tracked, OneWrite
  <2>8. \A s : (Leaving(a, s)' <=> Leaving(a, s)) /\ (Tried(a, s)' <=> Tried(a, s))
    BY <1>1 DEF Leaving, Tried
  <2>9. \A s \in Structs : Present(a, s)' => /\ Present(a, s) /\ kernel[a][s].age = 0
                                             /\ kernel'[a][s].cap = kernel[a][s].cap
    BY <1>4, <1>5 DEF Present
  <2>10. NothingElse(a)'
    BY <1>1, <2>1, <2>2, <2>4, <2>8, <2>9 DEF Tracked, NothingElse
  <2>11. Believed(a)'
    <3>1. SUFFICES ASSUME NEW s \in Structs, Holds(t, s)
                   PROVE  /\ kernel'[a][s].age = u.age
                          /\ Present(a, s)' => kernel'[a][s].cap = u.cap
      BY <2>1, <2>4 DEF Believed
    <3>2. Known(a) /\ t.cap # None
      BY <2>3, <2>5, <3>1
    <3>3. \/ /\ kernel[a][s].age = t.age
             /\ Present(a, s) => kernel[a][s].cap = t.cap
          \/ r.age = 0 /\ GivenBack(returned, a, s)
      BY <2>1, <3>1 DEF Tracked, Believed, r
    <3>4. ~(r.age = 0 /\ GivenBack(returned, a, s))
      BY <1>1, <1>6, <3>2, CarriedIs
    <3>5. kernel[a][s].age = t.age /\ (Present(a, s) => kernel[a][s].cap = t.cap)
      BY <3>3, <3>4
    <3>6. ~(t.age = 0 /\ Carried(a))
      BY <1>1, <1>6, <3>5
    <3>7. t.age = r.age /\ u.age = q.age
      BY <2>2, <3>2, <3>6
    <3>8. kernel'[a][s].age = u.age
      BY <1>3, <1>4, <1>5, <3>2, <3>5, <3>7
    <3> QED  BY <2>2, <2>9, <3>5, <3>8
  <2>12. MovesWhole(a)'
    BY <1>1, <2>1, <2>4 DEF Tracked, MovesWhole
  <2>13. InOrder(a)'
    <3>1. index'[a].pend = index[a].pend
      BY <1>3 DEF q, r
    <3> QED  BY <1>1, <2>1, <3>1 DEF Tracked, InOrder
  <2>14. LeavesSoon(a)'
    <3>1. SUFFICES ASSUME gate, NEW s \in Structs, Present(a, s)', t.cap # None, ~Holds(t, s) PROVE FALSE
      BY <1>1, <2>1, <2>2, <2>4 DEF LeavesSoon
    <3>2. Present(a, s) /\ ~Carried(a)
      BY <1>1, <1>6, <2>9, <3>1
    <3> QED  BY <2>1, <3>1, <3>2, CarriedIs DEF Tracked, NothingElse
  <2>15. AgainIsNew(a)'
    <3>1. SUFFICES ASSUME NEW s \in Structs, Holds(t, s), Tried(a, s) PROVE u.age = 0
      BY <2>1, <2>4, <2>8 DEF AgainIsNew
    <3>2. Carried(a) /\ t.age = 0 /\ Known(a)
      BY <2>1, <2>3, <2>5, <3>1, CarriedIs DEF Tracked, AgainIsNew
    <3> QED  BY <1>1, <1>6, <2>2, <3>2
  <2> QED  BY <2>6, <2>7, <2>10, <2>11, <2>12, <2>13, <2>14, <2>15 DEF Tracked
<1>15. \A b \in Addrs \ astray' : Tracked(b)'
  <2>1. ASSUME NEW b \in Addrs \ astray' PROVE Tracked(b)'
    <3>1. CASE b = a
      BY <1>1, <1>14, <2>1, <3>1
    <3>2. CASE b # a
      BY <1>13, <2>1, <3>2
    <3> QED  BY <3>1, <3>2
  <2> QED  BY <2>1
<1> QED  BY <1>7, <1>9, <1>10, <1>11, <1>15 DEF DomainInv

LEMMA PodaStep ==
    ASSUME DomainInv, NEW a \in Addrs, Poda(a)
    PROVE  DomainInv'
<1>1. /\ Known(a) /\ index[a].pend = None /\ index[a].age = 2
      /\ index' = [index EXCEPT ![a] = NotKnown]
      /\ rows' = rows /\ gate' = gate /\ list' = list /\ astray' = astray /\ kernel' = kernel
      /\ adjusts' = adjusts /\ owed' = owed /\ queued' = queued /\ writing' = writing
      /\ returned' = returned
  BY DEF Poda, pipeVars
<1>2. DomainShape /\ index \in [Addrs -> Records] /\ kernel \in [Addrs -> [Structs -> Elements]]
  BY DEF DomainInv, DomainShape
<1>3. index'[a] = NotKnown /\ \A b \in Addrs : b # a => index'[b] = index[b]
  BY <1>1, <1>2
<1>4. DomainShape'
  <2>1. index' \in [Addrs -> Records]
    BY <1>1, <1>2, NotKnownIs
  <2> QED  BY <1>1, <1>2, <2>1 DEF DomainShape
<1>5. ASSUME NEW b \in Addrs PROVE RecordFit(index[b])' /\ Waits(b)'
  BY <1>1, <1>3, NotKnownIs DEF DomainInv, Waits
<1>6. Backed(queued)' /\ Backed(Flight(writing))'
  BY <1>1 DEF DomainInv, Backed
<1>7. GateIsClosed'
  BY <1>1, <1>3 DEF DomainInv, GateIsClosed
<1>8. ASSUME NEW b \in Addrs \ astray', b # a PROVE Tracked(b)'
  <2>1. b \in Addrs /\ Tracked(b) /\ index[b] \in Records /\ index'[b] \in Records
        /\ Same(index[b], index'[b])
    BY <1>1, <1>2, <1>3, <1>8 DEF DomainInv, Same
  <2>2. Stays(adjusts, adjusts', b) /\ Stays(owed, owed', b)
    BY <1>1 DEF Stays
  <2> QED  BY <1>1, <2>1, <2>2, TrackedStays
<1>9. ASSUME a \notin astray PROVE Tracked(a)'
  <2>1. Tracked(a) /\ Rec(a) = index[a] /\ Rec(a)' = NotKnown
    BY <1>1, <1>3, <1>9, NotKnownIs DEF DomainInv, Rec, Told
  <2>2. ~Has(adjusts, a) /\ ~Has(owed, a) /\ ~Carries(queued, a) /\ ~Carries(Flight(writing), a)
    BY <1>1, <1>2, <2>1, NoWriteUnasked DEF Tracked
  <2>3. WritesFit(a)' /\ OneWrite(a)'
    BY <1>1, <2>2 DEF WritesFit, OneWrite, OwedFit, BatchFit, Has, Carries
  <2>4. \A s : Leaving(a, s)' <=> Leaving(a, s)
    BY <1>1 DEF Leaving
  <2>5. ASSUME NEW s \in Structs, Present(a, s) PROVE ~Holds(index[a], s)
    <3>1. kernel[a][s] \in Elements /\ kernel[a][s].age # 2
      BY <1>2, <2>5, ElementsAre DEF Present
    <3> QED  BY <1>1, <2>1, <3>1 DEF Tracked, Believed
  <2>6. NothingElse(a)'
    BY <1>1, <2>1, <2>4, <2>5 DEF Tracked, NothingElse, Present
  <2>7. \A s : ~Holds(NotKnown, s)
    BY NotKnownIs DEF Holds
  <2>8. Believed(a)' /\ MovesWhole(a)' /\ AgainIsNew(a)'
    BY <2>1, <2>7 DEF Believed, MovesWhole, AgainIsNew
  <2>9. InOrder(a)' /\ LeavesSoon(a)'
    BY <1>3, <2>1, NotKnownIs DEF InOrder, LeavesSoon
  <2> QED  BY <2>3, <2>6, <2>8, <2>9 DEF Tracked
<1>10. \A b \in Addrs \ astray' : Tracked(b)'
  <2>1. ASSUME NEW b \in Addrs \ astray' PROVE Tracked(b)'
    <3>1. CASE b = a
      BY <1>1, <1>9, <2>1, <3>1
    <3>2. CASE b # a
      BY <1>8, <2>1, <3>2
    <3> QED  BY <3>1, <3>2
  <2> QED  BY <2>1
<1> QED  BY <1>4, <1>5, <1>6, <1>7, <1>10 DEF DomainInv

-----------------------------------------------------------------------------
(* Domains: the writer *)

\* What nft makes of an element that a script adds or deletes.
Made(k, adds, dels, a, s) ==
    /\ k \in Elements
    /\ \/ /\ \A x \in adds : ~(x.addr = a /\ StructOf(x.cap) = s)
          /\ k = IF <<a, s>> \in dels THEN Gone ELSE kernel[a][s]
       \/ \E x \in adds :
             /\ x.addr = a /\ StructOf(x.cap) = s /\ k.cap = x.cap
             /\ k.age = 0 \/ (<<a, s>> \notin dels /\ Present(a, s) /\ k = kernel[a][s])

LEMMA AppliedIs ==
    ASSUME kernel \in [Addrs -> [Structs -> Elements]], NEW a \in Addrs, NEW s \in Structs,
           NEW adds \in SUBSET [addr : Addrs, cap : Caps], NEW dels, Accepts(adds, dels)
    PROVE  Made(Applied(adds, dels)[a][s], adds, dels, a, s)
<1> DEFINE here == {x \in adds : x.addr = a /\ StructOf(x.cap) = s}
           left == IF <<a, s>> \in dels THEN Gone ELSE kernel[a][s]
           k == Applied(adds, dels)[a][s]
           new == CHOOSE x \in here : TRUE
<1>1. k = IF left = Gone /\ here # {} THEN [cap |-> new.cap, age |-> 0] ELSE left
  BY DEF Applied
<1>2. left \in Elements /\ kernel[a][s] \in Elements
  BY ElementsAre
<1>3. here # {} => new \in here
  OBVIOUS
<1> HIDE DEF k, new
<1>4. ASSUME here = {} PROVE Made(k, adds, dels, a, s)
  BY <1>1, <1>2, <1>4 DEF Made
<1>5. ASSUME here # {}, left = Gone PROVE Made(k, adds, dels, a, s)
  <2>1. k = [cap |-> new.cap, age |-> 0] /\ new \in adds /\ new.addr = a /\ StructOf(new.cap) = s
    BY <1>1, <1>3, <1>5
  <2>2. new.cap \in Caps
    BY <2>1
  <2>3. k.cap = new.cap /\ k.age = 0 /\ k \in Elements
    BY <2>1, <2>2 DEF Elements
  <2> QED  BY <2>1, <2>3 DEF Made
<1>6. ASSUME here # {}, left # Gone PROVE Made(k, adds, dels, a, s)
  <2>1. k = kernel[a][s] /\ <<a, s>> \notin dels /\ new \in adds /\ new.addr = a /\ StructOf(new.cap) = s
    BY <1>1, <1>3, <1>6
  <2>2. Present(a, s)
    BY <1>2, <1>6, ElementsAre DEF Present
  <2>3. kernel[a][s].cap = new.cap
    BY <2>1, <2>2 DEF Accepts
  <2> QED  BY <1>2, <2>1, <2>2, <2>3 DEF Made
<1> QED  BY <1>4, <1>5, <1>6 DEF k

\* nft has answered a batch.
Answering ==
    /\ queued.busy /\ ~writing.busy /\ queued' = NoBatch
    /\ writing' \in AnswerRows /\ writing'.batch = queued
    /\ UNCHANGED <<rows, gate, list, index, adjusts, owed, returned, astray>>

LEMMA AnsweringIs ==
    ASSUME DomainInv, Answering, NEW a \in Addrs
    PROVE  /\ Flight(writing) = NoBatch /\ Flight(writing') = queued /\ queued \in Batches
           /\ Rec(a) = index[a] /\ Rec(a)' = Told(writing', index[a], a) /\ index[a] \in Records
           /\ \A b \in Addrs : \A s : ~Carries(queued', b) /\ ~Deletes(queued', b, s)
                           /\ ~Carries(Flight(writing), b) /\ ~Deletes(Flight(writing), b, s)
           /\ \A s : Leaving(a, s)' <=> \/ Asks(adjusts, a, s) \/ Asks(owed, a, s)
                                        \/ ~writing'.whole /\ Deletes(queued, a, s)
                                        \/ GivenBack(returned, a, s)
           /\ \A s : Leaving(a, s) <=> \/ Asks(adjusts, a, s) \/ Asks(owed, a, s)
                                       \/ Deletes(queued, a, s) \/ GivenBack(returned, a, s)
           /\ Rec(a)' = IF index[a].pend = None \/ ~Carries(queued, a) THEN index[a]
                        ELSE IF a \in Missed(writing') THEN NotConfirmed(index[a]) ELSE Confirmed(index[a])
<1>1. /\ queued.busy /\ ~writing.busy /\ queued' = NoBatch
      /\ writing' \in AnswerRows /\ writing'.batch = queued
      /\ index' = index /\ adjusts' = adjusts /\ owed' = owed /\ returned' = returned
  BY DEF Answering
<1>2. Flight(writing) = NoBatch
  BY <1>1 DEF Flight
<1>3. writing'.busy = TRUE
  BY <1>1 DEF AnswerRows
<1>4. Flight(writing') = queued
  BY <1>1, <1>3 DEF Flight
<1>5. queued \in Batches /\ index[a] \in Records
  BY <1>1, NoBatchIs DEF DomainInv, DomainShape
<1>6. Rec(a) = index[a]
  BY <1>2, NoBatchIs DEF Rec, Told
<1>7. Rec(a)' = Told(writing', index[a], a)
  BY <1>1 DEF Rec
<1>8. \A b \in Addrs : \A s : ~Carries(queued', b) /\ ~Deletes(queued', b, s)
                           /\ ~Carries(Flight(writing), b) /\ ~Deletes(Flight(writing), b, s)
  BY <1>1, <1>2, NoBatchIs
<1>9. \A s : (Refused(writing', a, s) <=> ~writing'.whole /\ Deletes(queued, a, s)) /\ ~Refused(writing, a, s)
  BY <1>1, <1>3 DEF Refused, Deletes
<1>10. \A s : Leaving(a, s)' <=> \/ Asks(adjusts, a, s) \/ Asks(owed, a, s)
                                 \/ ~writing'.whole /\ Deletes(queued, a, s)
                                 \/ GivenBack(returned, a, s)
  BY <1>1, <1>8, <1>9 DEF Leaving
<1>11. \A s : Leaving(a, s) <=> \/ Asks(adjusts, a, s) \/ Asks(owed, a, s)
                                \/ Deletes(queued, a, s) \/ GivenBack(returned, a, s)
  BY <1>9 DEF Leaving
<1>12. Told(writing', index[a], a) =
           IF index[a].pend = None \/ ~Carries(queued, a) THEN index[a]
           ELSE IF a \in Missed(writing') THEN NotConfirmed(index[a]) ELSE Confirmed(index[a])
  BY <1>4 DEF Told
<1> QED  BY <1>2, <1>4, <1>5, <1>6, <1>7, <1>8, <1>10, <1>11, <1>12

SeenRight(a) == NothingElse(a) /\ Believed(a) /\ LeavesSoon(a)

\* What follows whatever nft made of the elements.
LEMMA AnswerStep ==
    ASSUME DomainInv, Answering, kernel' \in [Addrs -> [Structs -> Elements]],
           \A a \in Addrs \ astray : SeenRight(a)'
    PROVE  DomainInv'
<1>1. /\ queued' = NoBatch /\ writing' \in AnswerRows /\ rows' = rows /\ gate' = gate /\ list' = list
      /\ index' = index /\ adjusts' = adjusts /\ owed' = owed /\ returned' = returned /\ astray' = astray
      /\ writing'.batch = queued
  BY DEF Answering
<1>2. DomainShape'
  BY <1>1 DEF DomainInv, DomainShape
<1>3. ASSUME NEW a \in Addrs PROVE RecordFit(index[a])' /\ Waits(a)'
  BY <1>1, <1>3, AnsweringIs DEF DomainInv, Waits
<1>4. Backed(queued)' /\ Backed(Flight(writing))'
  <2>1. Backed(queued')
    BY <1>1, NoBatchIs DEF Backed
  <2>2. ASSUME NEW a \in Addrs PROVE Flight(writing') = queued
    BY <2>2, AnsweringIs
  <2>3. Backed(Flight(writing'))
    BY <2>2 DEF DomainInv, Backed
  <2> QED  BY <2>1, <2>3
<1>5. GateIsClosed'
  BY <1>1 DEF DomainInv, GateIsClosed
<1>6. ASSUME NEW a \in Addrs \ astray' PROVE Tracked(a)'
  <2>1. a \in Addrs /\ Tracked(a) /\ SeenRight(a)' /\ index'[a] = index[a]
    BY <1>1, <1>6 DEF DomainInv
  <2>2. /\ Flight(writing) = NoBatch /\ Flight(writing') = queued
        /\ Rec(a) = index[a] /\ index[a] \in Records
        /\ \A s : ~Carries(queued', a) /\ ~Deletes(queued', a, s) /\ ~Carries(Flight(writing), a)
        /\ Rec(a)' = Told(writing', index[a], a)
    BY <2>1, AnsweringIs
  <2>3. WritesFit(a)'
    <3>1. BatchFit(queued', index[a], a)
      BY <1>1, NoBatchIs DEF BatchFit
    <3> QED  BY <1>1, <2>1, <2>2, <3>1 DEF Tracked, WritesFit
  <2>4. OneWrite(a)'
    BY <1>1, <2>1, <2>2 DEF Tracked, OneWrite
  <2>5. InOrder(a)'
    BY <1>1, <2>1, <2>2 DEF Tracked, InOrder
  <2>6. \/ Rec(a)'.cap = index[a].cap
        \/ Rec(a)'.cap = None
        \/ /\ Rec(a)' = Confirmed(index[a]) /\ Rec(a)'.cap = index[a].pend /\ index[a].pend # None
           /\ Carries(queued, a)
    <3>1. CASE index[a].pend # None /\ Rec(a)' = NotConfirmed(index[a])
      BY <2>2, <3>1, HeardIs, NotKnownIs
    <3>2. CASE index[a].pend # None /\ Carries(queued, a) /\ Rec(a)' = Confirmed(index[a])
      BY <2>2, <3>2, HeardIs
    <3> QED  BY <2>2, <3>1, <3>2, ToldIs
  <2>7. MovesWhole(a)'
    <3>1. SUFFICES ASSUME NEW s \in Structs, Holds(Rec(a)', s)
                   PROVE  /\ Asks(adjusts, a, s) => Has(adjusts, a)
                          /\ Asks(owed, a, s) => Has(owed, a)
      BY <1>1, <2>2 DEF MovesWhole
    <3>2. CASE Rec(a)'.cap = index[a].cap
      BY <2>1, <2>2, <3>1, <3>2 DEF Tracked, MovesWhole, Holds
    <3>3. CASE Rec(a)'.cap = index[a].pend /\ index[a].pend # None /\ Carries(queued, a)
      BY <2>1, <2>2, <3>1, <3>3 DEF Tracked, InOrder, Holds
    <3> QED  BY <2>6, <3>1, <3>2, <3>3 DEF Holds
  <2>8. AgainIsNew(a)'
    <3>1. SUFFICES ASSUME NEW s \in Structs, Holds(Rec(a)', s), Tried(a, s)' PROVE Rec(a)'.age = 0
      BY DEF AgainIsNew
    <3>2. Tried(a, s)
      BY <1>1, <2>2, <3>1, NoBatchIs DEF Tried, TriedOf
    <3>3. CASE Rec(a)'.cap = index[a].cap
      <4>1. Holds(Rec(a), s) /\ Rec(a).age = 0
        BY <2>1, <2>2, <3>1, <3>2, <3>3 DEF Tracked, AgainIsNew, Holds
      <4>2. Rec(a)'.age \in {index[a].age, 0}
        <5>1. CASE index[a].pend # None /\ Rec(a)' = NotConfirmed(index[a])
          BY <2>2, <5>1, HeardIs, NotKnownIs
        <5>2. CASE index[a].pend # None /\ Rec(a)' = Confirmed(index[a])
          BY <2>2, <5>2, HeardIs
        <5> QED  BY <2>2, <5>1, <5>2, ToldIs
      <4> QED  BY <2>2, <4>1, <4>2
    <3>4. CASE Rec(a)' = Confirmed(index[a]) /\ index[a].pend # None
      BY <2>2, <3>4, HeardIs
    <3> QED  BY <2>6, <3>1, <3>3, <3>4 DEF Holds
  <2> QED  BY <2>1, <2>3, <2>4, <2>5, <2>7, <2>8 DEF Tracked, SeenRight
<1> QED  BY <1>2, <1>3, <1>4, <1>5, <1>6 DEF DomainInv

\* An address the answer says nothing new about.
LEMMA UnheardSeen ==
    ASSUME DomainInv, Answering, NEW a \in Addrs, a \notin astray, ~writing'.whole,
           ~Carries(queued, a) \/ a \in Missed(writing'), kernel'[a] = kernel[a]
    PROVE  SeenRight(a)'
<1> DEFINE r == index[a]
           u == Rec(a)'
<1>1. Tracked(a) /\ index'[a] = r /\ gate' = gate /\ returned' = returned /\ r \in Records
      /\ RecordFit(r)
  BY DEF DomainInv, DomainShape, Answering
<1>2. /\ Rec(a) = r
      /\ \A s : Leaving(a, s)' <=> Leaving(a, s)
      /\ u = IF r.pend = None \/ ~Carries(queued, a) THEN r ELSE NotConfirmed(r)
  BY AnsweringIs
<1>3. u.cap = r.cap /\ (u.cap # None => u.age = r.age)
  BY <1>1, <1>2, HeardIs, NotKnownIs
<1> HIDE DEF r, u
<1>4. \A s : Holds(u, s) <=> Holds(r, s)
  BY <1>3 DEF Holds
<1>5. \A s : Present(a, s)' <=> Present(a, s)
  BY DEF Present
<1>6. NothingElse(a)'
  BY <1>1, <1>2, <1>3, <1>4, <1>5 DEF Tracked, NothingElse, u
<1>7. Believed(a)'
  <2>1. SUFFICES ASSUME NEW s \in Structs, Holds(u, s)
                 PROVE  \/ /\ kernel'[a][s].age = u.age
                           /\ Present(a, s)' => kernel'[a][s].cap = u.cap
                        \/ /\ u.age = 0 /\ r.age = 0
                           /\ kernel'[a][s].cap = u.cap /\ GivenBack(returned', a, s)
    BY <1>1 DEF Believed, u
  <2>2. u.age = r.age
    BY <1>3, <2>1 DEF Holds
  <2> QED  BY <1>1, <1>2, <1>3, <1>4, <1>5, <2>1, <2>2 DEF Tracked, Believed, r
<1>8. LeavesSoon(a)'
  BY <1>1, <1>2, <1>3, <1>4, <1>5 DEF Tracked, LeavesSoon, u
<1> QED  BY <1>6, <1>7, <1>8 DEF SeenRight

\* A batch that was taken whole has deleted what it had to.
LEMMA DeletedSeen ==
    ASSUME DomainInv, Answering, NEW a \in Addrs, a \notin astray, writing'.whole,
           ~Carries(queued, a),
           \A s \in Structs : kernel'[a][s] = IF Deletes(queued, a, s) THEN Gone ELSE kernel[a][s]
    PROVE  SeenRight(a)'
<1> DEFINE r == index[a]
<1>1. Tracked(a) /\ index'[a] = r /\ gate' = gate /\ returned' = returned
  BY DEF DomainInv, Answering
<1>2. /\ Rec(a) = r /\ Rec(a)' = r
      /\ \A s : Leaving(a, s) => Leaving(a, s)' \/ Deletes(queued, a, s)
  BY AnsweringIs
<1> HIDE DEF r
<1>3. \A s \in Structs : Present(a, s)' => Present(a, s) /\ kernel'[a][s] = kernel[a][s]
                                           /\ ~Deletes(queued, a, s)
  BY DEF Present, Gone
<1>4. NothingElse(a)'
  BY <1>1, <1>2, <1>3 DEF Tracked, NothingElse
<1>5. LeavesSoon(a)'
  BY <1>1, <1>2, <1>3 DEF Tracked, LeavesSoon
<1>6. Believed(a)'
  <2>1. ASSUME NEW s \in Structs, Holds(r, s) PROVE kernel'[a][s] = kernel[a][s]
    BY <1>1, <1>2, <2>1 DEF Tracked, MovesWhole
  <2> QED  BY <1>1, <1>2, <2>1 DEF Tracked, Believed, Present, r
<1> QED  BY <1>4, <1>5, <1>6 DEF SeenRight

\* What was confirmed is there, and what is not it leaves.
LEMMA ConfirmedSeen ==
    ASSUME DomainInv, Answering, NEW a \in Addrs, a \notin astray,
           Carries(queued, a), a \notin Missed(writing'),
           NEW sp, sp = StructOf(index[a].pend),
           kernel'[a][sp].cap = index[a].pend,
           \/ kernel'[a][sp].age = 0
           \/ ~Deletes(queued, a, sp) /\ Present(a, sp) /\ kernel'[a][sp] = kernel[a][sp],
           \A s \in Structs : s # sp =>
               kernel'[a][s] = IF writing'.whole /\ Deletes(queued, a, s) THEN Gone ELSE kernel[a][s]
    PROVE  SeenRight(a)'
<1> DEFINE r == index[a]
<1>1. Tracked(a) /\ index'[a] = r /\ gate' = gate /\ returned' = returned /\ r \in Records
      /\ RecordFit(r) /\ gate \in BOOLEAN
  BY DEF DomainInv, DomainShape, Answering
<1>2. /\ Rec(a) = r /\ queued \in Batches
      /\ Rec(a)' = IF r.pend = None THEN r ELSE Confirmed(r)
      /\ \A s : Leaving(a, s)' <=> \/ Asks(adjusts, a, s) \/ Asks(owed, a, s)
                                   \/ ~writing'.whole /\ Deletes(queued, a, s)
                                   \/ GivenBack(returned, a, s)
      /\ \A s : Leaving(a, s) <=> \/ Asks(adjusts, a, s) \/ Asks(owed, a, s)
                                  \/ Deletes(queued, a, s) \/ GivenBack(returned, a, s)
  BY AnsweringIs
<1>3. r.pend \in Caps /\ r.pend # None
  <2>1. PICK x \in queued.adds : x.addr = a
    BY DEF Carries
  <2>2. x.cap = r.pend /\ x.cap \in Caps
    BY <1>1, <1>2, <2>1 DEF Tracked, WritesFit, BatchFit, Batches, Carries
  <2> QED  BY <2>2, CapsAre
<1>4. r.cap # None => Deletes(queued, a, StructOf(r.cap))
  BY <1>1 DEF Tracked, WritesFit, BatchFit, Carries
<1>5. Rec(a)' = Confirmed(r) /\ Confirmed(r).cap = r.pend /\ Confirmed(r).age = 0
  BY <1>1, <1>2, <1>3, HeardIs
<1>6. sp \in Structs /\ \A s : Holds(Confirmed(r), s) <=> s = sp
  BY <1>3, <1>5, CapsAre DEF Holds
<1>7. gate
  BY <1>3, NotKnownIs DEF DomainInv, GateIsClosed
<1> HIDE DEF r
<1>8. NothingElse(a)'
  <2>1. SUFFICES ASSUME NEW s \in Structs, Present(a, s)', ~Leaving(a, s)'
                 PROVE  s = sp /\ kernel'[a][s].cap = r.pend
    BY <1>5, <1>6 DEF NothingElse
  <2>2. ASSUME s # sp PROVE FALSE
    <3>1. kernel'[a][s] = kernel[a][s] /\ Present(a, s) /\ ~Deletes(queued, a, s)
      BY <1>2, <2>1, <2>2 DEF Present, Gone
    <3>2. ~Leaving(a, s)
      BY <1>2, <2>1, <3>1
    <3>3. Holds(r, s)
      BY <1>1, <1>2, <1>7, <3>1, <3>2 DEF Tracked, NothingElse
    <3> QED  BY <1>4, <3>1, <3>3 DEF Holds
  <2> QED  BY <2>2 DEF r
<1>9. LeavesSoon(a)'
  BY <1>5 DEF LeavesSoon
<1>10. Believed(a)'
  <2>1. SUFFICES kernel'[a][sp].age = 0 \/ (r.age = 0 /\ GivenBack(returned, a, sp))
    BY <1>1, <1>5, <1>6 DEF Believed, r
  <2>2. SUFFICES ASSUME ~Deletes(queued, a, sp), Present(a, sp) PROVE r.age = 0 /\ GivenBack(returned, a, sp)
    OBVIOUS
  <2>3. ~Holds(r, sp)
    BY <1>4, <2>2 DEF Holds
  <2>4. Leaving(a, sp)
    BY <1>1, <1>2, <1>6, <1>7, <2>2, <2>3 DEF Tracked, NothingElse
  <2>5. ~Asks(adjusts, a, sp) /\ ~Asks(owed, a, sp)
    BY <1>1, <1>3, <1>6 DEF Tracked, InOrder, r
  <2>6. r.age = 0
    <3>1. CASE r.cap = None
      BY <1>1, <1>3, <3>1, NotKnownIs DEF RecordFit
    <3>2. CASE r.cap # None
      BY <1>1, <1>2, <1>6, <1>7, <2>2, <2>3, <3>2 DEF Tracked, LeavesSoon
    <3> QED  BY <3>1, <3>2
  <2> QED  BY <1>2, <2>2, <2>4, <2>5, <2>6
<1> QED  BY <1>8, <1>9, <1>10 DEF SeenRight

\* The writes of an address nothing is wrong with are of one element.
LEMMA AddsAre ==
    ASSUME DomainInv, queued.busy, NEW a \in Addrs, a \notin astray, NEW x \in queued.adds, x.addr = a
    PROVE  x.cap = index[a].pend /\ x = [addr |-> a, cap |-> index[a].pend]
<1>1. x.cap = index[a].pend
  BY DEF DomainInv, Tracked, WritesFit, BatchFit
<1>2. x \in [addr : Addrs, cap : Caps]
  BY NoBatchIs DEF DomainInv, DomainShape, Batches
<1>3. x = [addr |-> x.addr, cap |-> x.cap]
  BY <1>2
<1> QED  BY <1>1, <1>3

LEMMA AplicaLoteStep ==
    ASSUME DomainInv, AplicaLote
    PROVE  DomainInv'
<1>1. /\ queued.busy /\ ~writing.busy /\ queued' = NoBatch
      /\ rows' = rows /\ gate' = gate /\ list' = list /\ index' = index /\ adjusts' = adjusts
      /\ owed' = owed /\ returned' = returned /\ astray' = astray
  BY DEF AplicaLote, indexVars
<1>2. /\ queued \in Batches /\ kernel \in [Addrs -> [Structs -> Elements]]
      /\ queued.adds \subseteq [addr : Addrs, cap : Caps] /\ queued.busy = TRUE
  BY <1>1, NoBatchIs DEF DomainInv, DomainShape, Batches
<1>3. ASSUME NEW w \in BOOLEAN, NEW f \in BOOLEAN, Answer(w, f)
      PROVE  Answering /\ writing'.whole = w /\ writing'.failed = f /\ writing'.batch = queued
  <2>1. writing' = [busy |-> TRUE, whole |-> w, failed |-> f, batch |-> queued]
    BY <1>3 DEF Answer
  <2>2. writing' \in AnswerRows
    BY <1>2, <2>1 DEF AnswerRows
  <2> QED  BY <1>1, <2>1, <2>2 DEF Answering
<1>4. \A a, s : (Deletes(queued, a, s) <=> <<a, s>> \in queued.dels)
                /\ (Carries(queued, a) <=> \E x \in queued.adds : x.addr = a)
  BY <1>2 DEF Deletes, Carries
<1>5. CASE LoteInteiro
  <2>1. Accepts(queued.adds, queued.dels) /\ kernel' = Applied(queued.adds, queued.dels)
        /\ Answering /\ writing'.whole = TRUE /\ writing'.failed = FALSE
    BY <1>3, <1>5 DEF LoteInteiro
  <2>2. \A a \in Addrs : \A s \in Structs : Made(kernel'[a][s], queued.adds, queued.dels, a, s)
    BY <1>2, <2>1, AppliedIs
  <2>3. kernel' \in [Addrs -> [Structs -> Elements]]
    <3>1. kernel' = [a \in Addrs |-> [s \in Structs |-> kernel'[a][s]]]
      BY <2>1 DEF Applied
    <3>2. \A a \in Addrs : \A s \in Structs : kernel'[a][s] \in Elements
      BY <2>2 DEF Made
    <3> QED  BY <3>1, <3>2
  <2>4. ASSUME NEW a \in Addrs \ astray PROVE SeenRight(a)'
    <3>6. \A s \in Structs : Deletes(queued, a, s) <=> <<a, s>> \in queued.dels
      BY <1>4
    <3>7. Carries(queued, a) <=> \E x \in queued.adds : x.addr = a
      BY <1>4
    <3>8. \A s \in Structs : Made(kernel'[a][s], queued.adds, queued.dels, a, s)
      BY <2>2, <2>4
    <3>1. CASE ~Carries(queued, a)
      <4>1. \A s \in Structs : kernel'[a][s] = IF Deletes(queued, a, s) THEN Gone ELSE kernel[a][s]
        BY <3>1, <3>6, <3>7, <3>8 DEF Made
      <4> QED  BY <2>1, <2>4, <3>1, <4>1, DeletedSeen
    <3>2. CASE Carries(queued, a)
      <4> DEFINE sp == StructOf(index[a].pend)
      <4>1. PICK x \in queued.adds : x.addr = a /\ x.cap = index[a].pend /\ x.cap \in Caps
        BY <1>1, <1>2, <2>4, <3>2, <3>7, AddsAre
      <4>2. sp \in Structs
        BY <4>1, CapsAre
      <4>3. \A y \in queued.adds : y.addr = a => y.cap = index[a].pend
        BY <1>1, <2>4, AddsAre
      <4> HIDE DEF sp
      <4>4. sp = StructOf(index[a].pend)
        BY DEF sp
      <4>5. /\ kernel'[a][sp].cap = index[a].pend
            /\ \/ kernel'[a][sp].age = 0
               \/ ~Deletes(queued, a, sp) /\ Present(a, sp) /\ kernel'[a][sp] = kernel[a][sp]
        BY <3>6, <3>8, <4>1, <4>2, <4>3, <4>4 DEF Made
      <4>6. \A s \in Structs : s # sp =>
               kernel'[a][s] = IF writing'.whole /\ Deletes(queued, a, s) THEN Gone ELSE kernel[a][s]
        BY <2>1, <3>6, <3>8, <4>3, <4>4 DEF Made
      <4>7. a \notin Missed(writing')
        BY <2>1 DEF Missed
      <4> QED  BY <2>1, <2>4, <3>2, <4>4, <4>5, <4>6, <4>7, ConfirmedSeen
    <3> QED  BY <3>1, <3>2
  <2> QED  BY <2>1, <2>3, <2>4, AnswerStep
<1>6. CASE SoAdicoes
  <2>1. Accepts(SoAdds(queued), {}) /\ kernel' = Applied(SoAdds(queued), {})
        /\ Answering /\ writing'.whole = FALSE /\ writing'.failed = FALSE /\ writing'.batch = queued
    BY <1>3, <1>6 DEF SoAdicoes
  <2>2. SoAdds(queued) \in SUBSET [addr : Addrs, cap : Caps]
    BY <1>2 DEF SoAdds
  <2>3. \A a \in Addrs : \A s \in Structs : Made(kernel'[a][s], SoAdds(queued), {}, a, s)
    BY <1>2, <2>1, <2>2, AppliedIs
  <2>4. kernel' \in [Addrs -> [Structs -> Elements]]
    <3>1. kernel' = [a \in Addrs |-> [s \in Structs |-> kernel'[a][s]]]
      BY <2>1 DEF Applied
    <3>2. \A a \in Addrs : \A s \in Structs : kernel'[a][s] \in Elements
      BY <2>3 DEF Made
    <3> QED  BY <3>1, <3>2
  <2>5. ASSUME NEW a \in Addrs \ astray PROVE SeenRight(a)'
    <3>6. \A s \in Structs : Deletes(queued, a, s) <=> <<a, s>> \in queued.dels
      BY <1>4
    <3>7. Carries(queued, a) <=> \E x \in queued.adds : x.addr = a
      BY <1>4
    <3>1. a \in Missed(writing') <=> \E x \in Renewals(queued) : x.addr = a
      BY <2>1 DEF Missed
    <3>2. ASSUME \A x \in SoAdds(queued) : x.addr # a PROVE kernel'[a] = kernel[a]
      <4>1. \A s \in Structs : kernel'[a][s] = kernel[a][s]
        BY <2>3, <2>5, <3>2 DEF Made
      <4>2. kernel'[a] \in [Structs -> Elements] /\ kernel[a] \in [Structs -> Elements]
        BY <1>2, <2>4, <2>5
      <4> QED  BY <4>1, <4>2
    <3>3. CASE ~Carries(queued, a)
      <4>1. \A x \in SoAdds(queued) : x.addr # a
        BY <1>4, <3>3 DEF SoAdds
      <4> QED  BY <2>1, <2>5, <3>2, <3>3, <4>1, UnheardSeen
    <3>4. CASE Carries(queued, a) /\ a \in Missed(writing')
      <4>1. PICK x \in Renewals(queued) : x.addr = a
        BY <3>1, <3>4
      <4>2. x \in queued.adds /\ x = [addr |-> a, cap |-> index[a].pend]
        BY <1>1, <2>5, <4>1, AddsAre DEF Renewals
      <4>3. ASSUME NEW y \in SoAdds(queued), y.addr = a PROVE FALSE
        <5>1. y \in queued.adds /\ y \notin Renewals(queued)
          BY <4>3 DEF SoAdds
        <5>2. y = [addr |-> a, cap |-> index[a].pend]
          BY <1>1, <2>5, <4>3, <5>1, AddsAre
        <5> QED  BY <4>1, <4>2, <5>1, <5>2
      <4> QED  BY <2>1, <2>5, <3>2, <3>4, <4>3, UnheardSeen
    <3>5. CASE Carries(queued, a) /\ a \notin Missed(writing')
      <4> DEFINE sp == StructOf(index[a].pend)
      <4>1. PICK x \in queued.adds : x.addr = a /\ x.cap = index[a].pend /\ x.cap \in Caps
        BY <1>1, <1>2, <2>5, <3>5, <3>7, AddsAre
      <4>2. sp \in Structs
        BY <4>1, CapsAre
      <4>3. x \in SoAdds(queued)
        BY <3>1, <3>5, <4>1 DEF SoAdds
      <4>4. \A y \in SoAdds(queued) : y.addr = a => y.cap = index[a].pend
        BY <1>1, <2>5, AddsAre DEF SoAdds
      <4>5. ~Deletes(queued, a, sp)
        BY <1>4, <3>1, <3>5, <4>1 DEF Renewals
      <4> HIDE DEF sp
      <4>6. sp = StructOf(index[a].pend)
        BY DEF sp
      <4>7. /\ kernel'[a][sp].cap = index[a].pend
            /\ kernel'[a][sp].age = 0 \/ (Present(a, sp) /\ kernel'[a][sp] = kernel[a][sp])
        BY <2>3, <2>5, <4>1, <4>2, <4>3, <4>4, <4>6 DEF Made
      <4>8. \A s \in Structs : s # sp => kernel'[a][s] = kernel[a][s]
        BY <2>3, <2>5, <4>4, <4>6 DEF Made
      <4> QED  BY <2>1, <2>5, <3>5, <4>5, <4>6, <4>7, <4>8, ConfirmedSeen
    <3> QED  BY <3>3, <3>4, <3>5
  <2> QED  BY <2>1, <2>4, <2>5, AnswerStep
<1>7. CASE LotePerdido
  <2>1. Answering /\ writing'.whole = FALSE /\ writing'.failed = TRUE /\ writing'.batch = queued
        /\ kernel' = kernel
    BY <1>3, <1>7 DEF LotePerdido
  <2>2. ASSUME NEW a \in Addrs \ astray PROVE SeenRight(a)'
    <3>1. Carries(queued, a) => a \in Missed(writing')
      BY <1>4, <2>1 DEF Missed, Added
    <3> QED  BY <2>1, <2>2, <3>1, UnheardSeen
  <2> QED  BY <1>2, <2>1, <2>2, AnswerStep
<1> QED  BY <1>5, <1>6, <1>7 DEF AplicaLote

\* The index hears the answer.
LEMMA LoteVoltaStep ==
    ASSUME DomainInv, LoteVolta
    PROVE  DomainInv'
<1> DEFINE lost == Lost(writing)
           gone == {x[1] : x \in {y \in writing.batch.dels :
                            /\ ~writing.whole /\ Present(y[1], y[2]) /\ ~Holds(Heard(y[1]), y[2])
                            /\ ~\E r \in lost : r.addr = y[1] /\ r.struct = y[2]}}
<1>1. /\ writing.busy /\ index' = [a \in Addrs |-> Heard(a)]
      /\ returned' = IF lost = {} THEN returned ELSE Append(returned, lost)
      /\ astray' = astray \cup gone /\ writing' = NoBatch
      /\ rows' = rows /\ gate' = gate /\ list' = list /\ adjusts' = adjusts
      /\ owed' = owed /\ queued' = queued /\ kernel' = kernel
  BY DEF LoteVolta
<1>2. /\ DomainShape /\ index \in [Addrs -> Records] /\ returned \in Seq(SUBSET RemovalRows)
      /\ astray \subseteq Addrs /\ writing \in {NoBatch} \cup AnswerRows
  BY DEF DomainInv, DomainShape
<1>3. /\ Flight(writing) = writing.batch /\ writing.batch \in Batches /\ writing.batch.busy
      /\ Flight(writing') = NoBatch
  <2>1. ~writing'.busy
    BY <1>1, NoBatchIs
  <2> QED  BY <1>1, <1>2, <2>1, FlightIs DEF Flight
<1>4. ASSUME NEW a \in Addrs
      PROVE  /\ Rec(a) = Heard(a) /\ index'[a] = Heard(a) /\ Rec(a)' = Heard(a)
             /\ Heard(a) = index[a] \/
                  (/\ index[a].pend # None /\ Carries(Flight(writing), a)
                   /\ Heard(a) \in {NotConfirmed(index[a]), Confirmed(index[a])})
             /\ Carries(Flight(writing), a) => index[a].pend = None \/ Heard(a).pend = None
             /\ index[a] \in Records /\ RecordFit(index[a])
  <2>1. Carries(Flight(writing), a) <=> a \in Added(writing.batch)
    BY <1>3 DEF Carries, Added
  <2>2. Rec(a) = Heard(a)
    BY <2>1 DEF Rec, Told, Heard
  <2>3. index'[a] = Heard(a)
    BY <1>1
  <2>4. Rec(a)' = index'[a]
    BY <1>1, <1>3, NoBatchIs DEF Rec, Told
  <2>5. index[a] \in Records /\ RecordFit(index[a])
    BY <1>2 DEF DomainInv
  <2>6. Heard(a) = index[a] \/
                  (/\ index[a].pend # None /\ Carries(Flight(writing), a)
                   /\ Heard(a) \in {NotConfirmed(index[a]), Confirmed(index[a])})
    BY <2>1 DEF Heard
  <2>7. ASSUME Carries(Flight(writing), a), index[a].pend # None PROVE Heard(a).pend = None
    <3>1. Heard(a) \in {NotConfirmed(index[a]), Confirmed(index[a])}
      BY <2>1, <2>7 DEF Heard
    <3> QED  BY <2>5, <2>7, <3>1, HeardIs, NotKnownIs
  <2> QED  BY <2>2, <2>3, <2>4, <2>5, <2>6, <2>7
<1>5. ASSUME NEW a \in Addrs PROVE Fit(Heard(a)) /\ (Heard(a).pend # None => Heard(a) = index[a])
  <2>1. CASE Heard(a) = index[a]
    BY <1>4, <2>1 DEF Fit
  <2>2. CASE index[a].pend # None /\ Heard(a) \in {NotConfirmed(index[a]), Confirmed(index[a])}
    <3>1. index[a].claims # {}
      BY <1>4, <2>2, NotKnownIs DEF RecordFit
    <3>2. CASE Heard(a) = Confirmed(index[a])
      BY <1>4, <2>2, <3>1, <3>2, HeardIs DEF Fit, RecordFit
    <3>3. CASE Heard(a) = NotConfirmed(index[a])
      <4>1. CASE index[a].cap = None
        BY <1>4, <2>2, <3>3, <4>1, HeardIs, NotKnownIs DEF Fit
      <4>2. CASE index[a].cap # None
        BY <1>4, <2>2, <3>1, <3>3, <4>2, HeardIs DEF Fit, RecordFit
      <4> QED  BY <4>1, <4>2
    <3> QED  BY <2>2, <3>2, <3>3
  <2> QED  BY <1>4, <2>1, <2>2
<1>6. lost \subseteq writing.batch.back /\ lost \subseteq RemovalRows
  BY <1>3 DEF Lost, Batches
<1> HIDE DEF lost
<1>7. /\ returned' \in Seq(SUBSET RemovalRows)
      /\ \A i \in DOMAIN returned : \E j \in DOMAIN returned' : returned'[j] = returned[i]
      /\ \A j \in DOMAIN returned' : returned'[j] = lost \/ \E i \in DOMAIN returned : returned[i] = returned'[j]
      /\ lost # {} => \E j \in DOMAIN returned' : returned'[j] = lost
  <2>1. CASE lost = {}
    BY <1>1, <1>2, <2>1
  <2>2. CASE lost # {}
    <3>1. returned' = Append(returned, lost)
      BY <1>1, <2>2
    <3>2. returned' \in Seq(SUBSET RemovalRows)
      BY <1>2, <1>6, <3>1
    <3>3. Len(returned) \in Nat /\ DOMAIN returned = 1..Len(returned) /\ DOMAIN returned' = 1..(Len(returned) + 1)
      BY <1>2, <1>6, <3>1
    <3>4. /\ \A i \in 1..Len(returned) : returned'[i] = returned[i]
          /\ returned'[Len(returned) + 1] = lost
      BY <1>2, <1>6, <3>1
    <3>5. Len(returned) + 1 \in DOMAIN returned'
      BY <3>3
    <3>6. ASSUME NEW j \in DOMAIN returned', returned'[j] # lost
          PROVE  \E i \in DOMAIN returned : returned[i] = returned'[j]
      BY <3>3, <3>4, <3>6
    <3> QED  BY <3>2, <3>3, <3>4, <3>5, <3>6
  <2> QED  BY <2>1, <2>2
<1>8. /\ \A a, s : GivenBack(returned, a, s) => GivenBack(returned', a, s)
      /\ \A a, s : (\E x \in lost : x.addr = a /\ x.struct = s) => GivenBack(returned', a, s)
  BY <1>7 DEF GivenBack
<1>9. gone \subseteq Addrs
  <2>1. writing.batch.dels \subseteq Addrs \X Structs
    BY <1>3 DEF Batches
  <2> QED  BY <2>1
<1>10. ASSUME NEW a \in Addrs \ astray', NEW s \in Structs, Refused(writing, a, s), Present(a, s), ~Holds(Heard(a), s)
       PROVE  \E x \in lost : x.addr = a /\ x.struct = s
  <2>1. <<a, s>> \in writing.batch.dels /\ ~writing.whole
    BY <1>10 DEF Refused
  <2>2. <<a, s>>[1] = a /\ <<a, s>>[2] = s
    OBVIOUS
  <2> QED  BY <1>1, <1>10, <2>1, <2>2
<1> HIDE DEF gone
<1>11. DomainShape'
  <2>1. index' \in [Addrs -> Records]
    BY <1>1, <1>5 DEF Fit
  <2> QED  BY <1>1, <1>2, <1>7, <1>9, <2>1 DEF DomainShape
<1>12. ASSUME NEW a \in Addrs PROVE RecordFit(index[a])' /\ Waits(a)'
  <2>1. RecordFit(index'[a])
    BY <1>4, <1>5 DEF Fit
  <2>2. ASSUME index'[a].pend # None PROVE Has(adjusts, a) \/ Has(owed, a) \/ Carries(queued, a)
    <3>1. index'[a] = index[a] /\ ~Carries(Flight(writing), a)
      BY <1>4, <1>5, <2>2
    <3> QED  BY <2>2, <3>1 DEF DomainInv, Waits
  <2> QED  BY <1>1, <2>1, <2>2 DEF Waits
<1>13. Backed(queued)' /\ Backed(Flight(writing))'
  BY <1>1, <1>3, NoBatchIs DEF DomainInv, Backed
<1>14. GateIsClosed'
  <2>1. ASSUME ~gate, NEW a \in Addrs PROVE index'[a] = NotKnown
    <3>1. index[a] = NotKnown
      BY <2>1 DEF DomainInv, GateIsClosed
    <3> QED  BY <1>4, <3>1, NotKnownIs
  <2>2. ~gate => Active(list) = {}
    BY DEF DomainInv, GateIsClosed
  <2> QED  BY <1>1, <2>1, <2>2 DEF GateIsClosed
<1>15. ASSUME NEW a \in Addrs \ astray' PROVE Tracked(a)'
  <2> DEFINE t == Heard(a)
  <2>1. a \in Addrs /\ Tracked(a)
    BY <1>1, <1>15 DEF DomainInv
  <2>2. Rec(a) = t /\ index'[a] = t /\ Rec(a)' = t
    BY <1>4, <2>1
  <2>3. \/ t = index[a]
        \/ ~Has(adjusts, a) /\ ~Has(owed, a) /\ ~Carries(queued, a)
    BY <1>4, <2>1 DEF Tracked, OneWrite
  <2>4. t.pend # None => t = index[a]
    BY <1>5, <2>1
  <2> HIDE DEF t
  <2>5. \A s : ~Carries(Flight(writing'), a) /\ ~Deletes(Flight(writing'), a, s) /\ ~Refused(writing', a, s)
               /\ ~TriedOf(Flight(writing'), a, s)
    BY <1>1, <1>3, NoBatchIs DEF Refused, TriedOf
  <2>6. WritesFit(a)'
    <3>1. BatchFit(Flight(writing'), t, a)
      BY <1>3, NoBatchIs DEF BatchFit
    <3>2. CASE t = index[a]
      BY <1>1, <2>1, <2>2, <3>1, <3>2 DEF Tracked, WritesFit
    <3>3. CASE ~Has(adjusts, a) /\ ~Has(owed, a) /\ ~Carries(queued, a)
      BY <1>1, <2>2, <3>1, <3>3 DEF WritesFit, OwedFit, BatchFit, Has, Carries
    <3> QED  BY <2>3, <3>2, <3>3
  <2>7. OneWrite(a)'
    BY <1>1, <2>1, <2>5 DEF Tracked, OneWrite
  <2>8. ASSUME NEW s \in Structs, Present(a, s), Leaving(a, s), ~Holds(t, s) PROVE Leaving(a, s)'
    <3>1. CASE Refused(writing, a, s)
      <4>1. \E x \in lost : x.addr = a /\ x.struct = s
        BY <1>10, <1>15, <2>8, <3>1 DEF t
      <4> QED  BY <1>8, <4>1 DEF Leaving
    <3>2. CASE ~Refused(writing, a, s)
      BY <1>1, <1>8, <2>8, <3>2 DEF Leaving
    <3> QED  BY <3>1, <3>2
  <2>9. Believed(a)'
    BY <1>1, <1>8, <2>1, <2>2 DEF Tracked, Believed, Present
  <2>10. NothingElse(a)'
    <3>1. SUFFICES ASSUME gate, NEW s \in Structs, Present(a, s), ~Leaving(a, s)'
                   PROVE  Holds(t, s) /\ kernel[a][s].cap = t.cap
      BY <1>1, <2>2 DEF NothingElse, Present
    <3>2. CASE Holds(t, s)
      BY <2>1, <2>2, <3>1, <3>2 DEF Tracked, Believed
    <3>3. CASE ~Holds(t, s)
      BY <2>1, <2>2, <2>8, <3>1, <3>3 DEF Tracked, NothingElse
    <3> QED  BY <3>2, <3>3
  <2>11. MovesWhole(a)'
    BY <1>1, <2>1, <2>2 DEF Tracked, MovesWhole
  <2>12. InOrder(a)'
    BY <1>1, <2>1, <2>2, <2>4, <2>5 DEF Tracked, InOrder
  <2>13. LeavesSoon(a)'
    BY <1>1, <2>1, <2>2 DEF Tracked, LeavesSoon, Present
  <2>14. AgainIsNew(a)'
    <3>1. \A s : TriedIn(returned', a, s) => TriedIn(returned, a, s) \/ TriedOf(Flight(writing), a, s)
      <4>1. \A s : Again(lost, a, s) => TriedOf(Flight(writing), a, s)
        BY <1>3, <1>6 DEF Again, TriedOf
      <4> QED  BY <1>7, <4>1 DEF TriedIn
    <3>2. \A s : Tried(a, s)' => Tried(a, s)
      BY <1>1, <2>5, <3>1 DEF Tried
    <3> QED  BY <2>1, <2>2, <3>2 DEF Tracked, AgainIsNew
  <2> QED  BY <2>6, <2>7, <2>9, <2>10, <2>11, <2>12, <2>13, <2>14 DEF Tracked
<1> QED  BY <1>11, <1>12, <1>13, <1>14, <1>15 DEF DomainInv

-----------------------------------------------------------------------------
(* Domains: every step, and what the invariant says *)

\* What is left of the scenario.
BudgetFits ==
    budget \in [rows : [Domains -> {"absent", "trial", "block"} \cup Marks],
               addrs : SUBSET Addrs, edits : Int, faults : Int]

DomainKept == DomainInv /\ BudgetFits

LEMMA BudgetStarts == DomainInit => BudgetFits
  BY DomainAssumption DEF DomainInit, BudgetFits

LEMMA BudgetStep ==
    ASSUME BudgetFits, DomainNext \/ UNCHANGED domainVars
    PROVE  BudgetFits'
<1>1. budget' = budget \/ ListEdit \/ DomFault
  <2>1. ASSUME NEW d \in Domains, EditRow(d) PROVE ListEdit \/ DomFault
    BY <2>1 DEF EditRow
  <2>2. ASSUME AplicaLote PROVE budget' = budget \/ DomFault
    <3>1. LoteInteiro => budget' = budget
      BY DEF LoteInteiro
    <3>2. SoAdicoes => budget' = budget \/ DomFault
      BY DEF SoAdicoes
    <3>3. LotePerdido => budget' = budget \/ DomFault
      BY DEF LotePerdido
    <3> QED  BY <2>2, <3>1, <3>2, <3>3 DEF AplicaLote
  <2>3. ASSUME NEW d \in Domains, NEW a, Aprende(d, a) \/ AprendeEmEnsaio(d, a) \/ EnsaioVence(d, a)
        PROVE  budget' = budget
    BY <2>3 DEF Aprende, AprendeEmEnsaio, EnsaioVence
  <2>4. ASSUME NEW c, Turns(c) PROVE ListEdit
    BY <2>4 DEF Turns
  <2>5. ASSUME Reconcile \/ DrenaAjustes \/ RecolocaRemocoes \/ Descarrega \/ LoteVolta
        PROVE  budget' = budget
    BY <2>5 DEF Reconcile, DrenaAjustes, RecolocaRemocoes, Descarrega, LoteVolta
  <2>6. ASSUME NEW a, Passa(a) \/ Poda(a) PROVE budget' = budget
    BY <2>6 DEF Passa, Poda
  <2>7. ASSUME DomainRestart \/ Provisiona \/ Segura PROVE budget' = budget \/ DomFault
    BY <2>7 DEF DomainRestart, Provisiona, Segura
  <2> QED  BY <2>1, <2>2, <2>3, <2>4, <2>5, <2>6, <2>7 DEF DomainNext, domainVars
<1>2. ListEdit => BudgetFits'
  <2>1. SUFFICES ASSUME budget' = [budget EXCEPT !.edits = @ - 1] PROVE BudgetFits'
    BY DEF ListEdit
  <2>2. budget.edits - 1 \in Int
    BY DEF BudgetFits
  <2> QED  BY <2>1, <2>2 DEF BudgetFits
<1>3. DomFault => BudgetFits'
  <2>1. SUFFICES ASSUME budget' = [budget EXCEPT !.faults = @ - 1] PROVE BudgetFits'
    BY DEF DomFault
  <2>2. budget.faults - 1 \in Int
    BY DEF BudgetFits
  <2> QED  BY <2>1, <2>2 DEF BudgetFits
<1>4. budget' = budget => BudgetFits'
  BY DEF BudgetFits
<1> QED  BY <1>1, <1>2, <1>3, <1>4

LEMMA DomainInvStep ==
    ASSUME DomainInv, BudgetFits, DomainNext \/ UNCHANGED domainVars
    PROVE  DomainInv'
<1>1. budget.addrs \subseteq Addrs
  BY DEF BudgetFits
<1>2. rows \in [Domains -> DomRows]
  BY DEF DomainInv, DomainShape
<1>3. CASE UNCHANGED domainVars
  BY <1>2, <1>3, QuietStep DEF domainVars, indexVars
<1>4. ASSUME NEW d \in Domains, EditRow(d) PROVE DomainInv'
  BY <1>4, EditRowStep
<1>5. ASSUME NEW d \in Domains, NEW a \in budget.addrs, Aprende(d, a) PROVE DomainInv'
  BY <1>1, <1>5, AprendeStep
<1>6. ASSUME NEW d \in Domains, NEW a \in budget.addrs, AprendeEmEnsaio(d, a) \/ EnsaioVence(d, a)
      PROVE  DomainInv'
  BY <1>2, <1>6, QuietStep DEF AprendeEmEnsaio, EnsaioVence
<1>7. ASSUME NEW c \in Caps, Turns(c) PROVE DomainInv'
  BY <1>2, <1>7, QuietStep DEF Turns, indexVars
<1>8. CASE Reconcile
  BY <1>8, ReconcileStep
<1>9. CASE DrenaAjustes
  BY <1>9, DrenaAjustesStep
<1>10. CASE RecolocaRemocoes
  BY <1>10, RecolocaStep
<1>11. CASE Descarrega
  BY <1>11, DescarregaStep
<1>12. CASE AplicaLote
  BY <1>12, AplicaLoteStep
<1>13. CASE LoteVolta
  BY <1>13, LoteVoltaStep
<1>14. ASSUME NEW a \in Addrs, Passa(a) PROVE DomainInv'
  BY <1>14, PassaStep
<1>15. ASSUME NEW a \in Addrs, Poda(a) PROVE DomainInv'
  BY <1>15, PodaStep
<1>16. CASE DomainRestart
  BY <1>16, DomainRestartStep
<1>17. CASE Provisiona
  BY <1>17, ProvisionaStep
<1>18. CASE Segura
  BY <1>18, SeguraStep
<1> QED
  BY <1>3, <1>4, <1>5, <1>6, <1>7, <1>8, <1>9, <1>10, <1>11, <1>12, <1>13, <1>14, <1>15, <1>16, <1>17,
     <1>18 DEF DomainNext

LEMMA DomainInvSays == DomainInv => MirrorIsRight /\ PendingIsCarried
<1> SUFFICES ASSUME DomainInv PROVE MirrorIsRight /\ PendingIsCarried
  OBVIOUS
<1>1. MirrorIsRight
  <2>1. SUFFICES ASSUME NEW a \in Addrs, gate, ~Carried(a), a \notin astray
                 PROVE  /\ \A s \in Structs : Present(a, s) => kernel[a][s].cap = index[a].cap
                        /\ Known(a) /\ ~index[a].doubtful /\ index[a].age < 2
                              => index[a].cap # None /\ Present(a, StructOf(index[a].cap))
    BY DEF MirrorIsRight, Settled
  <2>2. /\ Tracked(a) /\ index[a] \in Records /\ RecordFit(index[a]) /\ index[a].pend = None
        /\ \A s : ~GivenBack(returned, a, s)
        /\ \A s \in Structs : ~Leaving(a, s) /\ kernel[a][s] \in Elements
    BY <2>1, CarriedIs DEF DomainInv, DomainShape
  <2>3. Rec(a) = index[a]
    BY <2>2 DEF Rec, Told
  <2>4. \A s \in Structs : Present(a, s) => kernel[a][s].cap = index[a].cap
    BY <2>1, <2>2, <2>3 DEF Tracked, NothingElse
  <2>5. ASSUME Known(a), index[a].age < 2
        PROVE  index[a].cap # None /\ Present(a, StructOf(index[a].cap))
    <3> DEFINE s == StructOf(index[a].cap)
    <3>1. index[a].cap \in Caps
      BY <2>2, <2>5, RecordsAre DEF RecordFit, Known
    <3>2. s \in Structs /\ Holds(index[a], s) /\ index[a].cap # None
      BY <3>1, CapsAre DEF Holds
    <3> HIDE DEF s
    <3>3. kernel[a][s].age = index[a].age
      BY <2>2, <2>3, <3>2 DEF Tracked, Believed
    <3>4. kernel[a][s] \in Elements /\ kernel[a][s].age # 2
      BY <2>2, <2>5, <3>2, <3>3, RecordsAre
    <3>5. Present(a, s)
      BY <3>4, ElementsAre DEF Present
    <3> QED  BY <3>2, <3>5 DEF s
  <2> QED  BY <2>4, <2>5
<1>2. PendingIsCarried
  BY DEF DomainInv, Waits, Has, Carries, Flight, PendingIsCarried, NoBatch
<1> QED  BY <1>1, <1>2

-----------------------------------------------------------------------------
(* Series: the readings of a queue *)

SeriesWhole == [start : Windows, count : Nat]
SeriesRows == [step : Steps, start : Windows, count : Nat]
SpotsOf(q, I) == UNION {{i} \X (1..q[i].count) : i \in I}

LEMMA UpTo == ASSUME NEW n \in Nat PROVE IsFiniteSet(1..n) /\ Cardinality(1..n) = n
<1>1. IsFiniteSet(1..n) /\ Cardinality(1..n) = IF 1 > n THEN 0 ELSE n - 1 + 1
  BY FS_Interval
<1> QED  BY <1>1

\* A few buckets of a queue stand for finitely many readings.
LEMMA SpotsAre ==
    ASSUME NEW q, NEW I, IsFiniteSet(I), \A i \in I : q[i].count \in Nat
    PROVE  IsFiniteSet(SpotsOf(q, I)) /\ ReadingsOf(q, I) = Cardinality(SpotsOf(q, I))
           /\ ReadingsOf(q, I) \in Nat
<1> DEFINE part(i) == {i} \X (1..q[i].count)
           parts == {part(i) : i \in I}
<1>1. \A i \in I : IsFiniteSet(part(i))
  <2>1. ASSUME NEW i \in I PROVE IsFiniteSet(part(i))
    <3>1. IsFiniteSet({i}) /\ IsFiniteSet(1..q[i].count)
      BY FS_Singleton, UpTo
    <3> QED  BY <3>1, FS_Product
  <2> QED  BY <2>1
<1>2. IsFiniteSet(parts)
  <2>1. DEFINE f == [i \in I |-> part(i)]
  <2>2. f \in Surjection(I, parts)
    BY DEF Surjection
  <2> QED  BY <2>2, FS_Surjection
<1>3. IsFiniteSet(UNION parts)
  <2>1. \A T \in parts : IsFiniteSet(T)
    BY <1>1
  <2> HIDE DEF parts
  <2> QED  BY <1>2, <2>1, FS_UNION
<1> QED  BY <1>3, FS_CardinalityType DEF SpotsOf, ReadingsOf

\* One bucket more stands for its readings.
LEMMA OneBucketMore ==
    ASSUME NEW q, NEW I, IsFiniteSet(I), \A i \in I : q[i].count \in Nat,
           NEW k, k \notin I, q[k].count \in Nat
    PROVE  ReadingsOf(q, I \cup {k}) = ReadingsOf(q, I) + q[k].count
<1> DEFINE last == {k} \X (1..q[k].count)
<1>1. IsFiniteSet(I \cup {k}) /\ \A i \in I \cup {k} : q[i].count \in Nat
  BY FS_AddElement
<1>2. IsFiniteSet(last) /\ Cardinality(last) = q[k].count
  <2>1. IsFiniteSet({k}) /\ Cardinality({k}) = 1
    BY FS_Singleton
  <2>2. IsFiniteSet(1..q[k].count) /\ Cardinality(1..q[k].count) = q[k].count
    BY UpTo
  <2>3. IsFiniteSet(last) /\ Cardinality(last) = Cardinality({k}) * Cardinality(1..q[k].count)
    BY <2>1, <2>2, FS_Product
  <2>4. 1 * q[k].count = q[k].count
    OBVIOUS
  <2> HIDE DEF last
  <2> QED  BY <2>1, <2>2, <2>3, <2>4
<1>3. SpotsOf(q, I \cup {k}) = SpotsOf(q, I) \cup last
  BY DEF SpotsOf
<1>4. SpotsOf(q, I) \cap last = {}
  BY DEF SpotsOf
<1>5. Cardinality(SpotsOf(q, I) \cup last) = Cardinality(SpotsOf(q, I)) + Cardinality(last)
  <2> HIDE DEF last
  <2>1. IsFiniteSet(SpotsOf(q, I)) /\ Cardinality(SpotsOf(q, I)) \in Nat
    BY SpotsAre
  <2>2. Cardinality({}) = 0
    BY FS_EmptySet
  <2>3. Cardinality(SpotsOf(q, I) \cup last) = Cardinality(SpotsOf(q, I)) + Cardinality(last)
                                                 - Cardinality(SpotsOf(q, I) \cap last)
    BY <1>2, <2>1, FS_Union
  <2>4. Cardinality(SpotsOf(q, I) \cap last) = 0
    BY <1>4, <2>2
  <2> QED  BY <1>2, <2>1, <2>3, <2>4
<1> QED  BY <1>1, <1>2, <1>3, <1>5, SpotsAre

LEMMA NoBuckets == ASSUME NEW q PROVE ReadingsOf(q, {}) = 0
  BY FS_EmptySet DEF ReadingsOf

\* Buckets stand for the same readings wherever they are in a queue.
LEMMA SameBuckets ==
    ASSUME NEW p, NEW q, NEW I, \A i \in I : p[i].count = q[i].count
    PROVE  ReadingsOf(p, I) = ReadingsOf(q, I)
<1>1. \A i \in I : {i} \X (1..p[i].count) = {i} \X (1..q[i].count)
  OBVIOUS
<1>2. {{i} \X (1..p[i].count) : i \in I} = {{i} \X (1..q[i].count) : i \in I}
  BY <1>1
<1> QED  BY <1>2 DEF ReadingsOf

IsSpot(x, q, I) == \E i \in I : \E k \in 1..q[i].count : x = <<i, k>>

LEMMA InSpots ==
    ASSUME NEW q, NEW I, NEW x
    PROVE  x \in SpotsOf(q, I) <=> IsSpot(x, q, I)
<1>1. ASSUME x \in SpotsOf(q, I) PROVE \E i \in I : \E k \in 1..q[i].count : x = <<i, k>>
  <2>1. PICK i \in I : x \in {i} \X (1..q[i].count)
    BY <1>1 DEF SpotsOf
  <2>2. x = <<i, x[2]>> /\ x[2] \in 1..q[i].count
    BY <2>1
  <2> QED  BY <2>2
<1>2. ASSUME NEW i \in I, NEW k \in 1..q[i].count PROVE <<i, k>> \in SpotsOf(q, I)
  <2>1. <<i, k>> \in {i} \X (1..q[i].count)
    OBVIOUS
  <2> QED  BY <2>1 DEF SpotsOf
<1> QED  BY <1>1, <1>2 DEF IsSpot

LEMMA ShiftedBuckets ==
    ASSUME NEW p, NEW q, NEW J \in SUBSET Int, IsFiniteSet(J),
           \A j \in J : p[j].count \in Nat /\ p[j].count = q[j + 1].count
    PROVE  ReadingsOf(p, J) = ReadingsOf(q, {j + 1 : j \in J})
<1> DEFINE S == SpotsOf(p, J)
           T == SpotsOf(q, {j + 1 : j \in J})
           f == [x \in S |-> <<x[1] + 1, x[2]>>]
<1>2. IsFiniteSet(S) /\ ReadingsOf(p, J) = Cardinality(S)
  BY SpotsAre
<1>3. ASSUME NEW x PROVE x \in S <=> \E i \in J : \E k \in 1..p[i].count : x = <<i, k>>
  <2>1. x \in SpotsOf(p, J) <=> IsSpot(x, p, J)
    BY InSpots
  <2> QED  BY <2>1 DEF IsSpot
<1>4. ASSUME NEW x PROVE x \in T <=> \E j \in J : \E k \in 1..q[j + 1].count : x = <<j + 1, k>>
  <2> DEFINE up == {j + 1 : j \in J}
  <2>1. x \in SpotsOf(q, up) <=> IsSpot(x, q, up)
    BY InSpots
  <2>2. (\E i \in up : \E k \in 1..q[i].count : x = <<i, k>>)
          <=> (\E j \in J : \E k \in 1..q[j + 1].count : x = <<j + 1, k>>)
    OBVIOUS
  <2> QED  BY <2>1, <2>2 DEF IsSpot
<1>5. f \in [S -> T]
  <2>1. ASSUME NEW x \in S PROVE <<x[1] + 1, x[2]>> \in T
    <3>1. PICK j \in J : \E k \in 1..p[j].count : x = <<j, k>>
      BY <1>3
    <3>2. PICK k \in 1..p[j].count : x = <<j, k>>
      BY <3>1
    <3>3. k \in 1..q[j + 1].count /\ <<x[1] + 1, x[2]>> = <<j + 1, k>>
      BY <3>2
    <3> HIDE DEF T
    <3> QED  BY <1>4, <3>3
  <2> HIDE DEF S, T
  <2> QED  BY <2>1
<1>6. \A x, y \in S : f[x] = f[y] => x = y
  <2>1. ASSUME NEW x \in S, NEW y \in S, f[x] = f[y] PROVE x = y
    <3>1. f[x] = <<x[1] + 1, x[2]>> /\ f[y] = <<y[1] + 1, y[2]>>
      OBVIOUS
    <3>2. PICK i \in J : \E k \in 1..p[i].count : x = <<i, k>>
      BY <1>3
    <3>3. PICK j \in J : \E k \in 1..p[j].count : y = <<j, k>>
      BY <1>3
    <3>4. x[1] + 1 = y[1] + 1 /\ x[2] = y[2]
      BY <2>1, <3>1
    <3>5. i \in Int /\ j \in Int /\ x[1] = i /\ y[1] = j /\ x = <<i, x[2]>> /\ y = <<j, y[2]>>
      BY <3>2, <3>3
    <3> QED  BY <3>4, <3>5
  <2> QED  BY <2>1
<1>7. \A z \in T : \E x \in S : f[x] = z
  <2>1. ASSUME NEW z \in T PROVE \E x \in S : f[x] = z
    <3>1. PICK j \in J : \E k \in 1..q[j + 1].count : z = <<j + 1, k>>
      BY <1>4
    <3>2. PICK k \in 1..q[j + 1].count : z = <<j + 1, k>>
      BY <3>1
    <3>3. <<j, k>> \in S
      BY <1>3, <3>2
    <3>4. f[<<j, k>>] = <<j + 1, k>>
      BY <3>3
    <3> QED  BY <3>2, <3>3, <3>4
  <2> QED  BY <2>1
<1>8. ExistsBijection(S, T)
  <2> HIDE DEF S, T, f
  <2>1. f \in Bijection(S, T)
    BY <1>5, <1>6, <1>7 DEF Bijection, Injection, Surjection, IsInjective
  <2> QED  BY <2>1 DEF ExistsBijection
<1>9. Cardinality(T) = Cardinality(S)
  BY <1>2, <1>8, FS_Bijection
<1> QED  BY <1>2, <1>9 DEF ReadingsOf, SpotsOf

-----------------------------------------------------------------------------
(* Series: what a queue holds of a row *)

ClosedOf(q, s, w) == ReadingsOf(q, {i \in DOMAIN q : Start(s, q[i].start) = w})
RowsOf(q, s, w) == ReadingsOf(q, {i \in DOMAIN q : q[i].step = s /\ q[i].start = w})
Mine(b, s, w) == IF Start(s, b.start) = w THEN b.count ELSE 0
MyRow(r, s, w) == IF r.step = s /\ r.start = w THEN r.count ELSE 0

\* A queue of which certain places count: with an entry behind.
LEMMA CountsAppend ==
    ASSUME NEW S, NEW q \in Seq(S), NEW e \in S, \A x \in S : x.count \in Nat,
           NEW I \in SUBSET (DOMAIN q), NEW J,
           J = I \cup {Len(q) + 1} \/ J = I
    PROVE  ReadingsOf(Append(q, e), J)
             = ReadingsOf(q, I) + (IF J = I THEN 0 ELSE e.count)
<1> DEFINE a == Append(q, e)
<1>1. /\ a \in Seq(S) /\ Len(a) = Len(q) + 1 /\ Len(q) \in Nat /\ DOMAIN q = 1..Len(q)
      /\ \A i \in 1..Len(q) : a[i] = q[i] /\ q[i] \in S
      /\ a[Len(q) + 1] = e
  BY AppendProperties, LenProperties
<1> HIDE DEF a
<1>2. IsFiniteSet(I) /\ Len(q) + 1 \notin I
  <2>1. IsFiniteSet(1..Len(q)) /\ I \in SUBSET (1..Len(q))
    BY <1>1, FS_Interval
  <2>2. IsFiniteSet(I)
    BY <2>1, FS_Subset
  <2> QED  BY <1>1, <2>1, <2>2
<1>3. ReadingsOf(a, I) = ReadingsOf(q, I) /\ \A i \in I : a[i].count \in Nat
  BY <1>1, SameBuckets
<1>4. ReadingsOf(q, I) \in Nat
  BY <1>1, <1>2, SpotsAre
<1>5. CASE J = I
  BY <1>3, <1>4, <1>5 DEF a
<1>6. CASE J # I
  <2>1. ReadingsOf(a, I \cup {Len(q) + 1}) = ReadingsOf(a, I) + e.count
    BY <1>1, <1>2, <1>3, OneBucketMore
  <2> QED  BY <1>3, <1>6, <2>1 DEF a
<1> QED  BY <1>5, <1>6

\* And with the first one gone.
LEMMA CountsTail ==
    ASSUME NEW S, NEW q \in Seq(S), q # <<>>, \A x \in S : x.count \in Nat,
           NEW J \in SUBSET (DOMAIN Tail(q)), NEW I,
           I = {j + 1 : j \in J} \cup {1} \/ I = {j + 1 : j \in J}
    PROVE  ReadingsOf(q, I) = ReadingsOf(Tail(q), J) + (IF 1 \in I THEN Head(q).count ELSE 0)
<1> DEFINE t == Tail(q)
           up == {j + 1 : j \in J}
<1>1. /\ t \in Seq(S) /\ Len(t) = Len(q) - 1 /\ Len(t) \in Nat /\ DOMAIN t = 1..Len(t)
      /\ \A i \in 1..Len(t) : t[i] = q[i + 1] /\ t[i] \in S
      /\ Head(q) = q[1] /\ Head(q) \in S
  BY HeadTailProperties, LenProperties
<1> HIDE DEF t
<1>2. J \in SUBSET (1..Len(t))
  BY <1>1 DEF t
<1>3. IsFiniteSet(J) /\ J \in SUBSET Int /\ ReadingsOf(t, J) = ReadingsOf(q, up)
  <2>1. IsFiniteSet(1..Len(t)) /\ J \in SUBSET Int
    BY <1>1, <1>2, FS_Interval
  <2>2. IsFiniteSet(J)
    BY <1>2, <2>1, FS_Subset
  <2>3. \A j \in J : t[j].count \in Nat /\ t[j].count = q[j + 1].count
    BY <1>1, <1>2
  <2> HIDE DEF up
  <2>4. ReadingsOf(t, J) = ReadingsOf(q, {j + 1 : j \in J})
    BY <2>1, <2>2, <2>3, ShiftedBuckets
  <2> QED  BY <2>1, <2>2, <2>4 DEF up
<1>4. IsFiniteSet(up) /\ 1 \notin up
  <2>1. up \subseteq 1..(Len(t) + 1) /\ 1 \notin up
    BY <1>1, <1>2
  <2>2. IsFiniteSet(1..(Len(t) + 1))
    BY <1>1, FS_Interval
  <2> QED  BY <2>1, <2>2, FS_Subset
<1>5. \A i \in up : q[i].count \in Nat
  BY <1>1, <1>2
<1>6. ReadingsOf(q, up) \in Nat
  BY <1>4, <1>5, SpotsAre
<1>7. CASE I = up \cup {1}
  <2>1. ReadingsOf(q, up \cup {1}) = ReadingsOf(q, up) + q[1].count
    <3>1. q[1].count \in Nat
      BY <1>1
    <3> HIDE DEF up
    <3> QED  BY <1>4, <1>5, <3>1, OneBucketMore
  <2>2. 1 \in I
    BY <1>7
  <2> HIDE DEF up
  <2> QED  BY <1>1, <1>3, <1>7, <2>1, <2>2 DEF t
<1>8. CASE I = up
  BY <1>3, <1>4, <1>6, <1>8 DEF t
<1> QED  BY <1>7, <1>8

LEMMA StartIs ==
    ASSUME NEW s \in Steps, NEW w \in Windows
    PROVE  /\ Start(s, w) \in Windows /\ Start("native", w) = w
           /\ \A v \in Windows : w <= v => Start(s, w) <= Start(s, v)
<1>1. w \in Nat /\ LastWindow \in Nat /\ Rollup \in Nat \ {0}
  BY MetricAssumption DEF Windows
<1>2. w \div Rollup \in Nat /\ w \div Rollup <= w
  BY <1>1
<1>3. ASSUME NEW v \in Windows, w <= v PROVE w \div Rollup <= v \div Rollup
  <2>1. v \in Nat
    BY <1>1 DEF Windows
  <2> QED  BY <1>1, <1>3, <2>1
<1> QED  BY <1>1, <1>2, <1>3 DEF Start, Windows

LEMMA ClosedNone == \A s, w : ClosedOf(<<>>, s, w) = 0
<1>1. ASSUME NEW s, NEW w PROVE ClosedOf(<<>>, s, w) = 0
  <2>1. {i \in DOMAIN <<>> : Start(s, <<>>[i].start) = w} = {}
    OBVIOUS
  <2> QED  BY <2>1, NoBuckets DEF ClosedOf
<1> QED  BY <1>1

LEMMA ClosedNoneOf ==
    ASSUME NEW q, NEW s, NEW w, \A i \in DOMAIN q : Start(s, q[i].start) # w
    PROVE  ClosedOf(q, s, w) = 0
<1>1. {i \in DOMAIN q : Start(s, q[i].start) = w} = {}
  OBVIOUS
<1> QED  BY <1>1, NoBuckets DEF ClosedOf

LEMMA ClosedAppend ==
    ASSUME NEW q \in Seq(SeriesWhole), NEW b \in SeriesWhole, NEW s, NEW w
    PROVE  ClosedOf(Append(q, b), s, w) = ClosedOf(q, s, w) + Mine(b, s, w)
<1> DEFINE a == Append(q, b)
           I == {i \in DOMAIN q : Start(s, q[i].start) = w}
           J == {i \in DOMAIN a : Start(s, a[i].start) = w}
<1>1. /\ Len(q) \in Nat /\ DOMAIN q = 1..Len(q) /\ DOMAIN a = 1..(Len(q) + 1)
      /\ \A i \in 1..Len(q) : a[i] = q[i]
      /\ a[Len(q) + 1] = b
  BY AppendProperties, LenProperties
<1>2. J = IF Start(s, b.start) = w THEN I \cup {Len(q) + 1} ELSE I
  <2> HIDE DEF a
  <2> QED  BY <1>1
<1>3. I \in SUBSET (DOMAIN q) /\ Len(q) + 1 \notin I
  BY <1>1
<1>4. \A x \in SeriesWhole : x.count \in Nat
  BY DEF SeriesWhole
<1> HIDE DEF I, J
<1>5. ReadingsOf(a, J) = ReadingsOf(q, I) + (IF J = I THEN 0 ELSE b.count)
  BY <1>2, <1>3, <1>4, CountsAppend
<1>6. J = I <=> Start(s, b.start) # w
  BY <1>2, <1>3
<1>7. ReadingsOf(a, J) = ReadingsOf(q, I) + Mine(b, s, w)
  BY <1>5, <1>6 DEF Mine
<1> QED  BY <1>7 DEF ClosedOf, I, J

LEMMA ClosedTail ==
    ASSUME NEW q \in Seq(SeriesWhole), q # <<>>, NEW s, NEW w
    PROVE  ClosedOf(q, s, w) = ClosedOf(Tail(q), s, w) + Mine(Head(q), s, w)
<1> DEFINE t == Tail(q)
           I == {i \in DOMAIN q : Start(s, q[i].start) = w}
           J == {i \in DOMAIN t : Start(s, t[i].start) = w}
<1>1. /\ Len(q) \in Nat /\ DOMAIN q = 1..Len(q) /\ DOMAIN t = 1..(Len(q) - 1) /\ Len(q) >= 1
      /\ \A i \in 1..(Len(q) - 1) : t[i] = q[i + 1]
      /\ Head(q) = q[1]
  <2>1. t \in Seq(SeriesWhole) /\ Len(t) = Len(q) - 1 /\ Len(t) \in Nat /\ Len(q) \in Nat
        /\ \A i \in 1..Len(t) : t[i] = q[i + 1]
    BY HeadTailProperties, LenProperties
  <2> HIDE DEF t
  <2>2. DOMAIN t = 1..Len(t) /\ DOMAIN q = 1..Len(q)
    BY <2>1, LenProperties
  <2> QED  BY <2>1, <2>2
<1>2. I = IF Start(s, Head(q).start) = w THEN {j + 1 : j \in J} \cup {1} ELSE {j + 1 : j \in J}
  <2> HIDE DEF t
  <2>1. ASSUME NEW i \in I PROVE i = 1 \/ i \in {j + 1 : j \in J}
    <3>1. CASE i # 1
      <4>1. i - 1 \in 1..(Len(q) - 1) /\ t[i - 1] = q[i] /\ i = (i - 1) + 1
        BY <1>1, <3>1
      <4>2. i - 1 \in J
        BY <1>1, <4>1
      <4> QED  BY <4>1, <4>2
    <3> QED  BY <3>1
  <2>2. ASSUME NEW j \in J PROVE j + 1 \in I /\ j + 1 # 1
    BY <1>1
  <2>3. 1 \in I <=> Start(s, Head(q).start) = w
    BY <1>1
  <2> QED  BY <2>1, <2>2, <2>3
<1>3. J \in SUBSET (DOMAIN Tail(q)) /\ 1 \notin {j + 1 : j \in J}
  <2>1. J \in SUBSET (1..(Len(q) - 1))
    BY <1>1
  <2> QED  BY <1>1, <2>1
<1>4. \A x \in SeriesWhole : x.count \in Nat
  BY DEF SeriesWhole
<1> HIDE DEF I, J, t
<1>5. ReadingsOf(q, I) = ReadingsOf(Tail(q), J) + (IF 1 \in I THEN Head(q).count ELSE 0)
  BY <1>2, <1>3, <1>4, CountsTail
<1>6. ReadingsOf(q, I) = ReadingsOf(Tail(q), J) + Mine(Head(q), s, w)
  BY <1>2, <1>3, <1>5 DEF Mine
<1> QED  BY <1>6 DEF ClosedOf, I, J, t

LEMMA RowsNone == \A s, w : RowsOf(<<>>, s, w) = 0
<1>1. ASSUME NEW s, NEW w PROVE RowsOf(<<>>, s, w) = 0
  <2>1. {i \in DOMAIN <<>> : <<>>[i].step = s /\ <<>>[i].start = w} = {}
    OBVIOUS
  <2> QED  BY <2>1, NoBuckets DEF RowsOf
<1> QED  BY <1>1

LEMMA RowsNoneOf ==
    ASSUME NEW q, NEW s, NEW w, \A i \in DOMAIN q : ~(q[i].step = s /\ q[i].start = w)
    PROVE  RowsOf(q, s, w) = 0
<1>1. {i \in DOMAIN q : q[i].step = s /\ q[i].start = w} = {}
  OBVIOUS
<1> QED  BY <1>1, NoBuckets DEF RowsOf

LEMMA RowsAppend ==
    ASSUME NEW q \in Seq(SeriesRows), NEW b \in SeriesRows, NEW s, NEW w
    PROVE  RowsOf(Append(q, b), s, w) = RowsOf(q, s, w) + MyRow(b, s, w)
<1> DEFINE a == Append(q, b)
           I == {i \in DOMAIN q : q[i].step = s /\ q[i].start = w}
           J == {i \in DOMAIN a : a[i].step = s /\ a[i].start = w}
<1>1. /\ Len(q) \in Nat /\ DOMAIN q = 1..Len(q) /\ DOMAIN a = 1..(Len(q) + 1)
      /\ \A i \in 1..Len(q) : a[i] = q[i]
      /\ a[Len(q) + 1] = b
  BY AppendProperties, LenProperties
<1>2. J = IF b.step = s /\ b.start = w THEN I \cup {Len(q) + 1} ELSE I
  <2> HIDE DEF a
  <2> QED  BY <1>1
<1>3. I \in SUBSET (DOMAIN q) /\ Len(q) + 1 \notin I
  BY <1>1
<1>4. \A x \in SeriesRows : x.count \in Nat
  BY DEF SeriesRows
<1> HIDE DEF I, J
<1>5. ReadingsOf(a, J) = ReadingsOf(q, I) + (IF J = I THEN 0 ELSE b.count)
  BY <1>2, <1>3, <1>4, CountsAppend
<1>6. J = I <=> ~(b.step = s /\ b.start = w)
  BY <1>2, <1>3
<1>7. ReadingsOf(a, J) = ReadingsOf(q, I) + MyRow(b, s, w)
  BY <1>5, <1>6 DEF MyRow
<1> QED  BY <1>7 DEF RowsOf, I, J

LEMMA RowsTail ==
    ASSUME NEW q \in Seq(SeriesRows), q # <<>>, NEW s, NEW w
    PROVE  RowsOf(q, s, w) = RowsOf(Tail(q), s, w) + MyRow(Head(q), s, w)
<1> DEFINE t == Tail(q)
           I == {i \in DOMAIN q : q[i].step = s /\ q[i].start = w}
           J == {i \in DOMAIN t : t[i].step = s /\ t[i].start = w}
<1>1. /\ Len(q) \in Nat /\ DOMAIN q = 1..Len(q) /\ DOMAIN t = 1..(Len(q) - 1) /\ Len(q) >= 1
      /\ \A i \in 1..(Len(q) - 1) : t[i] = q[i + 1]
      /\ Head(q) = q[1]
  <2>1. t \in Seq(SeriesRows) /\ Len(t) = Len(q) - 1 /\ Len(t) \in Nat /\ Len(q) \in Nat
        /\ \A i \in 1..Len(t) : t[i] = q[i + 1]
    BY HeadTailProperties, LenProperties
  <2> HIDE DEF t
  <2>2. DOMAIN t = 1..Len(t) /\ DOMAIN q = 1..Len(q)
    BY <2>1, LenProperties
  <2> QED  BY <2>1, <2>2
<1>2. I = IF Head(q).step = s /\ Head(q).start = w THEN {j + 1 : j \in J} \cup {1} ELSE {j + 1 : j \in J}
  <2> HIDE DEF t
  <2>1. ASSUME NEW i \in I PROVE i = 1 \/ i \in {j + 1 : j \in J}
    <3>1. CASE i # 1
      <4>1. i - 1 \in 1..(Len(q) - 1) /\ t[i - 1] = q[i] /\ i = (i - 1) + 1
        BY <1>1, <3>1
      <4>2. i - 1 \in J
        BY <1>1, <4>1
      <4> QED  BY <4>1, <4>2
    <3> QED  BY <3>1
  <2>2. ASSUME NEW j \in J PROVE j + 1 \in I /\ j + 1 # 1
    BY <1>1
  <2>3. 1 \in I <=> (Head(q).step = s /\ Head(q).start = w)
    BY <1>1
  <2> QED  BY <2>1, <2>2, <2>3
<1>3. J \in SUBSET (DOMAIN Tail(q)) /\ 1 \notin {j + 1 : j \in J}
  <2>1. J \in SUBSET (1..(Len(q) - 1))
    BY <1>1
  <2> QED  BY <1>1, <2>1
<1>4. \A x \in SeriesRows : x.count \in Nat
  BY DEF SeriesRows
<1> HIDE DEF I, J, t
<1>5. ReadingsOf(q, I) = ReadingsOf(Tail(q), J) + (IF 1 \in I THEN Head(q).count ELSE 0)
  BY <1>2, <1>3, <1>4, CountsTail
<1>6. ReadingsOf(q, I) = ReadingsOf(Tail(q), J) + MyRow(Head(q), s, w)
  BY <1>2, <1>3, <1>5 DEF MyRow
<1> QED  BY <1>6 DEF RowsOf, I, J, t

-----------------------------------------------------------------------------
(* Series: the invariant *)

SeriesShape ==
    /\ window \in Windows
    /\ sampled \in [Steps -> [Windows -> Nat]] /\ metricRows \in [Steps -> [Windows -> Nat]]
    /\ nativeBucket \in SeriesWhole /\ longBucket \in SeriesWhole
    /\ closedBuckets \in Seq(SeriesWhole)
    /\ writer \in [at : {"waits", "drains", "closes", "writes", "last"}, now : Windows,
                   all : BOOLEAN, rows : Seq(SeriesRows)]

\* Buckets are closed in the order of their windows.
BucketsInOrder ==
    /\ \A i, j \in DOMAIN closedBuckets : i < j => closedBuckets[i].start < closedBuckets[j].start
    /\ \A i \in DOMAIN closedBuckets : closedBuckets[i].start <= window
    /\ Pending(nativeBucket) =>
         /\ nativeBucket.start <= window
         /\ \A i \in DOMAIN closedBuckets : closedBuckets[i].start < nativeBucket.start
    /\ Pending(longBucket) =>
         /\ longBucket.start <= Start("long", window)
         /\ \A i \in DOMAIN closedBuckets : longBucket.start <= Start("long", closedBuckets[i].start)
         /\ Pending(nativeBucket) => longBucket.start <= Start("long", nativeBucket.start)

\* Under the lock no reading comes in.
LockIsHeld ==
    /\ writer.at = "closes" /\ Pending(nativeBucket) => ~writer.all /\ nativeBucket.start = writer.now
    /\ writer.at \in {"waits", "drains"} => writer.rows = <<>>
    /\ writer.at # "closes" /\ ~Pending(nativeBucket) => closedBuckets = <<>>

Undamaged(s, w) == \A t \in damaged : t.step # s \/ t.start # w

\* A reading of this row is in a bucket that is not closed, or not rolled.
Gathering(s, w) ==
    \/ Pending(nativeBucket) /\ Start(s, nativeBucket.start) = w
    \/ \E i \in DOMAIN closedBuckets : Start(s, closedBuckets[i].start) = w
    \/ s = "long" /\ Pending(longBucket) /\ longBucket.start = w

IsOf(r, s, w) == r.step = s /\ r.start = w
EmittedIn(q, s, w) == \E i \in DOMAIN q : IsOf(q[i], s, w)
OnceIn(q, s, w) == \A i, j \in DOMAIN q : IsOf(q[i], s, w) /\ IsOf(q[j], s, w) => i = j

\* A row is emitted once, when no reading of it can come any more.
ClosedOnce(s, w) ==
    /\ EmittedIn(writer.rows, s, w) \/ metricRows[s][w] # 0
         => w < Start(s, window) /\ ~Gathering(s, w)
    /\ EmittedIn(writer.rows, s, w) => metricRows[s][w] = 0
    /\ OnceIn(writer.rows, s, w)

RowIsKept(s, w) == Undamaged(s, w) => IsWhole(s, w) /\ ClosedOnce(s, w)

SeriesInv ==
    /\ SeriesShape /\ BucketsInOrder /\ LockIsHeld
    /\ \A s \in Steps : \A w \in Windows : RowIsKept(s, w)

-----------------------------------------------------------------------------

LongPart(b, s, w) == IF s = "long" /\ b.start = w THEN b.count ELSE 0

LEMMA RowBehind ==
    ASSUME NEW q \in Seq(SeriesRows), NEW r \in SeriesRows, NEW s, NEW w
    PROVE  /\ EmittedIn(Append(q, r), s, w) <=> EmittedIn(q, s, w) \/ IsOf(r, s, w)
           /\ OnceIn(q, s, w) /\ (IsOf(r, s, w) => ~EmittedIn(q, s, w)) => OnceIn(Append(q, r), s, w)
<1> DEFINE a == Append(q, r)
<1>1. /\ Len(q) \in Nat /\ DOMAIN q = 1..Len(q) /\ DOMAIN a = 1..(Len(q) + 1)
      /\ \A i \in 1..Len(q) : a[i] = q[i]
      /\ a[Len(q) + 1] = r
  BY AppendProperties, LenProperties
<1> HIDE DEF a
<1>2. DOMAIN a = DOMAIN q \cup {Len(q) + 1} /\ \A i \in DOMAIN q : a[i] = q[i]
  BY <1>1
<1>3. EmittedIn(a, s, w) <=> EmittedIn(q, s, w) \/ IsOf(r, s, w)
  BY <1>1, <1>2 DEF EmittedIn
<1>4. ASSUME OnceIn(q, s, w), IsOf(r, s, w) => ~EmittedIn(q, s, w) PROVE OnceIn(a, s, w)
  <2>1. ASSUME NEW i \in DOMAIN a, NEW j \in DOMAIN a, IsOf(a[i], s, w), IsOf(a[j], s, w)
        PROVE  i = j
    <3>1. CASE i \in DOMAIN q /\ j \in DOMAIN q
      BY <1>2, <1>4, <2>1, <3>1 DEF OnceIn
    <3>2. CASE i \notin DOMAIN q \/ j \notin DOMAIN q
      <4>1. IsOf(r, s, w)
        BY <1>1, <1>2, <2>1, <3>2
      <4>2. i \notin DOMAIN q /\ j \notin DOMAIN q
        BY <1>2, <1>4, <2>1, <4>1 DEF EmittedIn
      <4> QED  BY <1>2, <4>2
    <3> QED  BY <3>1, <3>2
  <2> QED  BY <2>1 DEF OnceIn
<1> QED  BY <1>3, <1>4 DEF a

LEMMA RowAhead ==
    ASSUME NEW q \in Seq(SeriesRows), q # <<>>, NEW s, NEW w
    PROVE  /\ EmittedIn(Tail(q), s, w) => EmittedIn(q, s, w)
           /\ IsOf(Head(q), s, w) => EmittedIn(q, s, w)
           /\ OnceIn(q, s, w) => OnceIn(Tail(q), s, w)
           /\ OnceIn(q, s, w) /\ IsOf(Head(q), s, w) => ~EmittedIn(Tail(q), s, w)
<1> DEFINE t == Tail(q)
<1>1. /\ Len(q) \in Nat /\ DOMAIN q = 1..Len(q) /\ DOMAIN t = 1..(Len(q) - 1) /\ Len(q) >= 1
      /\ \A i \in 1..(Len(q) - 1) : t[i] = q[i + 1]
      /\ Head(q) = q[1]
  <2>1. t \in Seq(SeriesRows) /\ Len(t) = Len(q) - 1 /\ Len(t) \in Nat /\ Len(q) \in Nat
        /\ \A i \in 1..Len(t) : t[i] = q[i + 1]
    BY HeadTailProperties, LenProperties
  <2> HIDE DEF t
  <2>2. DOMAIN t = 1..Len(t) /\ DOMAIN q = 1..Len(q)
    BY <2>1, LenProperties
  <2> QED  BY <2>1, <2>2
<1> HIDE DEF t
<1>2. \A i \in DOMAIN t : i \in Int /\ i + 1 \in DOMAIN q /\ t[i] = q[i + 1] /\ i + 1 # 1
  BY <1>1
<1>3. 1 \in DOMAIN q
  BY <1>1
<1>4. EmittedIn(t, s, w) => EmittedIn(q, s, w)
  BY <1>2 DEF EmittedIn
<1>5. IsOf(Head(q), s, w) => EmittedIn(q, s, w)
  BY <1>1, <1>3 DEF EmittedIn
<1>6. ASSUME OnceIn(q, s, w) PROVE OnceIn(t, s, w)
  <2>1. ASSUME NEW i \in DOMAIN t, NEW j \in DOMAIN t, IsOf(t[i], s, w), IsOf(t[j], s, w)
        PROVE  i = j
    <3>1. i + 1 = j + 1
      BY <1>2, <1>6, <2>1 DEF OnceIn
    <3> QED  BY <1>2, <3>1
  <2> QED  BY <2>1 DEF OnceIn
<1>7. ASSUME OnceIn(q, s, w), IsOf(Head(q), s, w) PROVE ~EmittedIn(t, s, w)
  <2>1. ASSUME NEW i \in DOMAIN t, IsOf(t[i], s, w) PROVE FALSE
    BY <1>1, <1>2, <1>3, <1>7, <2>1 DEF OnceIn
  <2> QED  BY <2>1 DEF EmittedIn
<1> QED  BY <1>4, <1>5, <1>6, <1>7 DEF t

LEMMA SeriesNat ==
    ASSUME NEW n \in SeriesWhole, NEW l \in SeriesWhole, NEW c \in Seq(SeriesWhole),
           NEW r \in Seq(SeriesRows), NEW s, NEW w
    PROVE  /\ Mine(n, s, w) \in Nat /\ ClosedOf(c, s, w) \in Nat
           /\ LongPart(l, s, w) \in Nat /\ RowsOf(r, s, w) \in Nat
<1>1. n.count \in Nat /\ l.count \in Nat
  BY DEF SeriesWhole
<1>2. ASSUME NEW q \in Seq(SeriesWhole) PROVE ClosedOf(q, s, w) \in Nat
  <2> DEFINE I == {i \in DOMAIN q : Start(s, q[i].start) = w}
  <2>1. Len(q) \in Nat /\ DOMAIN q = 1..Len(q) /\ \A i \in DOMAIN q : q[i] \in SeriesWhole
    BY LenProperties
  <2>2. IsFiniteSet(1..Len(q)) /\ I \in SUBSET (1..Len(q))
    BY <2>1, UpTo
  <2>3. IsFiniteSet(I)
    BY <2>2, FS_Subset
  <2>4. \A i \in I : q[i].count \in Nat
    BY <2>1 DEF SeriesWhole
  <2> HIDE DEF I
  <2> QED  BY <2>3, <2>4, SpotsAre DEF ClosedOf, I
<1>3. ASSUME NEW q \in Seq(SeriesRows) PROVE RowsOf(q, s, w) \in Nat
  <2> DEFINE I == {i \in DOMAIN q : q[i].step = s /\ q[i].start = w}
  <2>1. Len(q) \in Nat /\ DOMAIN q = 1..Len(q) /\ \A i \in DOMAIN q : q[i] \in SeriesRows
    BY LenProperties
  <2>2. IsFiniteSet(1..Len(q)) /\ I \in SUBSET (1..Len(q))
    BY <2>1, UpTo
  <2>3. IsFiniteSet(I)
    BY <2>2, FS_Subset
  <2>4. \A i \in I : q[i].count \in Nat
    BY <2>1 DEF SeriesRows
  <2> HIDE DEF I
  <2> QED  BY <2>3, <2>4, SpotsAre DEF RowsOf, I
<1> QED  BY <1>1, <1>2, <1>3 DEF Mine, LongPart

\* What a row and memory hold of it, part by part.
PartsOf(s, w) ==
    metricRows[s][w] + Mine(nativeBucket, s, w) + ClosedOf(closedBuckets, s, w)
      + LongPart(longBucket, s, w) + RowsOf(writer.rows, s, w)

LEMMA WholeIs ==
    ASSUME SeriesShape, NEW s \in Steps, NEW w \in Windows
    PROVE  IsWhole(s, w) <=> PartsOf(s, w) = sampled[s][w]
<1>1. /\ metricRows[s][w] \in Nat /\ nativeBucket \in SeriesWhole /\ longBucket \in SeriesWhole
      /\ closedBuckets \in Seq(SeriesWhole) /\ writer.rows \in Seq(SeriesRows)
  BY DEF SeriesShape
<1>2. Held(s, w) = Mine(nativeBucket, s, w) + ClosedOf(closedBuckets, s, w)
                     + LongPart(longBucket, s, w) + RowsOf(writer.rows, s, w)
  BY DEF Held, Mine, ClosedOf, LongPart, RowsOf
<1> DEFINE m == metricRows[s][w]
           n == Mine(nativeBucket, s, w)
           c == ClosedOf(closedBuckets, s, w)
           l == LongPart(longBucket, s, w)
           r == RowsOf(writer.rows, s, w)
<1>3. m \in Nat /\ n \in Nat /\ c \in Nat /\ l \in Nat /\ r \in Nat
  BY <1>1, SeriesNat
<1>4. (IsWhole(s, w) <=> m + Held(s, w) = sampled[s][w]) /\ PartsOf(s, w) = m + n + c + l + r
  BY DEF IsWhole, PartsOf
<1> HIDE DEF m, n, c, l, r
<1>5. m + (n + c + l + r) = m + n + c + l + r
  BY <1>3
<1> QED  BY <1>2, <1>4, <1>5 DEF n, c, l, r

LEMMA WholeNext ==
    ASSUME SeriesShape', NEW s \in Steps, NEW w \in Windows
    PROVE  IsWhole(s, w)' <=> PartsOf(s, w)' = sampled'[s][w]
<1>1. /\ metricRows'[s][w] \in Nat /\ nativeBucket' \in SeriesWhole /\ longBucket' \in SeriesWhole
      /\ closedBuckets' \in Seq(SeriesWhole) /\ writer'.rows \in Seq(SeriesRows)
  BY DEF SeriesShape
<1>2. Held(s, w)' = Mine(nativeBucket', s, w) + ClosedOf(closedBuckets', s, w)
                     + LongPart(longBucket', s, w) + RowsOf(writer'.rows, s, w)
  BY DEF Held, Mine, ClosedOf, LongPart, RowsOf
<1> DEFINE m == metricRows'[s][w]
           n == Mine(nativeBucket', s, w)
           c == ClosedOf(closedBuckets', s, w)
           l == LongPart(longBucket', s, w)
           r == RowsOf(writer'.rows, s, w)
<1>3. m \in Nat /\ n \in Nat /\ c \in Nat /\ l \in Nat /\ r \in Nat
  BY <1>1, SeriesNat
<1>4. (IsWhole(s, w)' <=> m + Held(s, w)' = sampled'[s][w]) /\ PartsOf(s, w)' = m + n + c + l + r
  BY DEF IsWhole, PartsOf
<1> HIDE DEF m, n, c, l, r
<1>5. m + (n + c + l + r) = m + n + c + l + r
  BY <1>3
<1> QED  BY <1>2, <1>4, <1>5 DEF n, c, l, r

LEMMA SeriesStarts == MetricInit => SeriesInv
<1> SUFFICES ASSUME MetricInit PROVE SeriesInv
  OBVIOUS
<1>1. NoBucket = [start |-> 0, count |-> 0] /\ ~Pending(NoBucket)
  BY DEF NoBucket, Bucket, Pending
<1>2. 0 \in Windows /\ <<>> \in Seq(SeriesWhole) /\ <<>> \in Seq(SeriesRows) /\ DOMAIN <<>> = {}
  BY MetricAssumption DEF Windows
<1>3. /\ window = 0 /\ sampled = [s \in Steps |-> [w \in Windows |-> 0]]
      /\ metricRows = [s \in Steps |-> [w \in Windows |-> 0]]
      /\ nativeBucket = NoBucket /\ longBucket = NoBucket /\ closedBuckets = <<>>
      /\ writer.at = "waits" /\ writer.rows = <<>>
      /\ writer = [at |-> "waits", now |-> 0, all |-> FALSE, rows |-> <<>>]
  BY DEF MetricInit, Waiting
<1>4. SeriesShape
  <2>1. NoBucket \in SeriesWhole
    BY <1>1, <1>2 DEF SeriesWhole
  <2> QED  BY <1>2, <1>3, <2>1 DEF SeriesShape
<1>5. BucketsInOrder /\ LockIsHeld
  BY <1>1, <1>2, <1>3 DEF BucketsInOrder, LockIsHeld
<1>6. ASSUME NEW s \in Steps, NEW w \in Windows PROVE IsWhole(s, w) /\ ClosedOnce(s, w)
  <2>1. Mine(nativeBucket, s, w) = 0 /\ LongPart(longBucket, s, w) = 0
        /\ metricRows[s][w] = 0 /\ sampled[s][w] = 0
    BY <1>1, <1>3 DEF Mine, LongPart
  <2>2. ClosedOf(closedBuckets, s, w) = 0 /\ RowsOf(writer.rows, s, w) = 0
    BY <1>3, ClosedNone, RowsNone
  <2>3. IsWhole(s, w)
    BY <1>4, <2>1, <2>2, WholeIs DEF PartsOf
  <2>4. ~EmittedIn(writer.rows, s, w) /\ OnceIn(writer.rows, s, w)
    BY <1>2, <1>3 DEF EmittedIn, OnceIn
  <2> QED  BY <2>1, <2>3, <2>4 DEF ClosedOnce
<1> QED  BY <1>4, <1>5, <1>6 DEF SeriesInv, RowIsKept

-----------------------------------------------------------------------------
(* Series: the steps *)

\* Nothing happens to buckets and rows.
LEMMA RowsStay ==
    ASSUME SeriesInv, SeriesShape', window <= window', damaged \subseteq damaged',
           sampled' = sampled, metricRows' = metricRows, nativeBucket' = nativeBucket,
           longBucket' = longBucket, closedBuckets' = closedBuckets, writer'.rows = writer.rows
    PROVE  \A s \in Steps : \A w \in Windows : RowIsKept(s, w)'
<1>1. ASSUME NEW s \in Steps, NEW w \in Windows, Undamaged(s, w)'
      PROVE  IsWhole(s, w)' /\ ClosedOnce(s, w)'
  <2>1. Undamaged(s, w)
    BY <1>1 DEF Undamaged
  <2>2. IsWhole(s, w) /\ ClosedOnce(s, w) /\ SeriesShape
    BY <2>1 DEF SeriesInv, RowIsKept
  <2>3. PartsOf(s, w)' = PartsOf(s, w)
    BY DEF PartsOf
  <2>4. IsWhole(s, w)'
    BY <2>2, <2>3, WholeIs, WholeNext
  <2>5. Gathering(s, w)' = Gathering(s, w)
    BY DEF Gathering
  <2>6. /\ Start(s, window) <= Start(s, window')
        /\ w \in Int /\ Start(s, window) \in Int /\ Start(s, window') \in Int
    <3>1. window \in Windows /\ window' \in Windows
      BY <2>2 DEF SeriesShape
    <3> QED  BY <3>1, StartIs, MetricAssumption DEF Windows
  <2>7. w < Start(s, window) => w < Start(s, window')
    BY <2>6
  <2>8. ClosedOnce(s, w)'
    BY <2>2, <2>5, <2>7 DEF ClosedOnce
  <2> QED  BY <2>4, <2>8
<1> QED  BY <1>1 DEF RowIsKept

LEMMA WindowPassesStep == ASSUME SeriesInv, WindowPasses PROVE SeriesInv'
<1>1. /\ window < LastWindow /\ window' = window + 1
      /\ UNCHANGED <<nativeBucket, longBucket, closedBuckets, sampled, writer, metricRows, damaged>>
  BY DEF WindowPasses, BucketsStay
<1>2. window \in Windows /\ window' \in Windows /\ window <= window'
  BY <1>1, MetricAssumption DEF SeriesInv, SeriesShape, Windows
<1>3. SeriesShape'
  BY <1>1, <1>2 DEF SeriesInv, SeriesShape
<1>4. BucketsInOrder'
  <2>1. Start("long", window) <= Start("long", window') /\ "long" \in Steps
    BY <1>2, StartIs DEF Steps
  <2>2. Start("long", window) \in Int /\ Start("long", window') \in Int /\ window \in Int /\ window' \in Int
        /\ longBucket.start \in Int /\ nativeBucket.start \in Int
        /\ \A i \in DOMAIN closedBuckets : closedBuckets[i].start \in Int
    <3>1. Windows \subseteq Int
      BY MetricAssumption DEF Windows
    <3>2. \A i \in DOMAIN closedBuckets : closedBuckets[i] \in SeriesWhole
      BY LenProperties DEF SeriesInv, SeriesShape
    <3>3. longBucket.start \in Windows /\ nativeBucket.start \in Windows
          /\ \A i \in DOMAIN closedBuckets : closedBuckets[i].start \in Windows
      BY <3>2 DEF SeriesInv, SeriesShape, SeriesWhole
    <3> QED  BY <1>2, <2>1, <3>1, <3>3, StartIs
  <2> QED  BY <1>1, <1>2, <2>1, <2>2 DEF SeriesInv, BucketsInOrder
<1>5. LockIsHeld'
  BY <1>1 DEF SeriesInv, LockIsHeld
<1>6. \A s \in Steps : \A w \in Windows : RowIsKept(s, w)'
  BY <1>1, <1>2, <1>3, RowsStay
<1> QED  BY <1>3, <1>4, <1>5, <1>6 DEF SeriesInv

\* The writer moves on, and has the same rows to write.
LEMMA WriterMoves ==
    ASSUME SeriesInv, writer' \in [at : {"waits", "drains", "writes", "last"}, now : Windows,
                                    all : BOOLEAN, rows : {writer.rows}],
           writer.at # "closes", writer'.at \in {"waits", "drains"} => writer.rows = <<>>,
           UNCHANGED <<window, nativeBucket, longBucket, closedBuckets, sampled, metricRows, damaged>>
    PROVE  SeriesInv'
<1>1. writer'.rows = writer.rows /\ writer'.at # "closes"
  OBVIOUS
<1>2. SeriesShape'
  <2>1. writer.rows \in Seq(SeriesRows)
    BY DEF SeriesInv, SeriesShape
  <2>2. writer' \in [at : {"waits", "drains", "closes", "writes", "last"}, now : Windows,
                     all : BOOLEAN, rows : Seq(SeriesRows)]
    BY <2>1
  <2> QED  BY <2>2 DEF SeriesInv, SeriesShape
<1>3. BucketsInOrder'
  BY DEF SeriesInv, BucketsInOrder
<1>4. LockIsHeld'
  BY <1>1 DEF SeriesInv, LockIsHeld
<1>5. window <= window'
  BY MetricAssumption DEF SeriesInv, SeriesShape, Windows
<1>6. \A s \in Steps : \A w \in Windows : RowIsKept(s, w)'
  BY <1>1, <1>2, <1>5, RowsStay
<1> QED  BY <1>2, <1>3, <1>4, <1>6 DEF SeriesInv

LEMMA WriterWakesStep == ASSUME SeriesInv, WriterWakes PROVE SeriesInv'
<1>1. /\ writer.at = "waits" /\ writer' = [writer EXCEPT !.at = "drains", !.now = window]
      /\ UNCHANGED <<window, nativeBucket, longBucket, closedBuckets, sampled, metricRows, damaged>>
  BY DEF WriterWakes, BucketsStay
<1>2. window \in Windows /\ writer \in [at : {"waits", "drains", "closes", "writes", "last"}, now : Windows,
                                        all : BOOLEAN, rows : Seq(SeriesRows)]
  BY DEF SeriesInv, SeriesShape
<1>3. writer' \in [at : {"waits", "drains", "writes", "last"}, now : Windows, all : BOOLEAN, rows : {writer.rows}]
  <2>1. writer' = [at |-> "drains", now |-> window, all |-> writer.all, rows |-> writer.rows]
    BY <1>1, <1>2
  <2> QED  BY <1>2, <2>1
<1>4. writer.rows = <<>>
  BY <1>1 DEF SeriesInv, LockIsHeld
<1> QED  BY <1>1, <1>3, <1>4, WriterMoves

LEMMA WriterRestsStep == ASSUME SeriesInv, WriterRests PROVE SeriesInv'
<1>1. /\ writer.rows = <<>> /\ writer' = [at |-> "waits", now |-> 0, all |-> FALSE, rows |-> <<>>]
      /\ writer.at = "writes"
      /\ UNCHANGED <<window, nativeBucket, longBucket, closedBuckets, sampled, metricRows, damaged>>
  BY DEF WriterRests, BucketsStay, Waiting
<1>2. 0 \in Windows
  BY MetricAssumption DEF Windows
<1>3. writer' \in [at : {"waits", "drains", "writes", "last"}, now : Windows, all : BOOLEAN, rows : {writer.rows}]
  BY <1>1, <1>2
<1> QED  BY <1>1, <1>3, WriterMoves

\* Starts of buckets are numbers.
LEMMA StartsAre ==
    ASSUME SeriesShape
    PROVE  /\ Windows \subseteq Int /\ window \in Windows /\ "long" \in Steps /\ "native" \in Steps
           /\ nativeBucket.start \in Windows /\ nativeBucket.count \in Nat
           /\ longBucket.start \in Windows /\ longBucket.count \in Nat
           /\ Len(closedBuckets) \in Nat /\ DOMAIN closedBuckets = 1..Len(closedBuckets)
           /\ \A i \in DOMAIN closedBuckets : /\ closedBuckets[i] \in SeriesWhole
                                              /\ closedBuckets[i].start \in Windows
                                              /\ closedBuckets[i].count \in Nat
<1>1. closedBuckets \in Seq(SeriesWhole)
  BY DEF SeriesShape
<1>2. Len(closedBuckets) \in Nat /\ DOMAIN closedBuckets = 1..Len(closedBuckets)
      /\ \A i \in DOMAIN closedBuckets : closedBuckets[i] \in SeriesWhole
  BY <1>1, LenProperties
<1>3. /\ nativeBucket.start \in Windows /\ nativeBucket.count \in Nat
      /\ longBucket.start \in Windows /\ longBucket.count \in Nat
  BY DEF SeriesShape, SeriesWhole
<1>4. \A i \in DOMAIN closedBuckets : closedBuckets[i].start \in Windows /\ closedBuckets[i].count \in Nat
  BY <1>2 DEF SeriesWhole
<1>5. Windows \subseteq Int /\ window \in Windows /\ "long" \in Steps /\ "native" \in Steps
  BY MetricAssumption DEF SeriesShape, Windows, Steps
<1> QED  BY <1>2, <1>3, <1>4, <1>5

\* The native bucket is closed behind the others.
LEMMA ClosedBehind ==
    ASSUME SeriesShape, BucketsInOrder, Pending(nativeBucket), NEW a,
           a = Append(closedBuckets, nativeBucket)
    PROVE  /\ a \in Seq(SeriesWhole)
           /\ \A i, j \in DOMAIN a : i < j => a[i].start < a[j].start
           /\ \A i \in DOMAIN a : a[i].start <= nativeBucket.start /\ a[i].start <= window
           /\ Pending(longBucket) => \A i \in DOMAIN a : longBucket.start <= Start("long", a[i].start)
           /\ \A s, w : (\E i \in DOMAIN a : Start(s, a[i].start) = w) => Gathering(s, w)
           /\ \A s, w : ClosedOf(a, s, w) = ClosedOf(closedBuckets, s, w) + Mine(nativeBucket, s, w)
<1> DEFINE cb == closedBuckets
           nb == nativeBucket
<1>1. /\ a \in Seq(SeriesWhole) /\ Len(cb) \in Nat /\ DOMAIN cb = 1..Len(cb) /\ DOMAIN a = 1..(Len(cb) + 1)
      /\ \A i \in 1..Len(cb) : a[i] = cb[i]
      /\ a[Len(cb) + 1] = nb
  <2>1. cb \in Seq(SeriesWhole) /\ nb \in SeriesWhole
    BY DEF SeriesShape
  <2> QED  BY <2>1, AppendProperties, LenProperties
<1>2. \A i \in DOMAIN a : (i \in DOMAIN cb /\ a[i] = cb[i]) \/ (i = Len(cb) + 1 /\ a[i] = nb)
  BY <1>1
<1>3. /\ \A i \in DOMAIN cb : i < Len(cb) + 1 /\ i \in Int /\ cb[i].start < nb.start /\ cb[i].start <= window
                              /\ cb[i].start \in Int
      /\ nb.start \in Int /\ nb.start <= window /\ Len(cb) + 1 \in Int
  <2>1. \A i \in DOMAIN cb : cb[i].start \in Int /\ cb[i].start < nb.start /\ cb[i].start <= window
    BY StartsAre DEF BucketsInOrder
  <2>2. nb.start \in Int /\ nb.start <= window
    BY StartsAre DEF BucketsInOrder
  <2> QED  BY <1>1, <2>1, <2>2
<1>4. \A i, j \in DOMAIN a : i < j => a[i].start < a[j].start
  <2>1. ASSUME NEW i \in DOMAIN a, NEW j \in DOMAIN a, i < j PROVE a[i].start < a[j].start
    <3>1. i \in DOMAIN cb /\ a[i] = cb[i]
      BY <1>2, <1>3, <2>1
    <3>2. CASE j \in DOMAIN cb /\ a[j] = cb[j]
      BY <2>1, <3>1, <3>2 DEF BucketsInOrder
    <3>3. CASE a[j] = nb
      BY <1>3, <3>1, <3>3
    <3> QED  BY <1>2, <3>2, <3>3
  <2> QED  BY <2>1
<1>5. \A i \in DOMAIN a : a[i].start <= nb.start /\ a[i].start <= window
  BY <1>2, <1>3
<1>6. ASSUME Pending(longBucket), NEW i \in DOMAIN a PROVE longBucket.start <= Start("long", a[i].start)
  BY <1>2, <1>6 DEF BucketsInOrder
<1>7. ASSUME NEW s, NEW w, NEW i \in DOMAIN a, Start(s, a[i].start) = w PROVE Gathering(s, w)
  BY <1>2, <1>7 DEF Gathering
<1>8. \A s, w : ClosedOf(a, s, w) = ClosedOf(cb, s, w) + Mine(nb, s, w)
  <2>1. cb \in Seq(SeriesWhole) /\ nb \in SeriesWhole
    BY DEF SeriesShape
  <2> QED  BY <2>1, ClosedAppend
<1> QED  BY <1>1, <1>4, <1>5, <1>6, <1>7, <1>8

LEMMA GaugesStep == ASSUME SeriesInv, Gauges PROVE SeriesInv'
<1> DEFINE joins == Pending(nativeBucket) /\ nativeBucket.start = window
           cb == closedBuckets
           nb == nativeBucket
<1>1. /\ writer.at # "closes"
      /\ sampled' = [s \in Steps |-> [sampled[s] EXCEPT ![Start(s, window)] = @ + 1]]
      /\ nativeBucket' = [start |-> window, count |-> IF joins THEN nb.count + 1 ELSE 1]
      /\ closedBuckets' = IF Pending(nb) /\ ~joins THEN Append(cb, nb) ELSE cb
      /\ UNCHANGED <<window, longBucket, writer, metricRows, damaged>>
  BY DEF Gauges, Bucket
<1>2. SeriesShape /\ BucketsInOrder /\ LockIsHeld /\ window \in Windows /\ nb \in SeriesWhole
      /\ cb \in Seq(SeriesWhole)
  BY DEF SeriesInv, SeriesShape
<1>3. \A s \in Steps : Start(s, window) \in Windows /\ Start(s, window) \in Int
  BY <1>2, StartIs, StartsAre
<1>4. nativeBucket' \in SeriesWhole /\ Pending(nativeBucket') /\ nativeBucket'.start = window
      /\ nativeBucket'.count = (IF joins THEN nb.count + 1 ELSE 1)
  BY <1>1, <1>2, StartsAre DEF SeriesWhole, Pending
<1>5. SeriesShape'
  <2>1. ASSUME NEW s \in Steps PROVE sampled'[s] \in [Windows -> Nat]
    <3>1. sampled[s] \in [Windows -> Nat]
      BY <1>2 DEF SeriesShape
    <3>2. sampled'[s] = [sampled[s] EXCEPT ![Start(s, window)] = @ + 1]
      BY <1>1
    <3> QED  BY <1>3, <3>1, <3>2
  <2>2. sampled' \in [Steps -> [Windows -> Nat]]
    BY <1>1, <2>1
  <2>3. closedBuckets' \in Seq(SeriesWhole)
    BY <1>1, <1>2, AppendProperties
  <2> QED  BY <1>1, <1>2, <1>4, <2>2, <2>3 DEF SeriesShape
<1>6. /\ \A i, j \in DOMAIN closedBuckets' : i < j => closedBuckets'[i].start < closedBuckets'[j].start
      /\ \A i \in DOMAIN closedBuckets' : closedBuckets'[i].start < window
      /\ Pending(longBucket) => \A i \in DOMAIN closedBuckets' :
             longBucket.start <= Start("long", closedBuckets'[i].start)
      /\ \A s, w : (\E i \in DOMAIN closedBuckets' : Start(s, closedBuckets'[i].start) = w) => Gathering(s, w)
      /\ \A s, w : Mine(nativeBucket', s, w) + ClosedOf(closedBuckets', s, w)
                     = Mine(nb, s, w) + ClosedOf(cb, s, w) + (IF Start(s, window) = w THEN 1 ELSE 0)
  <2>0. \A s, w : Mine(nb, s, w) \in Nat /\ ClosedOf(cb, s, w) \in Nat
    <3>1. longBucket \in SeriesWhole /\ writer.rows \in Seq(SeriesRows)
      BY <1>2 DEF SeriesShape
    <3> QED  BY <1>2, <3>1, SeriesNat
  <2>1. CASE joins
    <3>1. closedBuckets' = cb /\ Pending(nb) /\ nb.start = window /\ nativeBucket'.count = nb.count + 1
      BY <1>1, <1>4, <2>1
    <3>2. \A i \in DOMAIN cb : cb[i].start < window
      BY <1>2, <3>1 DEF BucketsInOrder
    <3>3. \A s, w : Mine(nativeBucket', s, w) = Mine(nb, s, w) + (IF Start(s, window) = w THEN 1 ELSE 0)
      <4>1. nb.count \in Nat
        BY <1>2, StartsAre
      <4> QED  BY <1>4, <3>1, <4>1 DEF Mine
    <3>4. \A s, w : Mine(nativeBucket', s, w) + ClosedOf(closedBuckets', s, w)
                     = Mine(nb, s, w) + ClosedOf(cb, s, w) + (IF Start(s, window) = w THEN 1 ELSE 0)
      BY <2>0, <3>1, <3>3
    <3> QED  BY <1>2, <3>1, <3>2, <3>4 DEF BucketsInOrder, Gathering
  <2>2. CASE Pending(nb) /\ ~joins
    <3>1. closedBuckets' = Append(cb, nb) /\ nb.start < window /\ nativeBucket'.count = 1
      BY <1>1, <1>2, <1>4, <2>2, StartsAre DEF BucketsInOrder
    <3>2. \A i \in DOMAIN closedBuckets' : closedBuckets'[i].start <= nb.start
      BY <1>2, <2>2, <3>1, ClosedBehind
    <3>3. \A i \in DOMAIN closedBuckets' : closedBuckets'[i].start < window
      <4>1. ASSUME NEW i \in DOMAIN closedBuckets' PROVE closedBuckets'[i].start \in Int
        <5>1. closedBuckets' \in Seq(SeriesWhole)
          BY <1>5 DEF SeriesShape
        <5>2. closedBuckets'[i] \in SeriesWhole
          BY <5>1, LenProperties
        <5> QED  BY <5>2, <1>2, StartsAre DEF SeriesWhole
      <4>2. nb.start \in Int /\ window \in Int
        BY <1>2, StartsAre
      <4> QED  BY <3>1, <3>2, <4>1, <4>2
    <3>4. \A s, w : ClosedOf(closedBuckets', s, w) = ClosedOf(cb, s, w) + Mine(nb, s, w)
      BY <1>2, <2>2, <3>1, ClosedBehind
    <3>5. \A s, w : Mine(nativeBucket', s, w) = IF Start(s, window) = w THEN 1 ELSE 0
      BY <1>4, <3>1 DEF Mine
    <3>6. \A s, w : Mine(nativeBucket', s, w) + ClosedOf(closedBuckets', s, w)
                     = Mine(nb, s, w) + ClosedOf(cb, s, w) + (IF Start(s, window) = w THEN 1 ELSE 0)
      BY <2>0, <3>4, <3>5
    <3> QED  BY <1>2, <2>2, <3>1, <3>3, <3>6, ClosedBehind
  <2>3. CASE ~Pending(nb)
    <3>1. closedBuckets' = <<>> /\ cb = <<>> /\ nativeBucket'.count = 1 /\ nb.count = 0
      <4>1. nb.count \in Nat
        BY <1>2, StartsAre
      <4>2. cb = <<>>
        BY <1>1, <1>2, <2>3 DEF LockIsHeld
      <4> QED  BY <1>1, <1>4, <2>3, <4>1, <4>2 DEF Pending
    <3>2. \A s, w : Mine(nativeBucket', s, w) = IF Start(s, window) = w THEN 1 ELSE 0
      BY <1>4, <3>1 DEF Mine
    <3>3. \A s, w : Mine(nb, s, w) = 0
      BY <3>1 DEF Mine
    <3>4. \A s, w : Mine(nativeBucket', s, w) + ClosedOf(closedBuckets', s, w)
                     = Mine(nb, s, w) + ClosedOf(cb, s, w) + (IF Start(s, window) = w THEN 1 ELSE 0)
      BY <2>0, <3>1, <3>2, <3>3
    <3>5. DOMAIN closedBuckets' = {}
      BY <3>1
    <3> QED  BY <3>4, <3>5
  <2> QED  BY <2>1, <2>2, <2>3
<1>7. BucketsInOrder'
  <2>1. \A i \in DOMAIN closedBuckets' : closedBuckets'[i].start <= window
    <3>1. ASSUME NEW i \in DOMAIN closedBuckets' PROVE closedBuckets'[i].start \in Int
      <4>1. closedBuckets' \in Seq(SeriesWhole)
        BY <1>5 DEF SeriesShape
      <4>2. closedBuckets'[i] \in SeriesWhole
        BY <4>1, LenProperties
      <4> QED  BY <4>2, <1>2, StartsAre DEF SeriesWhole
    <3>2. window \in Int
      BY <1>2, StartsAre
    <3> QED  BY <1>6, <3>1, <3>2
  <2>2. window <= window
    BY <1>2, StartsAre
  <2> QED  BY <1>1, <1>2, <1>4, <1>6, <2>1, <2>2 DEF BucketsInOrder
<1>8. LockIsHeld'
  BY <1>1, <1>2, <1>4 DEF LockIsHeld
<1>9. ASSUME NEW s \in Steps, NEW w \in Windows, Undamaged(s, w)'
      PROVE  IsWhole(s, w)' /\ ClosedOnce(s, w)'
  <2> DEFINE one == IF Start(s, window) = w THEN 1 ELSE 0
  <2>1. Undamaged(s, w)
    BY <1>1, <1>9 DEF Undamaged
  <2>2. IsWhole(s, w) /\ ClosedOnce(s, w)
    BY <2>1 DEF SeriesInv, RowIsKept
  <2>3. sampled'[s][w] = sampled[s][w] + one
    <3>1. sampled[s] \in [Windows -> Nat] /\ sampled'[s] = [sampled[s] EXCEPT ![Start(s, window)] = @ + 1]
      BY <1>1, <1>2 DEF SeriesShape
    <3> QED  BY <1>3, <3>1
  <2>4. PartsOf(s, w)' = PartsOf(s, w) + one
    <3>1. /\ Mine(nb, s, w) \in Nat /\ ClosedOf(cb, s, w) \in Nat
          /\ LongPart(longBucket, s, w) \in Nat /\ RowsOf(writer.rows, s, w) \in Nat
          /\ metricRows[s][w] \in Nat
      BY <1>2, SeriesNat DEF SeriesShape
    <3>2. /\ Mine(nativeBucket', s, w) \in Nat /\ ClosedOf(closedBuckets', s, w) \in Nat
      <4>1. /\ nativeBucket' \in SeriesWhole /\ longBucket \in SeriesWhole
            /\ closedBuckets' \in Seq(SeriesWhole) /\ writer.rows \in Seq(SeriesRows)
        BY <1>2, <1>5 DEF SeriesShape
      <4> QED  BY <4>1, SeriesNat
    <3>3. Mine(nativeBucket', s, w) + ClosedOf(closedBuckets', s, w)
            = Mine(nb, s, w) + ClosedOf(cb, s, w) + one
      BY <1>6
    <3>4. /\ LongPart(longBucket', s, w) = LongPart(longBucket, s, w)
          /\ RowsOf(writer'.rows, s, w) = RowsOf(writer.rows, s, w) /\ metricRows'[s][w] = metricRows[s][w]
      BY <1>1
    <3>5. PartsOf(s, w)' = metricRows'[s][w] + Mine(nativeBucket', s, w) + ClosedOf(closedBuckets', s, w)
                             + LongPart(longBucket', s, w) + RowsOf(writer'.rows, s, w)
      BY DEF PartsOf
    <3> HIDE DEF one
    <3>6. one \in Nat
      BY DEF one
    <3> QED  BY <3>1, <3>2, <3>3, <3>4, <3>5, <3>6 DEF PartsOf
  <2>5. IsWhole(s, w)'
    BY <1>2, <1>5, <2>2, <2>3, <2>4, WholeIs, WholeNext
  <2>6. ClosedOnce(s, w)'
    <3>1. w < Start(s, window) /\ ~Gathering(s, w) => ~Gathering(s, w)'
      <4>1. ASSUME w < Start(s, window), ~Gathering(s, w) PROVE ~Gathering(s, w)'
        <5>1. Start(s, window) # w
          BY <1>3, <4>1, StartsAre, <1>2
        <5> QED  BY <1>1, <1>4, <1>6, <4>1, <5>1 DEF Gathering
      <4> QED  BY <4>1
    <3> QED  BY <1>1, <2>2, <3>1 DEF ClosedOnce
  <2> QED  BY <2>5, <2>6
<1> QED  BY <1>5, <1>7, <1>8, <1>9 DEF SeriesInv, RowIsKept

\* The writer takes the lock: what is over goes behind the others.
LEMMA DrainsStep ==
    ASSUME SeriesInv, NEW now \in Windows, NEW all \in BOOLEAN, Drains(now, all),
           writer.rows = <<>>, UNCHANGED <<window, sampled, metricRows>>
    PROVE  SeriesInv'
<1> DEFINE cb == closedBuckets
           nb == nativeBucket
           ends == Pending(nb) /\ (all \/ nb.start # now)
<1>1. /\ closedBuckets' = (IF ends THEN Append(cb, nb) ELSE cb)
      /\ nativeBucket' = (IF ends THEN NoBucket ELSE nb)
      /\ writer' = [at |-> "closes", now |-> now, all |-> all, rows |-> <<>>]
      /\ UNCHANGED <<longBucket, damaged>>
  BY DEF Drains
<1>2. SeriesShape /\ BucketsInOrder /\ LockIsHeld /\ nb \in SeriesWhole /\ cb \in Seq(SeriesWhole)
  BY DEF SeriesInv, SeriesShape
<1>3. NoBucket \in SeriesWhole /\ ~Pending(NoBucket) /\ NoBucket.count = 0 /\ \A s, w : Mine(NoBucket, s, w) = 0
  BY MetricAssumption DEF NoBucket, Bucket, Pending, SeriesWhole, Windows, Mine
<1>4. SeriesShape'
  <2>1. closedBuckets' \in Seq(SeriesWhole) /\ nativeBucket' \in SeriesWhole
    BY <1>1, <1>2, <1>3, AppendProperties
  <2>2. writer' \in [at : {"waits", "drains", "closes", "writes", "last"}, now : Windows,
                     all : BOOLEAN, rows : Seq(SeriesRows)]
    <3>1. <<>> \in Seq(SeriesRows)
      OBVIOUS
    <3> QED  BY <1>1, <3>1
  <2> QED  BY <1>1, <1>2, <2>1, <2>2 DEF SeriesShape
<1>5. /\ BucketsInOrder'
      /\ \A s, w : Gathering(s, w)' => Gathering(s, w)
      /\ \A s, w : Mine(nativeBucket', s, w) + ClosedOf(closedBuckets', s, w)
                     = Mine(nb, s, w) + ClosedOf(cb, s, w)
  <2>0. \A s, w : Mine(nb, s, w) \in Nat /\ ClosedOf(cb, s, w) \in Nat
    <3>1. longBucket \in SeriesWhole /\ writer.rows \in Seq(SeriesRows)
      BY <1>2 DEF SeriesShape
    <3> QED  BY <1>2, <3>1, SeriesNat
  <2>1. CASE ends
    <3>1. closedBuckets' = Append(cb, nb) /\ nativeBucket' = NoBucket /\ Pending(nb)
      BY <1>1, <2>1
    <3>2. BucketsInOrder'
      BY <1>1, <1>2, <1>3, <3>1, ClosedBehind DEF BucketsInOrder
    <3>3. ASSUME NEW s, NEW w, Gathering(s, w)' PROVE Gathering(s, w)
      <4>1. \/ \E i \in DOMAIN closedBuckets' : Start(s, closedBuckets'[i].start) = w
            \/ s = "long" /\ Pending(longBucket) /\ longBucket.start = w
        BY <1>1, <1>3, <3>1, <3>3 DEF Gathering
      <4>2. (\E i \in DOMAIN closedBuckets' : Start(s, closedBuckets'[i].start) = w) => Gathering(s, w)
        BY <1>2, <3>1, ClosedBehind
      <4>3. s = "long" /\ Pending(longBucket) /\ longBucket.start = w => Gathering(s, w)
        BY DEF Gathering
      <4> QED  BY <4>1, <4>2, <4>3
    <3>4. \A s, w : ClosedOf(closedBuckets', s, w) = ClosedOf(cb, s, w) + Mine(nb, s, w)
      BY <1>2, <3>1, ClosedBehind
    <3>5. \A s, w : Mine(nativeBucket', s, w) = 0
      BY <1>3, <3>1
    <3>6. \A s, w : Mine(nativeBucket', s, w) + ClosedOf(closedBuckets', s, w)
                      = Mine(nb, s, w) + ClosedOf(cb, s, w)
      BY <2>0, <3>4, <3>5
    <3> QED  BY <3>2, <3>3, <3>6
  <2>2. CASE ~ends
    <3>1. closedBuckets' = cb /\ nativeBucket' = nb
      BY <1>1, <2>2
    <3> QED  BY <1>1, <1>2, <3>1 DEF BucketsInOrder, Gathering
  <2> QED  BY <2>1, <2>2
<1>6. LockIsHeld'
  <2>1. Pending(nativeBucket') => ~all /\ nativeBucket'.start = now
    BY <1>1, <1>3
  <2>2. writer'.at = "closes" /\ writer'.now = now /\ writer'.all = all
    BY <1>1
  <2> QED  BY <2>1, <2>2 DEF LockIsHeld
<1>7. ASSUME NEW s \in Steps, NEW w \in Windows, Undamaged(s, w)'
      PROVE  IsWhole(s, w)' /\ ClosedOnce(s, w)'
  <2>1. Undamaged(s, w)
    BY <1>1, <1>7 DEF Undamaged
  <2>2. IsWhole(s, w) /\ ClosedOnce(s, w)
    BY <2>1 DEF SeriesInv, RowIsKept
  <2>3. PartsOf(s, w)' = PartsOf(s, w)
    <3>1. /\ Mine(nb, s, w) \in Nat /\ ClosedOf(cb, s, w) \in Nat
          /\ LongPart(longBucket, s, w) \in Nat /\ metricRows[s][w] \in Nat
      <4>1. longBucket \in SeriesWhole /\ writer.rows \in Seq(SeriesRows) /\ metricRows[s][w] \in Nat
        BY <1>2 DEF SeriesShape
      <4> QED  BY <1>2, <4>1, SeriesNat
    <3>2. Mine(nativeBucket', s, w) \in Nat /\ ClosedOf(closedBuckets', s, w) \in Nat
      <4>1. /\ nativeBucket' \in SeriesWhole /\ longBucket' \in SeriesWhole
            /\ closedBuckets' \in Seq(SeriesWhole) /\ writer'.rows \in Seq(SeriesRows)
        BY <1>4 DEF SeriesShape
      <4> QED  BY <4>1, SeriesNat
    <3>3. RowsOf(writer.rows, s, w) = 0 /\ RowsOf(writer'.rows, s, w) = 0
      BY <1>1, RowsNone
    <3>4. Mine(nativeBucket', s, w) + ClosedOf(closedBuckets', s, w) = Mine(nb, s, w) + ClosedOf(cb, s, w)
      BY <1>5
    <3>5. LongPart(longBucket', s, w) = LongPart(longBucket, s, w) /\ metricRows'[s][w] = metricRows[s][w]
      BY <1>1
    <3>6. PartsOf(s, w)' = metricRows'[s][w] + Mine(nativeBucket', s, w) + ClosedOf(closedBuckets', s, w)
                             + LongPart(longBucket', s, w) + RowsOf(writer'.rows, s, w)
      BY DEF PartsOf
    <3>7. PartsOf(s, w) = metricRows[s][w] + Mine(nb, s, w) + ClosedOf(cb, s, w)
                            + LongPart(longBucket, s, w) + RowsOf(writer.rows, s, w)
      BY DEF PartsOf
    <3>8. metricRows[s][w] + Mine(nativeBucket', s, w) + ClosedOf(closedBuckets', s, w)
            + LongPart(longBucket, s, w) + 0
          = metricRows[s][w] + Mine(nb, s, w) + ClosedOf(cb, s, w) + LongPart(longBucket, s, w) + 0
      <4> DEFINE m == metricRows[s][w]
                 a == Mine(nativeBucket', s, w)
                 b == ClosedOf(closedBuckets', s, w)
                 c == Mine(nb, s, w)
                 d == ClosedOf(cb, s, w)
                 l == LongPart(longBucket, s, w)
      <4>1. m \in Nat /\ a \in Nat /\ b \in Nat /\ c \in Nat /\ d \in Nat /\ l \in Nat /\ a + b = c + d
        BY <3>1, <3>2, <3>4
      <4> HIDE DEF m, a, b, c, d, l
      <4>2. m + a + b + l + 0 = m + c + d + l + 0
        BY <4>1
      <4> QED  BY <4>2 DEF m, a, b, c, d, l
    <3> QED  BY <3>3, <3>5, <3>6, <3>7, <3>8
  <2>4. IsWhole(s, w)'
    BY <1>2, <1>4, <2>2, <2>3, WholeIs, WholeNext
  <2>5. writer'.rows = <<>> /\ DOMAIN <<>> = {}
    BY <1>1
  <2>6. ~EmittedIn(writer'.rows, s, w) /\ OnceIn(writer'.rows, s, w)
    BY <2>5 DEF EmittedIn, OnceIn
  <2>7. ClosedOnce(s, w)'
    BY <1>5, <2>2, <2>6 DEF ClosedOnce
  <2> QED  BY <2>4, <2>7
<1> QED  BY <1>4, <1>5, <1>6, <1>7 DEF SeriesInv, RowIsKept

LEMMA WriterDrainsStep == ASSUME SeriesInv, WriterDrains PROVE SeriesInv'
<1>1. /\ writer.at = "drains" /\ Drains(writer.now, FALSE)
      /\ UNCHANGED <<window, sampled, metricRows>>
  BY DEF WriterDrains
<1>2. writer.now \in Windows
  BY DEF SeriesInv, SeriesShape
<1>3. writer.rows = <<>>
  BY <1>1 DEF SeriesInv, LockIsHeld
<1> QED  BY <1>1, <1>2, <1>3, DrainsStep

LEMMA FlushesStep == ASSUME SeriesInv, Flushes PROVE SeriesInv'
<1>1. /\ writer.at = "waits" /\ Drains(window, TRUE)
      /\ UNCHANGED <<window, sampled, metricRows>>
  BY DEF Flushes
<1>2. window \in Windows
  BY DEF SeriesInv, SeriesShape
<1>3. writer.rows = <<>>
  BY <1>1 DEF SeriesInv, LockIsHeld
<1> QED  BY <1>1, <1>2, <1>3, DrainsStep

-----------------------------------------------------------------------------
(* Series: the writer closes its buckets *)

\* A row of a bucket that is over goes behind the rows to write: no reading of
\* it can come any more, and none came before.
LEMMA RowEmitted ==
    ASSUME NEW some \in Seq(SeriesRows), NEW r \in SeriesRows, NEW s, NEW w, OnceIn(some, s, w),
           IsOf(r, s, w) => ~EmittedIn(some, s, w)
    PROVE  /\ Append(some, r) \in Seq(SeriesRows)
           /\ RowsOf(Append(some, r), s, w) = RowsOf(some, s, w) + MyRow(r, s, w)
           /\ EmittedIn(Append(some, r), s, w) <=> EmittedIn(some, s, w) \/ IsOf(r, s, w)
           /\ OnceIn(Append(some, r), s, w)
<1>1. Append(some, r) \in Seq(SeriesRows)
  BY AppendProperties
<1> QED  BY <1>1, RowBehind, RowsAppend

LEMMA OneMore == ASSUME NEW S, NEW q \in Seq(S), NEW x \in S PROVE q \o <<x>> = Append(q, x)
  BY AppendIsConcat

LEMMA TwoMore ==
    ASSUME NEW S, NEW q \in Seq(S), NEW x \in S, NEW y \in S
    PROVE  q \o <<x, y>> = Append(Append(q, x), y)
<1>1. <<x, y>> \in Seq(S) /\ <<x, y>> = Append(<<x>>, y) /\ <<x>> \in Seq(S)
  OBVIOUS
<1>2. q \o Append(<<x>>, y) = Append(q \o <<x>>, y)
  BY <1>1
<1> QED  BY <1>1, <1>2, OneMore

\* What Emits makes of a row that the mishaps spared: its window is over.
LEMMA EmitsRows ==
    ASSUME NEW some, NEW at, Emits(some, at), SeriesShape, NEW s, NEW w, Undamaged(s, w)'
    PROVE  /\ writer' = [writer EXCEPT !.at = at, !.rows = writer.rows \o some]
           /\ Undamaged(s, w)
           /\ \A i \in DOMAIN some : IsOf(some[i], s, w) => w # Start(s, window)
<1>1. writer' = [writer EXCEPT !.at = at, !.rows = writer.rows \o some]
  BY DEF Emits
<1>2. damaged \subseteq damaged'
  BY DEF Emits
<1>3. Undamaged(s, w)
  BY <1>2 DEF Undamaged
<1>4. ASSUME NEW i \in DOMAIN some, IsOf(some[i], s, w), w = Start(s, window) PROVE FALSE
  <2> DEFINE why == IF writer.all THEN "stopped" ELSE "stale"
  <2>1. some[i].start = Start(some[i].step, window)
    BY <1>4 DEF IsOf
  <2>2. Named(some[i], why) \in damaged'
    BY <2>1 DEF Emits
  <2>3. Named(some[i], why).step = s /\ Named(some[i], why).start = w
    BY <1>4 DEF Named, IsOf
  <2> QED  BY <2>2, <2>3 DEF Undamaged
<1> QED  BY <1>1, <1>3, <1>4

\* The oldest bucket of the queue, and what comes behind it.
LEMMA OldestIs ==
    ASSUME SeriesShape, BucketsInOrder, closedBuckets # <<>>, NEW b, b = Head(closedBuckets),
           NEW t, t = Tail(closedBuckets)
    PROVE  /\ b \in SeriesWhole /\ b.start \in Windows /\ b.start <= window
           /\ Start("long", b.start) \in Windows /\ Start("long", b.start) <= Start("long", window)
           /\ t \in Seq(SeriesWhole)
           /\ \A i, j \in DOMAIN t : i < j => t[i].start < t[j].start
           /\ \A i \in DOMAIN t : /\ t[i].start \in Windows /\ b.start < t[i].start /\ t[i].start <= window
                                  /\ Start("long", b.start) <= Start("long", t[i].start)
                                  /\ Start("long", t[i].start) \in Windows
                                  /\ Pending(nativeBucket) => t[i].start < nativeBucket.start
                                  /\ Pending(longBucket) => longBucket.start <= Start("long", t[i].start)
           /\ Pending(nativeBucket) => /\ b.start < nativeBucket.start
                                       /\ Start("long", b.start) <= Start("long", nativeBucket.start)
           /\ Pending(longBucket) => longBucket.start <= Start("long", b.start)
           /\ \A s, w : Start(s, b.start) = w => Gathering(s, w)
           /\ \A s, w : (\E i \in DOMAIN t : Start(s, t[i].start) = w) => Gathering(s, w)
           /\ \A s, w : ClosedOf(closedBuckets, s, w) = ClosedOf(t, s, w) + Mine(b, s, w)
<1> DEFINE cb == closedBuckets
           nb == nativeBucket
<1>1. cb \in Seq(SeriesWhole)
  BY DEF SeriesShape
<1>2. /\ t \in Seq(SeriesWhole) /\ Len(cb) \in Nat /\ DOMAIN cb = 1..Len(cb) /\ DOMAIN t = 1..(Len(cb) - 1)
      /\ \A i \in 1..(Len(cb) - 1) : t[i] = cb[i + 1]
      /\ b = cb[1] /\ 1 <= Len(cb)
  <2>1. t \in Seq(SeriesWhole) /\ Len(t) = Len(cb) - 1 /\ Len(t) \in Nat /\ Len(cb) \in Nat
        /\ \A i \in 1..Len(t) : t[i] = cb[i + 1]
    BY <1>1, HeadTailProperties, LenProperties
  <2>2. DOMAIN t = 1..Len(t) /\ DOMAIN cb = 1..Len(cb) /\ b = cb[1]
    BY <1>1, <2>1, LenProperties
  <2> QED  BY <2>1, <2>2
<1>3. /\ 1 \in DOMAIN cb
      /\ \A i \in DOMAIN t : i \in Int /\ i + 1 \in DOMAIN cb /\ t[i] = cb[i + 1] /\ 1 < i + 1
  BY <1>2
<1>4. b \in SeriesWhole /\ b.start \in Windows /\ b.start <= window /\ nb.start \in Windows
  BY <1>2, <1>3, StartsAre DEF BucketsInOrder
<1>5. \A i, j \in DOMAIN t : i < j => t[i].start < t[j].start
  <2>1. ASSUME NEW i \in DOMAIN t, NEW j \in DOMAIN t, i < j PROVE t[i].start < t[j].start
    <3>1. i + 1 < j + 1
      BY <1>3, <2>1
    <3> QED  BY <1>3, <3>1 DEF BucketsInOrder
  <2> QED  BY <2>1
<1>6. ASSUME NEW i \in DOMAIN t
      PROVE  /\ t[i].start \in Windows /\ b.start < t[i].start /\ t[i].start <= window
             /\ Pending(nb) => t[i].start < nb.start
             /\ Pending(longBucket) => longBucket.start <= Start("long", t[i].start)
  BY <1>2, <1>3, StartsAre DEF BucketsInOrder
<1>7. Windows \subseteq Int /\ "long" \in Steps /\ window \in Windows
  BY StartsAre
<1>70. b.start \in Int /\ nb.start \in Int /\ \A i \in DOMAIN t : t[i].start \in Int
  BY <1>4, <1>6, <1>7
<1>8. ASSUME NEW v \in Windows, b.start <= v
      PROVE  Start("long", b.start) <= Start("long", v) /\ Start("long", v) \in Windows
  BY <1>4, <1>7, <1>8, StartIs
<1>9. ASSUME NEW i \in DOMAIN t
      PROVE  Start("long", b.start) <= Start("long", t[i].start) /\ Start("long", t[i].start) \in Windows
  <2>1. b.start <= t[i].start
    BY <1>6, <1>70
  <2> QED  BY <1>6, <1>8, <2>1
<1>10. Pending(nb) => b.start < nb.start /\ Start("long", b.start) <= Start("long", nb.start)
  <2>1. ASSUME Pending(nb) PROVE b.start < nb.start
    BY <1>2, <1>3, <2>1 DEF BucketsInOrder
  <2>2. ASSUME Pending(nb) PROVE b.start <= nb.start
    BY <1>70, <2>1, <2>2
  <2> QED  BY <1>4, <1>8, <2>1, <2>2
<1>11. Pending(longBucket) => longBucket.start <= Start("long", b.start)
  BY <1>2, <1>3 DEF BucketsInOrder
<1>12. \A s, w : Start(s, b.start) = w => Gathering(s, w)
  BY <1>2, <1>3 DEF Gathering
<1>13. \A s, w : (\E i \in DOMAIN t : Start(s, t[i].start) = w) => Gathering(s, w)
  BY <1>3 DEF Gathering
<1>14. \A s, w : ClosedOf(cb, s, w) = ClosedOf(t, s, w) + Mine(b, s, w)
  BY <1>1, ClosedTail
<1>15. Start("long", b.start) \in Windows /\ Start("long", b.start) <= Start("long", window)
  BY <1>4, <1>7, <1>8, StartIs
<1> HIDE DEF cb, nb
<1> QED  BY <1>2, <1>4, <1>5, <1>6, <1>9, <1>10, <1>11, <1>12, <1>13, <1>14, <1>15 DEF cb, nb

LEMMA ClosesNativeStep == ASSUME SeriesInv, ClosesNative PROVE SeriesInv'
<1> DEFINE cb == closedBuckets
           nb == nativeBucket
           lb == longBucket
           b == Head(cb)
           t == Tail(cb)
           start == Start("long", b.start)
           joins == Pending(lb) /\ lb.start = start
           over == Pending(lb) /\ ~joins
           out == IF over THEN <<Row("native", b), Row("long", lb)>> ELSE <<Row("native", b)>>
           one == Append(writer.rows, Row("native", b))
           both == Append(one, Row("long", lb))
<1>1. /\ writer.at = "closes" /\ cb # <<>> /\ closedBuckets' = t
      /\ longBucket' = Bucket(start, IF joins THEN lb.count + b.count ELSE b.count)
      /\ Emits(out, "closes")
      /\ UNCHANGED <<window, sampled, nativeBucket, metricRows>>
  BY DEF ClosesNative
<1>2. SeriesShape /\ BucketsInOrder /\ LockIsHeld /\ nb \in SeriesWhole /\ lb \in SeriesWhole
      /\ cb \in Seq(SeriesWhole) /\ writer.rows \in Seq(SeriesRows)
  BY DEF SeriesInv, SeriesShape
<1>3. /\ b \in SeriesWhole /\ b.start \in Windows /\ b.count \in Nat /\ b.start <= window
      /\ start \in Windows /\ start <= Start("long", window)
      /\ t \in Seq(SeriesWhole)
      /\ \A i, j \in DOMAIN t : i < j => t[i].start < t[j].start
      /\ \A i \in DOMAIN t : /\ t[i].start \in Windows /\ b.start < t[i].start /\ t[i].start <= window
                             /\ start <= Start("long", t[i].start)
                             /\ Start("long", t[i].start) \in Windows
                             /\ Pending(nb) => t[i].start < nb.start
                             /\ Pending(lb) => lb.start <= Start("long", t[i].start)
      /\ Pending(nb) => b.start < nb.start /\ start <= Start("long", nb.start)
      /\ Pending(lb) => lb.start <= start
      /\ \A s, w : Start(s, b.start) = w => Gathering(s, w)
      /\ \A s, w : (\E i \in DOMAIN t : Start(s, t[i].start) = w) => Gathering(s, w)
      /\ \A s, w : ClosedOf(cb, s, w) = ClosedOf(t, s, w) + Mine(b, s, w)
  <2>1. b \in SeriesWhole
    BY <1>1, <1>2, OldestIs
  <2>2. b.count \in Nat
    BY <2>1 DEF SeriesWhole
  <2> HIDE DEF b, t
  <2>3. b = Head(cb) /\ t = Tail(cb)
    BY DEF b, t
  <2> QED  BY <1>1, <1>2, <2>1, <2>2, <2>3, OldestIs
<1>4. /\ lb.start \in Windows /\ lb.count \in Nat /\ nb.start \in Windows
      /\ window \in Windows /\ "long" \in Steps /\ "native" \in Steps
      /\ window \in Int /\ start \in Int /\ b.start \in Int /\ lb.start \in Int /\ nb.start \in Int
      /\ Start("long", window) \in Int /\ Windows \subseteq Int
  BY <1>2, <1>3, StartsAre, StartIs
<1>5. /\ longBucket' \in SeriesWhole /\ longBucket'.start = start
      /\ longBucket'.count = (IF joins THEN lb.count + b.count ELSE b.count)
  BY <1>1, <1>3, <1>4 DEF Bucket, SeriesWhole
<1>6. /\ Row("native", b) \in SeriesRows /\ Row("long", lb) \in SeriesRows
      /\ Row("native", b).step = "native" /\ Row("native", b).start = b.start
      /\ Row("native", b).count = b.count
      /\ Row("long", lb).step = "long" /\ Row("long", lb).start = lb.start /\ Row("long", lb).count = lb.count
  BY <1>3, <1>4 DEF Row, SeriesRows
<1> HIDE DEF b, t, start
<1>7. /\ writer' = [writer EXCEPT !.at = "closes", !.rows = writer.rows \o out]
      /\ writer' = [at |-> "closes", now |-> writer.now, all |-> writer.all, rows |-> writer.rows \o out]
      /\ writer.rows \o out = (IF over THEN both ELSE one)
      /\ one \in Seq(SeriesRows) /\ both \in Seq(SeriesRows)
  <2>1. writer' = [writer EXCEPT !.at = "closes", !.rows = writer.rows \o out]
    BY <1>1 DEF Emits
  <2>2. writer \in [at : {"waits", "drains", "closes", "writes", "last"}, now : Windows,
                    all : BOOLEAN, rows : Seq(SeriesRows)]
    BY <1>2 DEF SeriesShape
  <2>3. writer.rows \o <<Row("native", b)>> = one
    BY <1>2, <1>6, OneMore
  <2>4. writer.rows \o <<Row("native", b), Row("long", lb)>> = both
    BY <1>2, <1>6, TwoMore
  <2>5. one \in Seq(SeriesRows)
    BY <1>2, <1>6, AppendProperties
  <2>6. both \in Seq(SeriesRows)
    <3> HIDE DEF one
    <3> QED  BY <1>6, <2>5, AppendProperties
  <2> HIDE DEF one, both, over
  <2> QED  BY <2>1, <2>2, <2>3, <2>4, <2>5, <2>6
<1>8. SeriesShape'
  <2>1. writer' \in [at : {"waits", "drains", "closes", "writes", "last"}, now : Windows,
                     all : BOOLEAN, rows : Seq(SeriesRows)]
    <3>1. writer.now \in Windows /\ writer.all \in BOOLEAN /\ writer.rows \o out \in Seq(SeriesRows)
      <4> HIDE DEF one, both, over, out
      <4> QED  BY <1>2, <1>7 DEF SeriesShape
    <3> HIDE DEF out
    <3> QED  BY <1>7, <3>1
  <2> QED  BY <1>1, <1>2, <1>3, <1>5, <2>1 DEF SeriesShape
<1>9. BucketsInOrder'
  BY <1>1, <1>2, <1>3, <1>5 DEF BucketsInOrder
<1>10. LockIsHeld'
  <2>1. writer'.at = "closes" /\ writer'.now = writer.now /\ writer'.all = writer.all
    BY <1>7
  <2> QED  BY <1>1, <1>2, <2>1 DEF LockIsHeld
<1>11. ASSUME NEW s \in Steps, NEW w \in Windows, Undamaged(s, w)'
       PROVE  IsWhole(s, w)' /\ ClosedOnce(s, w)'
  <2>1. Undamaged(s, w) /\ \A i \in DOMAIN out : IsOf(out[i], s, w) => w # Start(s, window)
    <3> HIDE DEF out
    <3> QED  BY <1>1, <1>2, <1>11, EmitsRows
  <2>2. IsWhole(s, w) /\ ClosedOnce(s, w)
    BY <2>1 DEF SeriesInv, RowIsKept
  <2>3. /\ IsOf(Row("native", b), s, w) => w # Start(s, window)
        /\ over /\ IsOf(Row("long", lb), s, w) => w # Start(s, window)
    <3>1. 1 \in DOMAIN out /\ out[1] = Row("native", b)
      OBVIOUS
    <3>2. over => 2 \in DOMAIN out /\ out[2] = Row("long", lb)
      OBVIOUS
    <3> HIDE DEF out, over
    <3> QED  BY <2>1, <3>1, <3>2
  <2>4. /\ IsOf(Row("native", b), s, w) => s = "native" /\ w = b.start /\ Start(s, b.start) = w
        /\ IsOf(Row("long", lb), s, w) => s = "long" /\ w = lb.start
    BY <1>3, <1>4, <1>6, StartIs DEF IsOf
  <2>5. IsOf(Row("native", b), s, w) => w < Start(s, window) /\ Gathering(s, w)
    BY <1>3, <1>4, <2>3, <2>4, StartIs
  <2>6. over /\ IsOf(Row("long", lb), s, w) => w < start /\ w < Start(s, window) /\ Gathering(s, w)
    <3>1. ASSUME over, IsOf(Row("long", lb), s, w) PROVE w < start /\ w < Start(s, window)
      BY <1>3, <1>4, <2>4, <3>1 DEF start
    <3>2. ASSUME over, IsOf(Row("long", lb), s, w) PROVE Gathering(s, w)
      BY <2>4, <3>2 DEF Gathering
    <3> QED  BY <3>1, <3>2
  <2>7. Gathering(s, w) => ~EmittedIn(writer.rows, s, w) /\ metricRows[s][w] = 0
    BY <2>2 DEF ClosedOnce
  <2>8. OnceIn(writer.rows, s, w)
    BY <2>2 DEF ClosedOnce
  <2>9. /\ RowsOf(one, s, w) = RowsOf(writer.rows, s, w) + MyRow(Row("native", b), s, w)
        /\ EmittedIn(one, s, w) <=> EmittedIn(writer.rows, s, w) \/ IsOf(Row("native", b), s, w)
        /\ OnceIn(one, s, w)
    BY <1>2, <1>6, <2>5, <2>7, <2>8, RowEmitted
  <2>10. ~(IsOf(Row("native", b), s, w) /\ IsOf(Row("long", lb), s, w))
    BY <1>6 DEF IsOf
  <2>11. over => /\ RowsOf(both, s, w) = RowsOf(one, s, w) + MyRow(Row("long", lb), s, w)
                 /\ EmittedIn(both, s, w) <=> EmittedIn(one, s, w) \/ IsOf(Row("long", lb), s, w)
                 /\ OnceIn(both, s, w)
    <3>1. over /\ IsOf(Row("long", lb), s, w) => ~EmittedIn(one, s, w)
      BY <2>6, <2>7, <2>9, <2>10
    <3> HIDE DEF one, over
    <3> QED  BY <1>6, <1>7, <2>9, <3>1, RowEmitted
  <2>12. writer'.rows = IF over THEN both ELSE one
    BY <1>7
  <2>13. /\ EmittedIn(writer'.rows, s, w) <=> \/ EmittedIn(writer.rows, s, w)
                                              \/ IsOf(Row("native", b), s, w)
                                              \/ over /\ IsOf(Row("long", lb), s, w)
         /\ OnceIn(writer'.rows, s, w)
         /\ RowsOf(writer'.rows, s, w) = RowsOf(one, s, w)
              + (IF over THEN MyRow(Row("long", lb), s, w) ELSE 0)
    <3>1. RowsOf(one, s, w) \in Nat
      BY <1>2, <1>7, SeriesNat
    <3> HIDE DEF one, both, over
    <3> QED  BY <2>9, <2>11, <2>12, <3>1
  <2>14. PartsOf(s, w)' = PartsOf(s, w)
    <3> DEFINE m == metricRows[s][w]
               n == Mine(nb, s, w)
               c == ClosedOf(t, s, w)
               d == Mine(b, s, w)
               l == LongPart(lb, s, w)
               r == RowsOf(writer.rows, s, w)
               x == IF s = "native" THEN d ELSE 0
               y == IF over THEN l ELSE 0
               z == LongPart(longBucket', s, w)
    <3>1. /\ m \in Nat /\ n \in Nat /\ c \in Nat /\ d \in Nat /\ l \in Nat /\ r \in Nat /\ z \in Nat
      <4>1. m \in Nat
        BY <1>2 DEF SeriesShape
      <4>2. n \in Nat /\ l \in Nat /\ r \in Nat /\ c \in Nat
        BY <1>2, <1>3, SeriesNat
      <4>3. d \in Nat /\ z \in Nat
        BY <1>2, <1>3, <1>5, SeriesNat
      <4> QED  BY <4>1, <4>2, <4>3
    <3>2. RowsOf(writer'.rows, s, w) = r + x + y
      <4>1. MyRow(Row("native", b), s, w) = x
        <5>1. s = "native" => Start(s, b.start) = b.start
          BY <1>3, <1>4, StartIs
        <5> QED  BY <1>6, <5>1 DEF MyRow, Mine
      <4>2. MyRow(Row("long", lb), s, w) = l
        BY <1>6 DEF MyRow, LongPart
      <4> HIDE DEF x, y, l, r, over
      <4>3. RowsOf(one, s, w) = r + x
        BY <2>9, <4>1 DEF r
      <4>4. over => y = l
        BY DEF y
      <4>5. ~over => y = 0
        BY DEF y
      <4> QED  BY <2>13, <4>2, <4>3, <4>4, <4>5
    <3>3. z = l + (IF s = "long" THEN d ELSE 0) - y
      <4>1. CASE s # "long"
        BY <4>1 DEF LongPart
      <4>2. CASE s = "long"
        <5>1. z = IF start = w THEN longBucket'.count ELSE 0
          BY <1>5, <4>2 DEF LongPart
        <5>2. d = IF start = w THEN b.count ELSE 0
          BY <4>2 DEF Mine, start
        <5>3. l = IF lb.start = w THEN lb.count ELSE 0
          BY <4>2 DEF LongPart
        <5>4. CASE joins
          BY <1>3, <1>4, <1>5, <4>2, <5>1, <5>2, <5>3, <5>4
        <5>5. CASE over
          BY <1>3, <1>4, <1>5, <4>2, <5>1, <5>2, <5>3, <5>5
        <5>6. CASE ~Pending(lb)
          <6>1. lb.count = 0
            BY <1>4, <5>6 DEF Pending
          <6> QED  BY <1>3, <1>4, <1>5, <4>2, <5>1, <5>2, <5>3, <5>6, <6>1
        <5> QED  BY <5>4, <5>5, <5>6
      <4> QED  BY <4>1, <4>2
    <3>4. PartsOf(s, w)' = m + n + c + z + RowsOf(writer'.rows, s, w)
      BY <1>1 DEF PartsOf
    <3>5. PartsOf(s, w) = m + n + (c + d) + l + r
      BY <1>3 DEF PartsOf
    <3>6. y \in Nat /\ x + (IF s = "long" THEN d ELSE 0) = d /\ (IF s = "long" THEN d ELSE 0) \in Nat
      BY <1>11, <3>1 DEF Steps
    <3> DEFINE e == IF s = "long" THEN d ELSE 0
    <3>7. x \in Nat
      BY <3>1
    <3> HIDE DEF m, n, c, d, l, r, x, y, z, e
    <3>8. m + n + c + z + (r + x + y) = m + n + (c + d) + l + r
      <4>1. z = l + e - y /\ x + e = d /\ e \in Nat
        BY <3>3, <3>6 DEF e
      <4> QED  BY <3>1, <3>6, <3>7, <4>1
    <3> QED  BY <3>2, <3>4, <3>5, <3>8
  <2>15. IsWhole(s, w)'
    BY <1>1, <1>2, <1>8, <2>2, <2>14, WholeIs, WholeNext
  <2>16. Gathering(s, w)' => Gathering(s, w)
    <3>1. Gathering(s, w)' => \/ Pending(nb) /\ Start(s, nb.start) = w
                              \/ \E i \in DOMAIN t : Start(s, t[i].start) = w
                              \/ s = "long" /\ start = w
      BY <1>1, <1>5 DEF Gathering
    <3>2. s = "long" /\ start = w => Gathering(s, w)
      BY <1>3 DEF start
    <3>3. Pending(nb) /\ Start(s, nb.start) = w => Gathering(s, w)
      BY DEF Gathering
    <3> QED  BY <1>3, <3>1, <3>2, <3>3
  <2>17. IsOf(Row("native", b), s, w) => ~Gathering(s, w)'
    <3>1. ASSUME IsOf(Row("native", b), s, w) PROVE ~Gathering(s, w)'
      <4>1. s = "native" /\ w = b.start /\ \A v \in Windows : Start(s, v) = v
        BY <2>4, <3>1, StartIs
      <4>2. ~(Pending(nb) /\ Start(s, nb.start) = w)
        BY <1>3, <1>4, <4>1
      <4>3. \A i \in DOMAIN t : Start(s, t[i].start) # w
        <5>1. ASSUME NEW i \in DOMAIN t PROVE Start(s, t[i].start) # w
          <6>1. t[i].start \in Windows /\ b.start < t[i].start
            BY <1>3
          <6>2. t[i].start # b.start
            BY <1>4, <6>1
          <6> QED  BY <4>1, <6>1, <6>2
        <5> QED  BY <5>1
      <4> QED  BY <1>1, <4>1, <4>2, <4>3 DEF Gathering
    <3> QED  BY <3>1
  <2>18. over /\ IsOf(Row("long", lb), s, w) => ~Gathering(s, w)'
    <3>1. ASSUME over, IsOf(Row("long", lb), s, w) PROVE ~Gathering(s, w)'
      <4>1. s = "long" /\ w < start
        BY <2>4, <2>6, <3>1
      <4>2. w \in Int
        BY <1>4
      <4>3. ~(Pending(nb) /\ Start(s, nb.start) = w)
        <5>1. Start(s, nb.start) \in Int
          BY <1>4, StartIs
        <5> QED  BY <1>3, <1>4, <4>1, <4>2, <5>1
      <4>4. \A i \in DOMAIN t : Start(s, t[i].start) # w
        <5>1. ASSUME NEW i \in DOMAIN t PROVE Start(s, t[i].start) # w
          <6>1. start <= Start(s, t[i].start) /\ Start(s, t[i].start) \in Int
            BY <1>3, <1>4, <4>1
          <6> QED  BY <1>4, <4>1, <4>2, <6>1
        <5> QED  BY <5>1
      <4>5. longBucket'.start # w
        BY <1>4, <1>5, <4>1, <4>2
      <4> QED  BY <1>1, <4>1, <4>3, <4>4, <4>5 DEF Gathering
    <3> QED  BY <3>1
  <2>19. ClosedOnce(s, w)'
    <3>1. EmittedIn(writer'.rows, s, w) \/ metricRows'[s][w] # 0
            => w < Start(s, window) /\ ~Gathering(s, w)'
      <4> HIDE DEF over, one, both
      <4> QED  BY <1>1, <2>2, <2>5, <2>6, <2>13, <2>16, <2>17, <2>18 DEF ClosedOnce
    <3>2. EmittedIn(writer'.rows, s, w) => metricRows'[s][w] = 0
      <4> HIDE DEF over, one, both
      <4> QED  BY <1>1, <2>2, <2>5, <2>6, <2>7, <2>13 DEF ClosedOnce
    <3>3. OnceIn(writer'.rows, s, w)
      BY <2>13
    <3> QED  BY <1>1, <3>1, <3>2, <3>3 DEF ClosedOnce
  <2> QED  BY <2>15, <2>19
<1> QED  BY <1>8, <1>9, <1>10, <1>11 DEF SeriesInv, RowIsKept

LEMMA ClosesLongStep == ASSUME SeriesInv, ClosesLong PROVE SeriesInv'
<1> DEFINE nb == nativeBucket
           lb == longBucket
           over == Pending(lb) /\ (writer.all \/ lb.start # Start("long", writer.now))
           out == IF over THEN <<Row("long", lb)>> ELSE <<>>
           at == IF writer.all THEN "last" ELSE "writes"
           one == Append(writer.rows, Row("long", lb))
<1>1. /\ writer.at = "closes" /\ closedBuckets = <<>>
      /\ longBucket' = (IF over THEN NoBucket ELSE lb)
      /\ Emits(out, at)
      /\ UNCHANGED <<window, sampled, nativeBucket, closedBuckets, metricRows>>
  BY DEF ClosesLong
<1>2. SeriesShape /\ BucketsInOrder /\ LockIsHeld /\ nb \in SeriesWhole /\ lb \in SeriesWhole
      /\ writer.rows \in Seq(SeriesRows)
      /\ writer \in [at : {"waits", "drains", "closes", "writes", "last"}, now : Windows,
                     all : BOOLEAN, rows : Seq(SeriesRows)]
  BY DEF SeriesInv, SeriesShape
<1>3. /\ lb.start \in Windows /\ lb.count \in Nat /\ nb.start \in Windows
      /\ window \in Windows /\ "long" \in Steps
      /\ window \in Int /\ lb.start \in Int /\ Start("long", window) \in Int /\ Windows \subseteq Int
  BY <1>2, StartsAre, StartIs
<1>4. /\ Row("long", lb) \in SeriesRows /\ Row("long", lb).step = "long"
      /\ Row("long", lb).start = lb.start /\ Row("long", lb).count = lb.count
  BY <1>3 DEF Row, SeriesRows, Steps
<1>5. /\ NoBucket \in SeriesWhole /\ ~Pending(NoBucket) /\ NoBucket.count = 0
      /\ \A s, w : LongPart(NoBucket, s, w) = 0
  BY MetricAssumption DEF NoBucket, Bucket, Pending, SeriesWhole, Windows, LongPart
<1>6. /\ writer' = [writer EXCEPT !.at = at, !.rows = writer.rows \o out]
      /\ writer' = [at |-> at, now |-> writer.now, all |-> writer.all, rows |-> writer.rows \o out]
      /\ writer.rows \o out = (IF over THEN one ELSE writer.rows)
      /\ one \in Seq(SeriesRows)
  <2>1. writer' = [writer EXCEPT !.at = at, !.rows = writer.rows \o out]
    BY <1>1 DEF Emits
  <2>2. writer.rows \o <<Row("long", lb)>> = one
    BY <1>2, <1>4, OneMore
  <2>3. writer.rows \o <<>> = writer.rows
    BY <1>2
  <2>4. one \in Seq(SeriesRows)
    BY <1>2, <1>4, AppendProperties
  <2> HIDE DEF one, over, at
  <2> QED  BY <1>2, <2>1, <2>2, <2>3, <2>4
<1>7. SeriesShape'
  <2>1. writer' \in [at : {"waits", "drains", "closes", "writes", "last"}, now : Windows,
                     all : BOOLEAN, rows : Seq(SeriesRows)]
    <3>1. writer.now \in Windows /\ writer.all \in BOOLEAN /\ writer.rows \o out \in Seq(SeriesRows)
      <4> HIDE DEF one, over, out
      <4> QED  BY <1>2, <1>6
    <3>2. at \in {"writes", "last"}
      OBVIOUS
    <3> HIDE DEF out, at
    <3> QED  BY <1>6, <3>1, <3>2
  <2> HIDE DEF over
  <2> QED  BY <1>1, <1>2, <1>5, <2>1 DEF SeriesShape
<1>8. BucketsInOrder'
  <2> HIDE DEF over
  <2>1. longBucket' = lb \/ ~Pending(longBucket')
    BY <1>1, <1>5
  <2> QED  BY <1>1, <1>2, <2>1 DEF BucketsInOrder
<1>9. LockIsHeld'
  <2>1. writer'.at \in {"writes", "last"}
    BY <1>6
  <2> QED  BY <1>1, <2>1 DEF LockIsHeld
<1>10. ASSUME NEW s \in Steps, NEW w \in Windows, Undamaged(s, w)'
       PROVE  IsWhole(s, w)' /\ ClosedOnce(s, w)'
  <2>1. Undamaged(s, w) /\ \A i \in DOMAIN out : IsOf(out[i], s, w) => w # Start(s, window)
    <3> HIDE DEF out, at
    <3> QED  BY <1>1, <1>2, <1>10, EmitsRows
  <2>2. IsWhole(s, w) /\ ClosedOnce(s, w)
    BY <2>1 DEF SeriesInv, RowIsKept
  <2>3. over /\ IsOf(Row("long", lb), s, w) => w # Start(s, window)
    <3>1. over => 1 \in DOMAIN out /\ out[1] = Row("long", lb)
      OBVIOUS
    <3> HIDE DEF out, over
    <3> QED  BY <2>1, <3>1
  <2>4. over /\ IsOf(Row("long", lb), s, w) => /\ s = "long" /\ w = lb.start /\ w < Start(s, window)
                                               /\ Gathering(s, w)
    <3>1. ASSUME over, IsOf(Row("long", lb), s, w) PROVE s = "long" /\ w = lb.start /\ lb.start <= Start(s, window)
      BY <1>2, <1>4, <3>1 DEF IsOf, BucketsInOrder
    <3>2. ASSUME over, IsOf(Row("long", lb), s, w) PROVE w < Start(s, window)
      BY <1>3, <2>3, <3>1, <3>2
    <3>3. ASSUME over, IsOf(Row("long", lb), s, w) PROVE Gathering(s, w)
      BY <3>1, <3>3 DEF Gathering
    <3> HIDE DEF over
    <3> QED  BY <3>1, <3>2, <3>3
  <2>5. Gathering(s, w) => ~EmittedIn(writer.rows, s, w) /\ metricRows[s][w] = 0
    BY <2>2 DEF ClosedOnce
  <2>6. OnceIn(writer.rows, s, w)
    BY <2>2 DEF ClosedOnce
  <2>7. over => /\ RowsOf(one, s, w) = RowsOf(writer.rows, s, w) + MyRow(Row("long", lb), s, w)
                /\ EmittedIn(one, s, w) <=> EmittedIn(writer.rows, s, w) \/ IsOf(Row("long", lb), s, w)
                /\ OnceIn(one, s, w)
    <3>1. over /\ IsOf(Row("long", lb), s, w) => ~EmittedIn(writer.rows, s, w)
      BY <2>4, <2>5
    <3> HIDE DEF over
    <3> QED  BY <1>2, <1>4, <2>6, <3>1, RowEmitted
  <2>8. writer'.rows = IF over THEN one ELSE writer.rows
    BY <1>6
  <2>9. /\ EmittedIn(writer'.rows, s, w) <=> \/ EmittedIn(writer.rows, s, w)
                                             \/ over /\ IsOf(Row("long", lb), s, w)
        /\ OnceIn(writer'.rows, s, w)
    <3> HIDE DEF one, over
    <3> QED  BY <2>6, <2>7, <2>8
  <2>10. PartsOf(s, w)' = PartsOf(s, w)
    <3> DEFINE m == metricRows[s][w]
               n == Mine(nb, s, w)
               c == ClosedOf(closedBuckets, s, w)
               l == LongPart(lb, s, w)
               r == RowsOf(writer.rows, s, w)
               y == IF over THEN l ELSE 0
               z == LongPart(longBucket', s, w)
               x == RowsOf(writer'.rows, s, w)
    <3>1. /\ m \in Nat /\ n \in Nat /\ c \in Nat /\ l \in Nat /\ r \in Nat
      <4>1. m \in Nat /\ closedBuckets \in Seq(SeriesWhole)
        BY <1>2 DEF SeriesShape
      <4> QED  BY <1>2, <4>1, SeriesNat
    <3>2. x = r + y /\ z = l - y
      <4>1. MyRow(Row("long", lb), s, w) = l
        BY <1>4 DEF MyRow, LongPart
      <4>2. CASE over
        <5>1. x = r + l
          BY <2>7, <2>8, <4>1, <4>2
        <5>2. z = 0 /\ y = l
          BY <1>1, <1>5, <4>2
        <5> HIDE DEF x, y, z, r, l
        <5> QED  BY <3>1, <5>1, <5>2
      <4>3. CASE ~over
        <5>1. x = r /\ z = l /\ y = 0
          BY <1>1, <2>8, <4>3
        <5> HIDE DEF x, y, z, r, l
        <5> QED  BY <3>1, <5>1
      <4> QED  BY <4>2, <4>3
    <3>3. PartsOf(s, w)' = m + n + c + z + x
      BY <1>1 DEF PartsOf
    <3>4. PartsOf(s, w) = m + n + c + l + r
      BY DEF PartsOf
    <3>5. y \in Nat
      BY <3>1
    <3> HIDE DEF m, n, c, l, r, x, y, z
    <3> QED  BY <3>1, <3>2, <3>3, <3>4, <3>5
  <2>11. IsWhole(s, w)'
    BY <1>1, <1>2, <1>7, <2>2, <2>10, WholeIs, WholeNext
  <2>12. Gathering(s, w)' => Gathering(s, w)
    <3> HIDE DEF over
    <3>1. longBucket' = lb \/ ~Pending(longBucket')
      BY <1>1, <1>5
    <3> QED  BY <1>1, <3>1 DEF Gathering
  <2>13. over /\ IsOf(Row("long", lb), s, w) => ~Gathering(s, w)'
    <3>1. ASSUME over, IsOf(Row("long", lb), s, w) PROVE ~Gathering(s, w)'
      <4>1. s = "long" /\ w = lb.start /\ ~Pending(longBucket')
        BY <1>1, <1>5, <2>4, <3>1
      <4>2. ~(Pending(nb) /\ Start(s, nb.start) = w)
        BY <1>1, <1>2, <3>1, <4>1 DEF LockIsHeld
      <4>3. \A i \in DOMAIN closedBuckets' : FALSE
        BY <1>1
      <4> QED  BY <1>1, <4>1, <4>2, <4>3 DEF Gathering
    <3> QED  BY <3>1
  <2>14. ClosedOnce(s, w)'
    <3> HIDE DEF over
    <3>1. EmittedIn(writer'.rows, s, w) \/ metricRows'[s][w] # 0
            => w < Start(s, window) /\ ~Gathering(s, w)'
      BY <1>1, <2>2, <2>4, <2>9, <2>12, <2>13 DEF ClosedOnce
    <3>2. EmittedIn(writer'.rows, s, w) => metricRows'[s][w] = 0
      BY <1>1, <2>2, <2>4, <2>5, <2>9 DEF ClosedOnce
    <3> QED  BY <1>1, <2>9, <3>1, <3>2 DEF ClosedOnce
  <2> QED  BY <2>11, <2>14
<1> QED  BY <1>7, <1>8, <1>9, <1>10 DEF SeriesInv, RowIsKept

\* A row is written, or lost.
LEMMA UpsertsRowStep == ASSUME SeriesInv, UpsertsRow PROVE SeriesInv'
<1> DEFINE q == writer.rows
           r == Head(q)
<1>1. /\ writer.at \in {"writes", "last"} /\ q # <<>> /\ writer' = [writer EXCEPT !.rows = Tail(q)]
      /\ \/ /\ metricRows' = [metricRows EXCEPT ![r.step][r.start] = r.count] /\ damaged' = damaged
         \/ /\ damaged' = damaged \cup {Named(r, "failed")} /\ metricRows' = metricRows
      /\ UNCHANGED <<window, sampled, nativeBucket, longBucket, closedBuckets>>
  BY DEF UpsertsRow, BucketsStay
<1>2. SeriesShape /\ BucketsInOrder /\ LockIsHeld /\ q \in Seq(SeriesRows)
      /\ metricRows \in [Steps -> [Windows -> Nat]]
      /\ writer \in [at : {"waits", "drains", "closes", "writes", "last"}, now : Windows,
                     all : BOOLEAN, rows : Seq(SeriesRows)]
  BY DEF SeriesInv, SeriesShape
<1>3. r \in SeriesRows /\ r.step \in Steps /\ r.start \in Windows /\ r.count \in Nat
      /\ Tail(q) \in Seq(SeriesRows)
  <2>1. r \in SeriesRows /\ Tail(q) \in Seq(SeriesRows)
    BY <1>1, <1>2, HeadTailProperties
  <2> HIDE DEF r
  <2> QED  BY <2>1 DEF SeriesRows
<1> HIDE DEF r
<1>4. writer' = [at |-> writer.at, now |-> writer.now, all |-> writer.all, rows |-> Tail(q)]
  BY <1>1, <1>2
<1>5. metricRows' \in [Steps -> [Windows -> Nat]]
  <2>1. CASE metricRows' = [metricRows EXCEPT ![r.step][r.start] = r.count]
    <3>1. metricRows[r.step] \in [Windows -> Nat]
      BY <1>2, <1>3
    <3>2. [metricRows[r.step] EXCEPT ![r.start] = r.count] \in [Windows -> Nat]
      BY <1>3, <3>1
    <3>3. metricRows' = [metricRows EXCEPT ![r.step] = [metricRows[r.step] EXCEPT ![r.start] = r.count]]
      BY <2>1
    <3> QED  BY <1>2, <1>3, <3>2, <3>3
  <2> QED  BY <1>1, <1>2, <2>1
<1>6. SeriesShape'
  <2>1. writer' \in [at : {"waits", "drains", "closes", "writes", "last"}, now : Windows,
                     all : BOOLEAN, rows : Seq(SeriesRows)]
    BY <1>2, <1>3, <1>4
  <2> QED  BY <1>1, <1>2, <1>5, <2>1 DEF SeriesShape
<1>7. BucketsInOrder'
  BY <1>1, <1>2 DEF BucketsInOrder
<1>8. LockIsHeld'
  <2>1. writer'.at = writer.at
    BY <1>4
  <2> QED  BY <1>1, <1>2, <2>1 DEF LockIsHeld
<1>9. ASSUME NEW s \in Steps, NEW w \in Windows, Undamaged(s, w)'
      PROVE  IsWhole(s, w)' /\ ClosedOnce(s, w)'
  <2>1. Undamaged(s, w)
    BY <1>1, <1>9 DEF Undamaged
  <2>2. IsWhole(s, w) /\ ClosedOnce(s, w)
    BY <2>1 DEF SeriesInv, RowIsKept
  <2>3. /\ RowsOf(q, s, w) = RowsOf(Tail(q), s, w) + MyRow(r, s, w)
        /\ EmittedIn(Tail(q), s, w) => EmittedIn(q, s, w)
        /\ IsOf(r, s, w) => EmittedIn(q, s, w) /\ ~EmittedIn(Tail(q), s, w)
        /\ OnceIn(Tail(q), s, w)
    <3>1. OnceIn(q, s, w)
      BY <2>2 DEF ClosedOnce
    <3> QED  BY <1>1, <1>2, <3>1, RowsTail, RowAhead DEF r
  <2>4. writer'.rows = Tail(q)
    BY <1>4
  <2>5. metricRows'[s][w] = metricRows[s][w] + MyRow(r, s, w)
        /\ (~IsOf(r, s, w) => metricRows'[s][w] = metricRows[s][w])
    <3>1. metricRows[s][w] \in Nat
      BY <1>2
    <3>2. CASE IsOf(r, s, w)
      <4>1. damaged' = damaged
        <5>1. Named(r, "failed").step = s /\ Named(r, "failed").start = w
          BY <3>2 DEF Named, IsOf
        <5>2. Named(r, "failed") \notin damaged'
          BY <1>9, <5>1 DEF Undamaged
        <5> QED  BY <1>1, <5>2
      <4>2. metricRows' = [metricRows EXCEPT ![r.step][r.start] = r.count]
        <5>1. Named(r, "failed").step = s /\ Named(r, "failed").start = w
          BY <3>2 DEF Named, IsOf
        <5>2. Named(r, "failed") \notin damaged'
          BY <1>9, <5>1 DEF Undamaged
        <5> QED  BY <1>1, <5>2
      <4>3. metricRows'[s][w] = r.count
        BY <1>2, <1>3, <3>2, <4>2 DEF IsOf
      <4>4. metricRows[s][w] = 0
        BY <2>2, <2>3, <3>2 DEF ClosedOnce
      <4>5. MyRow(r, s, w) = r.count
        BY <3>2 DEF MyRow, IsOf
      <4> QED  BY <1>3, <3>2, <4>3, <4>4, <4>5
    <3>3. CASE ~IsOf(r, s, w)
      <4>1. MyRow(r, s, w) = 0
        BY <3>3 DEF MyRow, IsOf
      <4>2. metricRows'[s][w] = metricRows[s][w]
        <5>1. CASE metricRows' = metricRows
          BY <5>1
        <5>2. CASE metricRows' = [metricRows EXCEPT ![r.step][r.start] = r.count]
          <6>1. s # r.step => metricRows'[s] = metricRows[s]
            BY <1>2, <5>2
          <6>2. s = r.step => metricRows'[s] = [metricRows[s] EXCEPT ![r.start] = r.count]
            BY <1>2, <5>2
          <6>3. metricRows[s] \in [Windows -> Nat] /\ (s = r.step => w # r.start)
            BY <1>2, <3>3 DEF IsOf
          <6> QED  BY <6>1, <6>2, <6>3
        <5> QED  BY <1>1, <5>1, <5>2
      <4> QED  BY <3>1, <4>1, <4>2
    <3> QED  BY <3>2, <3>3
  <2>6. PartsOf(s, w)' = PartsOf(s, w)
    <3> DEFINE m == metricRows[s][w]
               n == Mine(nativeBucket, s, w)
               c == ClosedOf(closedBuckets, s, w)
               l == LongPart(longBucket, s, w)
               x == RowsOf(Tail(q), s, w)
               y == MyRow(r, s, w)
    <3>1. m \in Nat /\ n \in Nat /\ c \in Nat /\ l \in Nat /\ x \in Nat /\ y \in Nat
      <4>1. /\ m \in Nat /\ closedBuckets \in Seq(SeriesWhole)
            /\ nativeBucket \in SeriesWhole /\ longBucket \in SeriesWhole
        BY <1>2 DEF SeriesShape
      <4>2. y \in Nat
        BY <1>3 DEF MyRow
      <4> QED  BY <1>3, <4>1, <4>2, SeriesNat
    <3>2. PartsOf(s, w)' = (m + y) + n + c + l + x
      BY <1>1, <2>4, <2>5 DEF PartsOf
    <3>3. PartsOf(s, w) = m + n + c + l + (x + y)
      BY <2>3 DEF PartsOf
    <3> HIDE DEF m, n, c, l, x, y
    <3> QED  BY <3>1, <3>2, <3>3
  <2>7. IsWhole(s, w)'
    BY <1>1, <1>2, <1>6, <2>2, <2>6, WholeIs, WholeNext
  <2>8. Gathering(s, w)' = Gathering(s, w)
    BY <1>1 DEF Gathering
  <2>9. ClosedOnce(s, w)'
    <3>1. EmittedIn(Tail(q), s, w) \/ metricRows'[s][w] # 0 => w < Start(s, window) /\ ~Gathering(s, w)
      BY <2>2, <2>3, <2>5 DEF ClosedOnce
    <3>2. EmittedIn(Tail(q), s, w) => metricRows'[s][w] = 0
      BY <2>2, <2>3, <2>5 DEF ClosedOnce
    <3> QED  BY <1>1, <2>3, <2>4, <2>8, <3>1, <3>2 DEF ClosedOnce
  <2> QED  BY <2>7, <2>9
<1> QED  BY <1>6, <1>7, <1>8, <1>9 DEF SeriesInv, RowIsKept

\* The process ends: what it held is damaged, what it wrote stays.
LEMMA MetricRestartStep == ASSUME SeriesInv, MetricRestart PROVE SeriesInv'
<1>1. /\ damaged' = damaged \cup InMemory
      /\ nativeBucket' = NoBucket /\ longBucket' = NoBucket /\ closedBuckets' = <<>>
      /\ writer' = [at |-> "waits", now |-> 0, all |-> FALSE, rows |-> <<>>]
      /\ UNCHANGED <<window, sampled, metricRows>>
  BY DEF MetricRestart, Waiting
<1>2. SeriesShape
  BY DEF SeriesInv
<1>3. /\ NoBucket \in SeriesWhole /\ ~Pending(NoBucket) /\ NoBucket.count = 0
      /\ \A s, w : LongPart(NoBucket, s, w) = 0 /\ Mine(NoBucket, s, w) = 0
      /\ 0 \in Windows
  BY MetricAssumption DEF NoBucket, Bucket, Pending, SeriesWhole, Windows, LongPart, Mine
<1>4. SeriesShape'
  <2>1. writer' \in [at : {"waits", "drains", "closes", "writes", "last"}, now : Windows,
                     all : BOOLEAN, rows : Seq(SeriesRows)]
    BY <1>1, <1>3
  <2>2. closedBuckets' \in Seq(SeriesWhole)
    BY <1>1
  <2> QED  BY <1>1, <1>2, <1>3, <2>1, <2>2 DEF SeriesShape
<1>5. DOMAIN closedBuckets' = {} /\ DOMAIN writer'.rows = {} /\ writer'.rows = <<>>
  BY <1>1
<1>6. BucketsInOrder'
  BY <1>1, <1>3, <1>5 DEF BucketsInOrder
<1>7. LockIsHeld'
  BY <1>1 DEF LockIsHeld
<1>8. ASSUME NEW s \in Steps, NEW w \in Windows, Undamaged(s, w)'
      PROVE  IsWhole(s, w)' /\ ClosedOnce(s, w)'
  <2>1. Undamaged(s, w) /\ \A t \in InMemory : t.step # s \/ t.start # w
    BY <1>1, <1>8 DEF Undamaged
  <2>2. IsWhole(s, w) /\ ClosedOnce(s, w)
    BY <2>1 DEF SeriesInv, RowIsKept
  <2> DEFINE natives == {b \in {nativeBucket} : Pending(b)} \cup {closedBuckets[i] : i \in DOMAIN closedBuckets}
  <2>3. ASSUME NEW b \in natives PROVE Start(s, b.start) # w
    <3> DEFINE n == Named(Row(s, Bucket(Start(s, b.start), b.count)), "lost")
    <3>1. n \in InMemory
      BY DEF InMemory
    <3>2. n.step = s /\ n.start = Start(s, b.start)
      BY DEF Named, Row, Bucket
    <3> HIDE DEF n
    <3> QED  BY <2>1, <3>1, <3>2
  <2>4. ASSUME Pending(longBucket), s = "long" PROVE longBucket.start # w
    <3>1. Named(Row("long", longBucket), "lost") \in InMemory
      BY <2>4 DEF InMemory
    <3>2. Named(Row("long", longBucket), "lost").step = "long"
          /\ Named(Row("long", longBucket), "lost").start = longBucket.start
      BY DEF Named, Row
    <3> QED  BY <2>1, <2>4, <3>1, <3>2
  <2>5. ASSUME NEW i \in DOMAIN writer.rows PROVE ~IsOf(writer.rows[i], s, w)
    <3>1. Named(writer.rows[i], "lost") \in InMemory
      BY DEF InMemory
    <3>2. Named(writer.rows[i], "lost").step = writer.rows[i].step
          /\ Named(writer.rows[i], "lost").start = writer.rows[i].start
      BY DEF Named
    <3> QED  BY <2>1, <3>1, <3>2 DEF IsOf
  <2>6. Mine(nativeBucket, s, w) = 0
    <3>1. CASE Pending(nativeBucket)
      BY <2>3, <3>1 DEF Mine
    <3>2. CASE ~Pending(nativeBucket)
      <4>1. nativeBucket.count = 0
        BY <1>2, <3>2, StartsAre DEF Pending
      <4> QED  BY <4>1 DEF Mine
    <3> QED  BY <3>1, <3>2
  <2>7. LongPart(longBucket, s, w) = 0
    <3>1. CASE Pending(longBucket)
      BY <2>4, <3>1 DEF LongPart
    <3>2. CASE ~Pending(longBucket)
      <4>1. longBucket.count = 0
        BY <1>2, <3>2, StartsAre DEF Pending
      <4> QED  BY <4>1 DEF LongPart
    <3> QED  BY <3>1, <3>2
  <2>8. ClosedOf(closedBuckets, s, w) = 0
    BY <2>3, ClosedNoneOf
  <2>9. RowsOf(writer.rows, s, w) = 0
    BY <2>5, RowsNoneOf DEF IsOf
  <2>10. PartsOf(s, w)' = PartsOf(s, w)
    <3>1. Mine(nativeBucket', s, w) = 0 /\ LongPart(longBucket', s, w) = 0
      BY <1>1, <1>3
    <3>2. ClosedOf(closedBuckets', s, w) = 0 /\ RowsOf(writer'.rows, s, w) = 0
      BY <1>1, <1>5, ClosedNone, RowsNone
    <3> QED  BY <1>1, <2>6, <2>7, <2>8, <2>9, <3>1, <3>2 DEF PartsOf
  <2>11. IsWhole(s, w)'
    BY <1>1, <1>2, <1>4, <2>2, <2>10, WholeIs, WholeNext
  <2>12. ~EmittedIn(writer'.rows, s, w) /\ OnceIn(writer'.rows, s, w)
    BY <1>5 DEF EmittedIn, OnceIn
  <2>13. ~Gathering(s, w)'
    BY <1>1, <1>3, <1>5 DEF Gathering
  <2>14. ClosedOnce(s, w)'
    BY <1>1, <2>2, <2>12, <2>13 DEF ClosedOnce
  <2> QED  BY <2>11, <2>14
<1> QED  BY <1>4, <1>6, <1>7, <1>8 DEF SeriesInv, RowIsKept

-----------------------------------------------------------------------------
(* The intervals of a state *)

\* Between closing an interval and opening another, none is open.
IntervalInv ==
    /\ IntervalFollowsState
    /\ stateStep # "idle" /\ ~stateMishap => intervals = {}
    /\ stateStep \in States \cup {"idle"} /\ observed \in States \cup {"none"} /\ intervals \subseteq States

SeriesQuiet == UNCHANGED <<window, sampled, nativeBucket, longBucket, closedBuckets, writer, metricRows, damaged>>

LEMMA SeriesSits == ASSUME SeriesInv, SeriesQuiet PROVE SeriesInv'
<1>1. SeriesShape' /\ BucketsInOrder' /\ LockIsHeld'
  BY DEF SeriesInv, SeriesQuiet, SeriesShape, BucketsInOrder, LockIsHeld
<1>2. window <= window'
  BY MetricAssumption DEF SeriesInv, SeriesQuiet, SeriesShape, Windows
<1>3. \A s \in Steps : \A w \in Windows : RowIsKept(s, w)'
  BY <1>1, <1>2, RowsStay DEF SeriesQuiet
<1> QED  BY <1>1, <1>3 DEF SeriesInv

LEMMA SeriesStep == ASSUME SeriesInv, MetricNext PROVE SeriesInv'
<1>1. CASE Gauges
  BY <1>1, GaugesStep
<1>2. CASE WindowPasses
  BY <1>2, WindowPassesStep
<1>3. CASE WriterWakes
  BY <1>3, WriterWakesStep
<1>4. CASE WriterDrains
  BY <1>4, WriterDrainsStep
<1>5. CASE ClosesNative
  BY <1>5, ClosesNativeStep
<1>6. CASE ClosesLong
  BY <1>6, ClosesLongStep
<1>7. CASE UpsertsRow
  BY <1>7, UpsertsRowStep
<1>8. CASE WriterRests
  BY <1>8, WriterRestsStep
<1>9. CASE Flushes
  BY <1>9, FlushesStep
<1>10. CASE MetricRestart
  BY <1>10, MetricRestartStep
<1>11. CASE ClosesInterval \/ OpensInterval
  <2>1. SeriesQuiet
    BY <1>11 DEF ClosesInterval, OpensInterval, BucketsStay, SeriesQuiet
  <2> QED  BY <2>1, SeriesSits
<1> QED
  BY <1>1, <1>2, <1>3, <1>4, <1>5, <1>6, <1>7, <1>8, <1>9, <1>10, <1>11 DEF MetricNext

LEMMA IntervalStep == ASSUME IntervalInv, MetricNext PROVE IntervalInv'
<1>1. CASE ClosesInterval
  <2>1. PICK s \in States \ {observed} :
          /\ stateStep' = s
          /\ IF observed = "none" THEN UNCHANGED <<intervals, stateMishap, metricEvents>>
             ELSE \/ intervals' = {} /\ UNCHANGED <<stateMishap, metricEvents>>
                  \/ MetricEvent /\ stateMishap' = TRUE /\ UNCHANGED intervals
    BY <1>1 DEF ClosesInterval
  <2>2. stateStep = "idle" /\ observed' = observed /\ stateStep' # "idle"
    BY <1>1, <2>1 DEF ClosesInterval, States
  <2> QED  BY <2>1, <2>2 DEF IntervalInv, IntervalFollowsState
<1>2. CASE OpensInterval
  <2>1. /\ stateStep # "idle" /\ stateStep' = "idle" /\ observed' = stateStep
        /\ \/ intervals' = intervals \cup {stateStep} /\ stateMishap' = stateMishap
           \/ stateMishap' = TRUE /\ intervals' = intervals
    BY <1>2 DEF OpensInterval
  <2>2. stateStep # "none"
    BY <2>1 DEF IntervalInv, States
  <2> QED  BY <2>1, <2>2 DEF IntervalInv, IntervalFollowsState
<1>3. CASE MetricRestart
  <2>1. /\ \/ observed' \in (IF intervals = {} THEN {"none"} ELSE intervals)
              /\ stateMishap' = (stateMishap \/ stateStep # "idle")
           \/ observed' = "none" /\ stateMishap' = TRUE
        /\ stateStep' = "idle" /\ intervals' = intervals
    BY <1>3 DEF MetricRestart
  <2>2. intervals = {} \/ \A o \in intervals : o \in States /\ o # "none"
    BY DEF IntervalInv, States
  <2>3. IntervalFollowsState'
    <3>1. ASSUME ~stateMishap' PROVE intervals' = (IF observed' = "none" THEN {} ELSE {observed'})
      <4>1. stateStep = "idle" /\ ~stateMishap /\ observed' \in (IF intervals = {} THEN {"none"} ELSE intervals)
        BY <2>1, <3>1
      <4>2. intervals = (IF observed = "none" THEN {} ELSE {observed})
        BY <4>1 DEF IntervalInv, IntervalFollowsState
      <4> QED  BY <2>1, <2>2, <4>1, <4>2
    <3> QED  BY <3>1 DEF IntervalFollowsState
  <2> QED  BY <2>1, <2>2, <2>3 DEF IntervalInv
<1>4. CASE UNCHANGED <<observed, intervals, stateStep, stateMishap>>
  BY <1>4 DEF IntervalInv, IntervalFollowsState
<1>5. ClosesInterval \/ OpensInterval \/ MetricRestart \/ UNCHANGED <<observed, intervals, stateStep, stateMishap>>
  BY DEF MetricNext, StateStays, Gauges, WindowPasses, WriterWakes, WriterDrains, ClosesNative, ClosesLong,
         UpsertsRow, WriterRests, Flushes
<1> QED  BY <1>1, <1>2, <1>3, <1>4, <1>5

LEMMA SeriesFollow ==
    ASSUME SeriesInv, IntervalInv, [MetricNext]_metricVars PROVE SeriesInv' /\ IntervalInv'
<1>1. CASE UNCHANGED metricVars
  <2>1. SeriesQuiet /\ UNCHANGED <<observed, intervals, stateStep, stateMishap>>
    BY <1>1 DEF metricVars, SeriesQuiet
  <2> QED  BY <2>1, SeriesSits DEF IntervalInv, IntervalFollowsState
<1> QED  BY <1>1, SeriesStep, IntervalStep

LEMMA IntervalStarts == MetricInit => IntervalInv
  BY DEF MetricInit, IntervalInv, IntervalFollowsState, States

LEMMA SeriesAreCounted == SeriesInv => ReadingsAreCounted
  BY DEF SeriesInv, RowIsKept, Undamaged, ReadingsAreCounted

=============================================================================
