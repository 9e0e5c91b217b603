-------------------------- MODULE IceChannelProofs --------------------------
(***************************************************************************)
(* Theorems about IceChannel, for any number of candidate pairs, requests  *)
(* and troubles, any networks, roles and protocols.                        *)
(***************************************************************************)
EXTENDS IceChannel, ListLemmas

-----------------------------------------------------------------------------
(* The invariant                                                           *)

Role == {"CONTROLLING", "CONTROLLED"}
Known == {"RFC5245", "GOOGLE"}
Write == {"INIT", "WRITABLE", "UNRELIABLE", "TIMEOUT"}
Read == {"INIT", "READABLE", "TIMEOUT"}
Place == Pairs \cup {None}

ConnRec ==
    [alive : BOOLEAN, read : Read, write : Write, pruned : BOOLEAN,
     reqs : SUBSET (1 .. MaxReq), silent : 0 .. 2, quiet : BOOLEAN]
Message == {Sort} \cup {Delete(p) : p \in Pairs}
AgentRec ==
    [proto : {"HYBRID"} \cup Known, role : Role, switched : BOOLEAN,
     conflict : BOOLEAN, conn : [Pairs -> ConnRec],
     port : [Pairs -> {"HYBRID", "gone"} \cup Known], check : SUBSET Pairs,
     due : Seq(Pairs), remote : SUBSET Pairs, best : Place, pending : Place,
     dirty : BOOLEAN, queue : Seq(Message), writable : BOOLEAN, readable : BOOLEAN]
PacketRec ==
    [kind : {"REQUEST", "OK", "ROLE_CONFLICT", "RETRY"}, to : Agents, pair : Pairs,
     id : 1 .. MaxReq, style : {"HYBRID"} \cup Known, role : Role \cup {""}, use : BOOLEAN]

\* What the thread of g may find in its queue.
Posted(g) == {Sort} \cup {Delete(p) : p \in Live(g)}

\* An agent on its own.
Whole(g) ==
    /\ g \in AgentRec
    /\ \A p \in Pairs : ~g.conn[p].alive => g.conn[p] = NoConn
    /\ g.best \in Live(g) \cup {None} /\ g.pending \in Live(g) \cup {None}
    /\ g.queue \in Seq(Posted(g))
    /\ \A p \in Live(g) : g.port[p] # "gone"

\* One that does not sort yet has a sort due once a connection is writable.
Safe(g) ==
    /\ Whole(g)
    /\ g.proto = "HYBRID" /\ ~g.dirty =>
          ~g.writable /\ \A p \in Pairs : g.conn[p].write # "WRITABLE"

\* Unless a sort is due, the channel is what its connections make of it.
Chosen(g) ==
    ~g.dirty =>
       /\ g.writable = IsWritable(g, g.best)
       /\ ~Follows(g) /\ IsWritable(g, Top(g, Live(g))) => g.best = Top(g, Live(g))

\* The two do not both start as controlled.
Proper == \A r \in Roles : r[A] # r[B] \/ r[A] = "CONTROLLING"

Opposite(role) == IF role = "CONTROLLING" THEN "CONTROLLED" ELSE "CONTROLLING"

\* r are the roles the two started with.  Only one of them can be told to give
\* in, and requests bear the first or the last role of their sender.
Loser(r) == IF r[A] = "CONTROLLING" THEN A ELSE B
GivesIn(r, a) == r[A] = r[B] /\ a = Loser(r)
Course(r, ag, n) ==
    /\ \A a \in Agents :
          /\ ag[a].role = IF ag[a].switched THEN Opposite(r[a]) ELSE r[a]
          /\ ag[a].switched \/ ag[a].conflict => GivesIn(r, a)
    /\ \A m \in n :
          /\ m.kind = "ROLE_CONFLICT" => GivesIn(r, m.to)
          /\ m.kind = "REQUEST" /\ m.role # "" =>
                m.role \in {r[Other(m.to)], ag[Other(m.to)].role}

Sound(g) ==
    /\ Safe(g) /\ g.proto \in {"HYBRID", protocol}
    /\ Proper => Chosen(g)

IInv ==
    /\ protocol \in Protocols /\ left \in 0 .. MaxTrouble
    /\ net \subseteq PacketRec
    /\ agent \in [Agents -> AgentRec] /\ \A a \in Agents : Sound(agent[a])
    /\ \E r \in Roles : Course(r, agent, net)
-----------------------------------------------------------------------------
(* What holds from one application of a fold to the next holds of it all.  *)

\* Whom a fold takes next.
Picked(s) == CHOOSE x \in s : TRUE

LEMMA PickedIn == \A s : s # {} => Picked(s) \in s
  BY Zenon DEF Picked

\* Taking one leaves fewer.
LEMMA FewerLeft ==
    ASSUME NEW S, IsFiniteSet(S), NEW s \in SUBSET S, s # {}, NEW n \in Nat,
           Cardinality(s) <= n + 1
    PROVE  s \ {Picked(s)} \in SUBSET S /\ Cardinality(s \ {Picked(s)}) <= n
  <1>1. IsFiniteSet(s) /\ Picked(s) \in s BY FS_Subset, PickedIn
  <1>2. Cardinality(s) \in Nat BY <1>1, FS_CardinalityType
  <1>3. Cardinality(s \ {Picked(s)}) = Cardinality(s) - 1 BY <1>1, FS_RemoveElement
  <1> QED BY <1>2, <1>3

LEMMA NoneLeft ==
    ASSUME NEW S, IsFiniteSet(S), NEW s \in SUBSET S, Cardinality(s) <= 0
    PROVE  s = {}
  <1>1. IsFiniteSet(s) BY FS_Subset
  <1>2. Cardinality(s) \in Nat BY <1>1, FS_CardinalityType
  <1>3. Cardinality(s) = 0 BY <1>2
  <1> QED BY <1>1, <1>3, FS_EmptySet

LEMMA FoldStays ==
    ASSUME NEW S, IsFiniteSet(S), NEW K, NEW f, f[{}] \in K,
           \A s \in SUBSET S : s # {} /\ f[s \ {Picked(s)}] \in K => f[s] \in K
    PROVE  f[S] \in K
  <1> DEFINE P == {n \in Nat : \A s \in SUBSET S : Cardinality(s) <= n => f[s] \in K}
  <1>1. 0 \in P
    <2>1. \A s \in SUBSET S : Cardinality(s) <= 0 => f[s] \in K BY NoneLeft
    <2> QED BY <2>1
  <1>2. ASSUME NEW n \in Nat, n \in P PROVE n + 1 \in P
    <2>1. ASSUME NEW s \in SUBSET S, Cardinality(s) <= n + 1 PROVE f[s] \in K
      <3>1. CASE s = {} BY <3>1
      <3>2. CASE s # {}
        <4>1. s \ {Picked(s)} \in SUBSET S /\ Cardinality(s \ {Picked(s)}) <= n
          BY <2>1, <3>2, FewerLeft
        <4>2. f[s \ {Picked(s)}] \in K BY <1>2, <4>1
        <4> QED BY <3>2, <4>2
      <3> QED BY <3>1, <3>2
    <2> QED BY <2>1
  <1>3. Nat \subseteq P
    <2> HIDE DEF P
    <2> QED BY <1>1, <1>2, SetInduction
  <1>4. Cardinality(S) \in Nat /\ S \in SUBSET S BY FS_CardinalityType
  <1>5. Cardinality(S) \in P BY <1>3, <1>4
  <1> QED BY <1>4, <1>5

\* f is the fold over every part of S, from b on.
Folding(f, S, b, F) ==
    \A s \in SUBSET S : f[s] = IF s = {} THEN b ELSE F[Picked(s)][f[s \ {Picked(s)}]]

LEMMA FoldExists ==
    ASSUME NEW S, IsFiniteSet(S), NEW K, NEW b \in K, NEW F \in [S -> [K -> K]]
    PROVE  \E f \in [SUBSET S -> K] : Folding(f, S, b, F)
  <1> DEFINE R(f, s) == IF s = {} THEN b ELSE F[Picked(s)][f[s \ {Picked(s)}]]
             P == {n \in Nat : \E f \in [SUBSET S -> K] :
                      \A s \in SUBSET S : Cardinality(s) <= n => f[s] = R(f, s)}
  <1>1. 0 \in P
    <2> DEFINE f == [s \in SUBSET S |-> b]
    <2>1. \A s \in SUBSET S : Cardinality(s) <= 0 => f[s] = R(f, s) BY NoneLeft
    <2>2. f \in [SUBSET S -> K] OBVIOUS
    <2> HIDE DEF f, R
    <2> QED BY <2>1, <2>2
  <1>2. ASSUME NEW n \in Nat, n \in P PROVE n + 1 \in P
    <2>1. PICK f \in [SUBSET S -> K] :
             \A s \in SUBSET S : Cardinality(s) <= n => f[s] = R(f, s)
      BY <1>2
    <2> DEFINE g == [s \in SUBSET S |-> R(f, s)]
    <2>2. ASSUME NEW s \in SUBSET S PROVE R(f, s) \in K
      <3>1. CASE s = {} BY <3>1
      <3>2. CASE s # {}
        <4>1. Picked(s) \in S BY <3>2, PickedIn
        <4>2. f[s \ {Picked(s)}] \in K BY <2>1
        <4> QED BY <3>2, <4>1, <4>2
      <3> QED BY <3>1, <3>2
    <2>3. g \in [SUBSET S -> K] BY <2>2
    <2>4. ASSUME NEW s \in SUBSET S, Cardinality(s) <= n + 1 PROVE g[s] = R(g, s)
      <3>1. CASE s = {} BY <3>1
      <3>2. CASE s # {}
        <4> DEFINE t == s \ {Picked(s)}
        <4>1. t \in SUBSET S /\ Cardinality(t) <= n BY <2>4, <3>2, FewerLeft
        <4> HIDE DEF t
        <4>2. f[t] = R(f, t) /\ g[t] = R(f, t)
          <5> HIDE DEF R
          <5> QED BY <2>1, <4>1
        <4>3. g[s] = F[Picked(s)][f[t]] BY <3>2 DEF t
        <4>4. R(g, s) = F[Picked(s)][g[t]] BY <3>2 DEF t
        <4> QED BY <4>2, <4>3, <4>4
      <3> QED BY <3>1, <3>2, SMTT(30)
    <2> HIDE DEF g, R
    <2> QED BY <2>3, <2>4
  <1>3. Nat \subseteq P
    <2> HIDE DEF P
    <2> QED BY <1>1, <1>2, SetInduction
  <1>4. Cardinality(S) \in Nat BY FS_CardinalityType
  <1>5. PICK f \in [SUBSET S -> K] :
           \A s \in SUBSET S : Cardinality(s) <= Cardinality(S) => f[s] = R(f, s)
    BY <1>3, <1>4
  <1>6. \A s \in SUBSET S : Cardinality(s) <= Cardinality(S) BY FS_Subset
  <1>7. \A s \in SUBSET S : f[s] = R(f, s)
    <2> HIDE DEF R
    <2> QED BY <1>5, <1>6
  <1>8. Folding(f, S, b, F) BY <1>7 DEF Folding
  <1> QED BY <1>8

LEMMA LiveFinite == \A g : IsFiniteSet(Live(g))
  <1>1. IsFiniteSet(Pairs) BY PairsAssumption
  <1>2. \A g : Live(g) \in SUBSET Pairs BY DEF Live
  <1> QED BY <1>1, <1>2, FS_Subset

\* The loop of UpdateConnectionStates.
LEMMA UpdateFold ==
    ASSUME NEW K, NEW g \in K, \A h \in K : \A p \in Live(g) : UpdateState(h, p) \in K
    PROVE  UpdateConnectionStates(g) \in K
  <1> DEFINE S == Live(g)
             E(f) == [s \in SUBSET S |-> IF s = {} THEN g
                         ELSE UpdateState(f[s \ {CHOOSE x \in s : TRUE}],
                                          CHOOSE x \in s : TRUE)]
             iter == CHOOSE f : f = E(f)
             F == [p \in S |-> [h \in K |-> UpdateState(h, p)]]
  <1>1. UpdateConnectionStates(g) = iter[S]
    BY Zenon DEF UpdateConnectionStates, FoldSet, MapThenFoldSet
  <1>2. IsFiniteSet(S) BY LiveFinite
  <1>3. F \in [S -> [K -> K]] OBVIOUS
  <1>4. \A p \in S : \A h \in K : F[p][h] = UpdateState(h, p) OBVIOUS
  <1> HIDE DEF F, S
  <1>5. PICK f \in [SUBSET S -> K] : Folding(f, S, g, F) BY <1>2, <1>3, FoldExists
  <1>6. \A s \in SUBSET S : s # {} =>
           Picked(s) \in S /\ s \ {Picked(s)} \in SUBSET S
    BY PickedIn
  <1>7. \A s \in SUBSET S : f[s] = IF s = {} THEN g
                ELSE UpdateState(f[s \ {Picked(s)}], Picked(s))
    <2> TAKE s \in SUBSET S
    <2>1. CASE s = {} BY <1>5, <2>1 DEF Folding
    <2>2. CASE s # {}
      <3> DEFINE t == s \ {Picked(s)}
      <3>1. f[t] \in K /\ Picked(s) \in S BY <1>5, <1>6, <2>2
      <3>2. F[Picked(s)][f[t]] = UpdateState(f[t], Picked(s)) BY <1>4, <3>1
      <3> QED BY <1>5, <2>2, <3>2 DEF Folding
    <2> QED BY <2>1, <2>2
  <1>8. f = E(f) BY <1>7 DEF Picked
  <1>9. iter = E(iter)
    <2> HIDE DEF E
    <2> QED BY <1>8, Zenon
  <1> HIDE DEF iter
  <1>10. iter[{}] = g BY <1>9
  <1>11. ASSUME NEW s \in SUBSET S, s # {}, iter[s \ {Picked(s)}] \in K
         PROVE  iter[s] \in K
    <2>1. iter[s] = UpdateState(iter[s \ {Picked(s)}], Picked(s))
      BY <1>9, <1>11 DEF Picked
    <2>2. Picked(s) \in S BY <1>6, <1>11
    <2> QED BY <1>11, <2>1, <2>2 DEF S
  <1>12. iter[{}] \in K BY <1>10
  <1>13. iter[S] \in K BY <1>2, <1>11, <1>12, FoldStays
  <1> QED BY <1>1, <1>13

\* The loop of PruneConnections.
LEMMA PruneFold ==
    ASSUME NEW K, NEW g \in K, \A h \in K : \A p \in Superfluous(g) : Prune(h, p) \in K
    PROVE  PruneConnections(g) \in K
  <1> DEFINE S == Superfluous(g)
             E(f) == [s \in SUBSET S |-> IF s = {} THEN g
                         ELSE Prune(f[s \ {CHOOSE x \in s : TRUE}],
                                          CHOOSE x \in s : TRUE)]
             iter == CHOOSE f : f = E(f)
             F == [p \in S |-> [h \in K |-> Prune(h, p)]]
  <1>1. PruneConnections(g) = iter[S]
    BY Zenon DEF PruneConnections, FoldSet, MapThenFoldSet
  <1>2. IsFiniteSet(S)
    <2>1. S \in SUBSET Live(g) BY DEF Superfluous
    <2> QED BY <2>1, LiveFinite, FS_Subset
  <1>3. F \in [S -> [K -> K]] OBVIOUS
  <1>4. \A p \in S : \A h \in K : F[p][h] = Prune(h, p) OBVIOUS
  <1> HIDE DEF F, S
  <1>5. PICK f \in [SUBSET S -> K] : Folding(f, S, g, F) BY <1>2, <1>3, FoldExists
  <1>6. \A s \in SUBSET S : s # {} =>
           Picked(s) \in S /\ s \ {Picked(s)} \in SUBSET S
    BY PickedIn
  <1>7. \A s \in SUBSET S : f[s] = IF s = {} THEN g
                ELSE Prune(f[s \ {Picked(s)}], Picked(s))
    <2> TAKE s \in SUBSET S
    <2>1. CASE s = {} BY <1>5, <2>1 DEF Folding
    <2>2. CASE s # {}
      <3> DEFINE t == s \ {Picked(s)}
      <3>1. f[t] \in K /\ Picked(s) \in S BY <1>5, <1>6, <2>2
      <3>2. F[Picked(s)][f[t]] = Prune(f[t], Picked(s)) BY <1>4, <3>1
      <3> QED BY <1>5, <2>2, <3>2 DEF Folding
    <2> QED BY <2>1, <2>2
  <1>8. f = E(f) BY <1>7 DEF Picked
  <1>9. iter = E(iter)
    <2> HIDE DEF E
    <2> QED BY <1>8, Zenon
  <1> HIDE DEF iter
  <1>10. iter[{}] = g BY <1>9
  <1>11. ASSUME NEW s \in SUBSET S, s # {}, iter[s \ {Picked(s)}] \in K
         PROVE  iter[s] \in K
    <2>1. iter[s] = Prune(iter[s \ {Picked(s)}], Picked(s))
      BY <1>9, <1>11 DEF Picked
    <2>2. Picked(s) \in S BY <1>6, <1>11
    <2> QED BY <1>11, <2>1, <2>2 DEF S
  <1>12. iter[{}] \in K BY <1>10
  <1>13. iter[S] \in K BY <1>2, <1>11, <1>12, FoldStays
  <1> QED BY <1>1, <1>13

\* The remote candidates known at the start, one after the other.
LEMMA StartFold ==
    ASSUME NEW K, NEW a, NEW role, NEW proto, Created(a, role, proto) \in K,
           \A h \in K : \A p \in Pairs : Introduced(h, p) \in K
    PROVE  Start(a, role, proto) \in K
  <1> DEFINE S == Early(a)
             b == Created(a, role, proto)
             E(f) == [s \in SUBSET S |-> IF s = {} THEN b
                         ELSE Introduced(f[s \ {CHOOSE x \in s : TRUE}],
                                         CHOOSE x \in s : TRUE)]
             iter == CHOOSE f : f = E(f)
             F == [p \in S |-> [h \in K |-> Introduced(h, p)]]
  <1>1. Start(a, role, proto) = iter[S]
    BY Zenon DEF Start, FoldSet, MapThenFoldSet
  <1>2. IsFiniteSet(S) /\ S \subseteq Pairs
    <2>1. S \in SUBSET Pairs BY DEF Early
    <2> QED BY <2>1, PairsAssumption, FS_Subset
  <1>3. F \in [S -> [K -> K]] /\ b \in K BY <1>2
  <1>4. \A p \in S : \A h \in K : F[p][h] = Introduced(h, p) OBVIOUS
  <1> HIDE DEF F, S, b
  <1>5. PICK f \in [SUBSET S -> K] : Folding(f, S, b, F) BY <1>2, <1>3, FoldExists
  <1>6. \A s \in SUBSET S : s # {} =>
           Picked(s) \in S /\ s \ {Picked(s)} \in SUBSET S
    BY PickedIn
  <1>7. \A s \in SUBSET S : f[s] = IF s = {} THEN b
                ELSE Introduced(f[s \ {Picked(s)}], Picked(s))
    <2> TAKE s \in SUBSET S
    <2>1. CASE s = {} BY <1>5, <2>1 DEF Folding
    <2>2. CASE s # {}
      <3> DEFINE t == s \ {Picked(s)}
      <3>1. f[t] \in K /\ Picked(s) \in S BY <1>5, <1>6, <2>2
      <3>2. F[Picked(s)][f[t]] = Introduced(f[t], Picked(s))
        BY <1>4, <3>1
      <3> QED BY <1>5, <2>2, <3>2 DEF Folding
    <2> QED BY <2>1, <2>2
  <1>8. f = E(f) BY <1>7 DEF Picked
  <1>9. iter = E(iter)
    <2> HIDE DEF E
    <2> QED BY <1>8, Zenon
  <1> HIDE DEF iter
  <1>10. iter[{}] = b BY <1>9
  <1>11. ASSUME NEW s \in SUBSET S, s # {}, iter[s \ {Picked(s)}] \in K
         PROVE  iter[s] \in K
    <2>1. iter[s] = Introduced(iter[s \ {Picked(s)}], Picked(s))
      BY <1>9, <1>11 DEF Picked
    <2>2. Picked(s) \in S BY <1>6, <1>11
    <2> QED BY <1>2, <1>11, <2>1, <2>2
  <1>12. iter[{}] \in K BY <1>3, <1>10
  <1>13. iter[S] \in K BY <1>2, <1>11, <1>12, FoldStays
  <1> QED BY <1>1, <1>13

-----------------------------------------------------------------------------
(* Connections that change their states                                    *)

\* h is g after some have: the channel is sorted again, if it matters.
Shift(g, h) ==
    /\ h.proto = g.proto /\ h.role = g.role /\ h.switched = g.switched
    /\ h.conflict = g.conflict /\ h.port = g.port /\ h.remote = g.remote
    /\ h.writable = g.writable
    /\ \A p \in Pairs : /\ h.conn[p].alive = g.conn[p].alive
                        /\ h.conn[p].reqs \subseteq g.conn[p].reqs
    /\ g.dirty => h.dirty
    /\ ~h.dirty => /\ h.best = g.best
                   /\ \A p \in Pairs : h.conn[p].write = g.conn[p].write

LEMMA ShiftSelf == ASSUME NEW g PROVE Shift(g, g)
  BY DEF Shift

LEMMA ShiftTransitive ==
    ASSUME NEW f, NEW g, NEW h, Shift(f, g), Shift(g, h) PROVE Shift(f, h)
  BY DEF Shift

LEMMA ShiftLive == ASSUME NEW g, NEW h, Shift(g, h) PROVE Live(h) = Live(g)
  BY DEF Shift, Live

LEMMA NoConnType == NewConn \in ConnRec /\ NoConn \in ConnRec
  <1>1. {} \in SUBSET (1 .. MaxReq) /\ 0 \in 0 .. 2 OBVIOUS
  <1> QED BY <1>1 DEF NewConn, NoConn, ConnRec, Read, Write

LEMMA PairsNat == Pairs \subseteq Nat /\ None \notin Pairs
  BY PairsAssumption DEF None

\* A message more.
LEMMA PostWhole ==
    ASSUME NEW g, Whole(g), NEW m \in Posted(g)
    PROVE  /\ Whole(Post(g, m)) /\ Shift(g, Post(g, m))
           /\ Post(g, m).conn = g.conn /\ Post(g, m).dirty = g.dirty
  <1> DEFINE q == Append(g.queue, m)
             h == [g EXCEPT !.queue = q]
  <1>1. g \in AgentRec /\ g.queue \in Seq(Posted(g)) BY DEF Whole
  <1>2. Posted(g) \subseteq Message BY DEF Posted, Message, Live
  <1>3. q \in Seq(Posted(g)) /\ q \in Seq(Message) BY <1>1, <1>2 DEF AgentRec
  <1> HIDE DEF q
  <1>4. h \in AgentRec BY <1>1, <1>3 DEF AgentRec
  <1>5. h.conn = g.conn /\ h.queue = q /\ h.best = g.best /\ h.pending = g.pending
        /\ h.port = g.port /\ h.dirty = g.dirty
    BY <1>1 DEF AgentRec
  <1>6. Live(h) = Live(g) BY <1>5 DEF Live
  <1>7. Posted(h) = Posted(g) BY <1>6 DEF Posted
  <1>8. Whole(h)
    <2> HIDE DEF h
    <2> QED BY <1>3, <1>4, <1>5, <1>6, <1>7 DEF Whole
  <1>9. Shift(g, h) BY <1>1 DEF Shift, AgentRec
  <1> QED BY <1>5, <1>8, <1>9 DEF Post, q

\* A connection of g is another one now.
LEMMA ConnWhole ==
    ASSUME NEW g, Whole(g), NEW p \in Live(g), NEW c \in ConnRec,
           c.alive, c.reqs \subseteq g.conn[p].reqs
    PROVE  LET h == [g EXCEPT !.conn[p] = c]
           IN /\ Whole(h) /\ Live(h) = Live(g)
              /\ h.conn = [g.conn EXCEPT ![p] = c]
  <1> DEFINE h == [g EXCEPT !.conn[p] = c]
             n == [g.conn EXCEPT ![p] = c]
  <1>1. g \in AgentRec /\ p \in Pairs /\ g.conn[p].alive BY DEF Whole, Live
  <1>2. g.conn \in [Pairs -> ConnRec] BY <1>1 DEF AgentRec
  <1>3. n \in [Pairs -> ConnRec] /\ n[p] = c /\ \A q \in Pairs \ {p} : n[q] = g.conn[q]
    BY <1>1, <1>2
  <1>4. h.conn = n /\ h.queue = g.queue /\ h.best = g.best /\ h.pending = g.pending
        /\ h.port = g.port
    BY <1>1 DEF AgentRec
  <1> HIDE DEF n
  <1>5. h \in AgentRec
    <2>1. h = [g EXCEPT !.conn = n] BY <1>1 DEF n, AgentRec
    <2> QED BY <2>1, <1>1, <1>3 DEF AgentRec
  <1> HIDE DEF h
  <1>6. Live(h) = Live(g) BY <1>1, <1>3, <1>4 DEF Live
  <1>7. Posted(h) = Posted(g) BY <1>6 DEF Posted
  <1>8. \A q \in Pairs : ~h.conn[q].alive => h.conn[q] = NoConn
    BY <1>3, <1>4 DEF Whole
  <1>9. Whole(h) BY <1>4, <1>5, <1>6, <1>7, <1>8 DEF Whole
  <1> QED BY <1>4, <1>6, <1>9 DEF h, n

LEMMA RequestSortEffect ==
    ASSUME NEW g, Whole(g)
    PROVE  /\ Safe(RequestSort(g)) /\ Shift(g, RequestSort(g))
           /\ RequestSort(g).conn = g.conn /\ RequestSort(g).dirty
           /\ RequestSort(g).best = g.best
  <1>1. CASE g.dirty
    <2>1. RequestSort(g) = g BY <1>1 DEF RequestSort
    <2> QED BY <1>1, <2>1, ShiftSelf DEF Safe
  <1>2. CASE ~g.dirty
    <2> DEFINE f == Post(g, Sort)
               h == [f EXCEPT !.dirty = TRUE]
    <2>1. Sort \in Posted(g) BY DEF Posted
    <2>2. Whole(f) /\ Shift(g, f) /\ f.conn = g.conn BY <2>1, PostWhole
    <2>3. f.best = g.best /\ g \in AgentRec BY DEF Post, AgentRec, Whole
    <2> HIDE DEF f
    <2>4. f \in AgentRec BY <2>2 DEF Whole
    <2>5. h \in AgentRec BY <2>4 DEF AgentRec
    <2>6. h.conn = f.conn /\ h.queue = f.queue /\ h.best = f.best /\ h.pending = f.pending
          /\ h.port = f.port /\ h.dirty
      BY <2>4 DEF AgentRec
    <2>7. Shift(f, h) BY <2>4 DEF Shift, AgentRec
    <2> HIDE DEF h
    <2>8. Live(h) = Live(f) BY <2>6 DEF Live
    <2>9. Posted(h) = Posted(f) BY <2>8 DEF Posted
    <2>10. Whole(h) BY <2>2, <2>5, <2>6, <2>8, <2>9 DEF Whole
    <2>11. RequestSort(g) = h BY <1>2 DEF RequestSort, f, h
    <2>12. Shift(g, h) BY <2>2, <2>7, ShiftTransitive
    <2> QED BY <2>2, <2>3, <2>6, <2>10, <2>11, <2>12 DEF Safe
  <1> QED BY <1>1, <1>2

\* h is g with b for its best connection.
Rechosen(g, h, b) ==
    /\ Whole(h) /\ h.conn = g.conn /\ Live(h) = Live(g) /\ h.best = b
    /\ h.proto = g.proto /\ h.role = g.role /\ h.switched = g.switched
    /\ h.conflict = g.conflict /\ h.port = g.port /\ h.remote = g.remote
    /\ h.writable = g.writable /\ h.dirty = g.dirty

LEMMA BestWhole ==
    ASSUME NEW g, Whole(g), NEW b \in Live(g) \cup {None}, NEW n \in Live(g) \cup {None}
    PROVE  Rechosen(g, [g EXCEPT !.pending = n, !.best = b], b)
  <1> DEFINE h == [g EXCEPT !.pending = n, !.best = b]
  <1>1. g \in AgentRec /\ Live(g) \subseteq Pairs BY DEF Whole, Live
  <1>2. h \in AgentRec BY <1>1 DEF AgentRec, Place
  <1>3. h.conn = g.conn /\ h.best = b /\ h.pending = n
        /\ h.proto = g.proto /\ h.role = g.role /\ h.switched = g.switched
        /\ h.conflict = g.conflict /\ h.port = g.port /\ h.remote = g.remote
        /\ h.writable = g.writable /\ h.dirty = g.dirty /\ h.queue = g.queue
    BY <1>1 DEF AgentRec
  <1> HIDE DEF h
  <1>4. Live(h) = Live(g) BY <1>3 DEF Live
  <1>5. Posted(h) = Posted(g) BY <1>4 DEF Posted
  <1>6. Whole(h) BY <1>2, <1>3, <1>4, <1>5 DEF Whole
  <1>7. Rechosen(g, h, b) BY <1>3, <1>4, <1>6 DEF Rechosen
  <1> QED BY <1>7 DEF h

LEMMA StateChangeEffect ==
    ASSUME NEW g, Whole(g), NEW p \in Live(g)
    PROVE  /\ Safe(OnConnectionStateChange(g, p))
           /\ Shift(g, OnConnectionStateChange(g, p))
           /\ OnConnectionStateChange(g, p).conn = g.conn
           /\ OnConnectionStateChange(g, p).dirty
  <1>1. CASE Follows(g) /\ p = g.pending /\ IsWritable(g, p)
    <2> DEFINE f == [g EXCEPT !.pending = None, !.best = p]
    <2>1. Rechosen(g, f, p) BY BestWhole
    <2>2. OnConnectionStateChange(g, p) = RequestSort(f)
      BY <1>1 DEF OnConnectionStateChange
    <2> HIDE DEF f
    <2> DEFINE r == RequestSort(f)
    <2>3. Safe(r) /\ Shift(f, r) /\ r.conn = f.conn /\ r.dirty
      BY <2>1, RequestSortEffect DEF Rechosen
    <2> HIDE DEF r
    <2>4. Shift(g, r) BY <2>1, <2>3 DEF Shift, Rechosen
    <2> QED BY <2>1, <2>2, <2>3, <2>4 DEF r, Rechosen
  <1>2. CASE ~(Follows(g) /\ p = g.pending /\ IsWritable(g, p))
    <2>1. OnConnectionStateChange(g, p) = RequestSort(g)
      BY <1>2 DEF OnConnectionStateChange
    <2> QED BY <2>1, RequestSortEffect
  <1> QED BY <1>1, <1>2

LEMMA CheckTimeoutEffect ==
    ASSUME NEW g, Safe(g), NEW p \in Live(g)
    PROVE  /\ Safe(CheckTimeout(g, p)) /\ Shift(g, CheckTimeout(g, p))
           /\ CheckTimeout(g, p).conn = g.conn /\ CheckTimeout(g, p).dirty = g.dirty
  <1> DEFINE h == Post(g, Delete(p))
  <1>1. Delete(p) \in Posted(g) BY DEF Posted
  <1>2. Whole(h) /\ Shift(g, h) /\ h.conn = g.conn /\ h.dirty = g.dirty
    BY <1>1, PostWhole DEF Safe
  <1> HIDE DEF h
  <1>3. Safe(h) BY <1>2 DEF Safe, Shift
  <1>4. CheckTimeout(g, p) \in {g, h} BY DEF CheckTimeout, h
  <1> QED BY <1>2, <1>3, <1>4, ShiftSelf

\* The state of a connection has changed.
LEMMA ChangedEffect ==
    ASSUME NEW g, Safe(g), NEW p \in Live(g), NEW c \in ConnRec,
           c.alive, c.reqs \subseteq g.conn[p].reqs
    PROVE  LET f == [g EXCEPT !.conn[p] = c]
               h == CheckTimeout(OnConnectionStateChange(f, p), p)
           IN Safe(h) /\ Shift(g, h) /\ h.conn = f.conn /\ h.dirty
  <1> DEFINE f == [g EXCEPT !.conn[p] = c]
             o == OnConnectionStateChange(f, p)
             h == CheckTimeout(o, p)
  <1>1. /\ Whole(f) /\ Live(f) = Live(g)
        /\ f.conn = [g.conn EXCEPT ![p] = c]
    BY ConnWhole DEF Safe
  <1>2. g \in AgentRec /\ g.conn \in [Pairs -> ConnRec] BY DEF Safe, Whole, AgentRec
  <1>3. /\ f.proto = g.proto /\ f.role = g.role /\ f.switched = g.switched
        /\ f.conflict = g.conflict /\ f.port = g.port /\ f.remote = g.remote
        /\ f.writable = g.writable
    BY <1>2 DEF AgentRec
  <1>4. p \in Pairs /\ g.conn[p].alive BY DEF Live
  <1>5. \A q \in Pairs : /\ f.conn[q].alive = g.conn[q].alive
                         /\ f.conn[q].reqs \subseteq g.conn[q].reqs
    BY <1>1, <1>2, <1>4 DEF ConnRec
  <1> HIDE DEF f
  <1>6. Safe(o) /\ Shift(f, o) /\ o.conn = f.conn /\ o.dirty
    BY <1>1, StateChangeEffect
  <1> HIDE DEF o
  <1>7. p \in Live(o) BY <1>1, <1>6 DEF Live
  <1>8. Safe(h) /\ Shift(o, h) /\ h.conn = o.conn /\ h.dirty = o.dirty
    BY <1>6, <1>7, CheckTimeoutEffect
  <1> HIDE DEF h
  <1>9. Shift(g, h) BY <1>3, <1>5, <1>6, <1>8 DEF Shift
  <1> QED BY <1>6, <1>8, <1>9 DEF f, o, h

\* Something else about a connection has changed.
LEMMA StillEffect ==
    ASSUME NEW g, Safe(g), NEW p \in Live(g), NEW c \in ConnRec, c.alive,
           c.reqs \subseteq g.conn[p].reqs, c.write = g.conn[p].write
    PROVE  LET h == [g EXCEPT !.conn[p] = c]
           IN Safe(h) /\ Shift(g, h) /\ h.conn = [g.conn EXCEPT ![p] = c]
  <1> DEFINE h == [g EXCEPT !.conn[p] = c]
  <1>1. /\ Whole(h) /\ Live(h) = Live(g)
        /\ h.conn = [g.conn EXCEPT ![p] = c]
    BY ConnWhole DEF Safe
  <1>2. g \in AgentRec /\ g.conn \in [Pairs -> ConnRec] BY DEF Safe, Whole, AgentRec
  <1>3. /\ h.proto = g.proto /\ h.role = g.role /\ h.switched = g.switched
        /\ h.conflict = g.conflict /\ h.port = g.port /\ h.remote = g.remote
        /\ h.writable = g.writable /\ h.dirty = g.dirty /\ h.best = g.best
    BY <1>2 DEF AgentRec
  <1>4. p \in Pairs /\ g.conn[p].alive BY DEF Live
  <1>5. \A q \in Pairs : /\ h.conn[q].alive = g.conn[q].alive
                         /\ h.conn[q].reqs \subseteq g.conn[q].reqs
                         /\ h.conn[q].write = g.conn[q].write
    BY <1>1, <1>2, <1>4 DEF ConnRec
  <1> HIDE DEF h
  <1>6. Shift(g, h) BY <1>3, <1>5 DEF Shift
  <1>7. Safe(h) BY <1>1, <1>3, <1>5 DEF Safe
  <1> QED BY <1>1, <1>6, <1>7 DEF h

LEMMA ConnOf ==
    ASSUME NEW g, Whole(g), NEW p \in Live(g)
    PROVE  p \in Pairs /\ g.conn[p] \in ConnRec /\ g.conn[p].alive /\ g \in AgentRec
           /\ g.conn \in [Pairs -> ConnRec]
  BY DEF Whole, AgentRec, Live

\* What a handler of a connection may do to its agent.
Chain(g) == {h \in AgentRec : Safe(h) /\ Shift(g, h)}

LEMMA ChainSelf == ASSUME NEW g, Safe(g) PROVE g \in Chain(g)
  BY ShiftSelf DEF Chain, Safe, Whole

LEMMA ChainTransitive ==
    ASSUME NEW f, NEW g \in Chain(f), NEW h \in Chain(g) PROVE h \in Chain(f)
  BY ShiftTransitive DEF Chain

LEMMA ChainLive ==
    ASSUME NEW g, NEW h \in Chain(g) PROVE Safe(h) /\ Shift(g, h) /\ Live(h) = Live(g)
  BY ShiftLive DEF Chain

LEMMA SafeChain ==
    ASSUME NEW g, NEW h, Safe(h), Shift(g, h) PROVE h \in Chain(g)
  BY DEF Chain, Safe, Whole

LEMMA SetReadEffect ==
    ASSUME NEW g, Safe(g), NEW p \in Live(g), NEW v \in Read
    PROVE  set_read_state(g, p, v) \in Chain(g)
  <1> DEFINE c == [g.conn[p] EXCEPT !.read = v]
             f == [g EXCEPT !.conn[p] = c]
             h == CheckTimeout(OnConnectionStateChange(f, p), p)
  <1>1. /\ p \in Pairs /\ g.conn[p] \in ConnRec /\ g.conn[p].alive /\ g \in AgentRec
        /\ g.conn \in [Pairs -> ConnRec]
    BY ConnOf DEF Safe
  <1>2. c \in ConnRec /\ c.alive /\ c.reqs = g.conn[p].reqs BY <1>1 DEF ConnRec
  <1>3. [g EXCEPT !.conn[p].read = v] = f BY <1>1 DEF AgentRec
  <1> HIDE DEF c
  <1>4. Safe(h) /\ Shift(g, h) BY <1>2, ChangedEffect
  <1> HIDE DEF f
  <1>5. set_read_state(g, p, v) \in {g, h} BY <1>3 DEF set_read_state
  <1> HIDE DEF h
  <1> QED BY <1>4, <1>5, ChainSelf, SafeChain

LEMMA SetWriteEffect ==
    ASSUME NEW g, Safe(g), NEW p \in Live(g), NEW v \in Write
    PROVE  /\ set_write_state(g, p, v) \in Chain(g)
           /\ g.conn[p].write # v => set_write_state(g, p, v).dirty
  <1> DEFINE c == [g.conn[p] EXCEPT !.write = v]
             f == [g EXCEPT !.conn[p] = c]
             h == CheckTimeout(OnConnectionStateChange(f, p), p)
  <1>1. /\ p \in Pairs /\ g.conn[p] \in ConnRec /\ g.conn[p].alive /\ g \in AgentRec
        /\ g.conn \in [Pairs -> ConnRec]
    BY ConnOf DEF Safe
  <1>2. c \in ConnRec /\ c.alive /\ c.reqs = g.conn[p].reqs BY <1>1 DEF ConnRec
  <1>3. [g EXCEPT !.conn[p].write = v] = f BY <1>1 DEF AgentRec
  <1> HIDE DEF c
  <1>4. Safe(h) /\ Shift(g, h) /\ h.dirty BY <1>2, ChangedEffect
  <1> HIDE DEF f
  <1>5. set_write_state(g, p, v) = IF g.conn[p].write = v THEN g ELSE h
    BY <1>3 DEF set_write_state
  <1> HIDE DEF h
  <1> QED BY <1>4, <1>5, ChainSelf, SafeChain

LEMMA ReceivedPingEffect ==
    ASSUME NEW g, Safe(g), NEW p \in Live(g) PROVE ReceivedPing(g, p) \in Chain(g)
  <1> DEFINE c == [g.conn[p] EXCEPT !.quiet = FALSE]
             f == [g EXCEPT !.conn[p] = c]
  <1>1. /\ p \in Pairs /\ g.conn[p] \in ConnRec /\ g.conn[p].alive /\ g \in AgentRec
        /\ g.conn \in [Pairs -> ConnRec]
    BY ConnOf DEF Safe
  <1>2. c \in ConnRec /\ c.alive /\ c.reqs = g.conn[p].reqs /\ c.write = g.conn[p].write
    BY <1>1 DEF ConnRec
  <1>3. [g EXCEPT !.conn[p].quiet = FALSE] = f BY <1>1 DEF AgentRec
  <1> HIDE DEF c
  <1>4. Safe(f) /\ Shift(g, f) BY <1>2, StillEffect
  <1> HIDE DEF f
  <1>5. f \in Chain(g) /\ p \in Live(f) BY <1>4, SafeChain, ShiftLive
  <1>6. set_read_state(f, p, "READABLE") \in Chain(f)
    BY <1>4, <1>5, SetReadEffect DEF Read
  <1>7. ReceivedPing(g, p) = set_read_state(f, p, "READABLE") BY <1>3 DEF ReceivedPing
  <1> QED BY <1>5, <1>6, <1>7, ChainTransitive

LEMMA PruneEffect ==
    ASSUME NEW g, Safe(g), NEW p \in Live(g) PROVE Prune(g, p) \in Chain(g)
  <1> DEFINE c == [g.conn[p] EXCEPT !.pruned = TRUE, !.reqs = {}]
             f == [g EXCEPT !.conn[p] = c]
  <1>1. /\ p \in Pairs /\ g.conn[p] \in ConnRec /\ g.conn[p].alive /\ g \in AgentRec
        /\ g.conn \in [Pairs -> ConnRec]
    BY ConnOf DEF Safe
  <1>2. c \in ConnRec /\ c.alive /\ c.reqs = {} /\ c.write = g.conn[p].write
    BY <1>1 DEF ConnRec
  <1>3. [g EXCEPT !.conn[p].pruned = TRUE, !.conn[p].reqs = {}] = f
    BY <1>1 DEF AgentRec, ConnRec
  <1> HIDE DEF c
  <1>4. Safe(f) /\ Shift(g, f) BY <1>2, StillEffect
  <1> HIDE DEF f
  <1>5. f \in Chain(g) /\ p \in Live(f) BY <1>4, SafeChain, ShiftLive
  <1>6. set_write_state(f, p, "TIMEOUT") \in Chain(f)
    BY <1>4, <1>5, SetWriteEffect DEF Write
  <1>7. set_write_state(f, p, "TIMEOUT") \in Chain(g) BY <1>5, <1>6, ChainTransitive
  <1>8. Prune(g, p) \in {g, set_write_state(f, p, "TIMEOUT")} BY <1>3 DEF Prune
  <1> QED BY <1>7, <1>8, ChainSelf

LEMMA UpdateStateEffect ==
    ASSUME NEW g, Safe(g), NEW p \in Live(g) PROVE UpdateState(g, p) \in Chain(g)
  <1> DEFINE r == UpdateRead(g, p)
             s == UpdateReliable(r, p)
             w == UpdateWrite(s, p)
  <1>1. r \in Chain(g)
    <2>1. r \in {g, set_read_state(g, p, "TIMEOUT")} BY DEF UpdateRead
    <2>2. set_read_state(g, p, "TIMEOUT") \in Chain(g) BY SetReadEffect DEF Read
    <2> HIDE DEF r
    <2> QED BY <2>1, <2>2, ChainSelf
  <1> HIDE DEF r
  <1>2. Safe(r) /\ p \in Live(r) BY <1>1, ChainLive
  <1>3. s \in Chain(r)
    <2>1. s \in {r, set_write_state(r, p, "UNRELIABLE")} BY DEF UpdateReliable
    <2>2. set_write_state(r, p, "UNRELIABLE") \in Chain(r)
      BY <1>2, SetWriteEffect DEF Write
    <2> HIDE DEF s
    <2> QED BY <1>2, <2>1, <2>2, ChainSelf
  <1> HIDE DEF s
  <1>4. Safe(s) /\ p \in Live(s) BY <1>2, <1>3, ChainLive
  <1>5. w \in Chain(s)
    <2>1. w \in {s, set_write_state(s, p, "TIMEOUT")} BY DEF UpdateWrite
    <2>2. set_write_state(s, p, "TIMEOUT") \in Chain(s)
      BY <1>4, SetWriteEffect DEF Write
    <2> HIDE DEF w
    <2> QED BY <1>4, <2>1, <2>2, ChainSelf
  <1>6. UpdateState(g, p) = w BY DEF UpdateState, r, s
  <1> HIDE DEF w
  <1>7. s \in Chain(g) BY <1>1, <1>3, ChainTransitive
  <1> QED BY <1>5, <1>6, <1>7, ChainTransitive

LEMMA UpdatesEffect ==
    ASSUME NEW g, Safe(g) PROVE UpdateConnectionStates(g) \in Chain(g)
  <1>1. g \in Chain(g) BY ChainSelf
  <1>2. ASSUME NEW h \in Chain(g), NEW p \in Live(g) PROVE UpdateState(h, p) \in Chain(g)
    <2>1. Safe(h) /\ p \in Live(h) BY ChainLive
    <2>2. UpdateState(h, p) \in Chain(h) BY <2>1, UpdateStateEffect
    <2> QED BY <2>2, ChainTransitive
  <1> QED BY <1>1, <1>2, UpdateFold

LEMMA PrunesEffect ==
    ASSUME NEW g, Safe(g) PROVE PruneConnections(g) \in Chain(g)
  <1>1. g \in Chain(g) BY ChainSelf
  <1>2. ASSUME NEW h \in Chain(g), NEW p \in Superfluous(g) PROVE Prune(h, p) \in Chain(g)
    <2>1. p \in Live(g) BY DEF Superfluous
    <2>2. Safe(h) /\ p \in Live(h) BY <2>1, ChainLive
    <2>3. Prune(h, p) \in Chain(h) BY <2>2, PruneEffect
    <2> QED BY <2>3, ChainTransitive
  <1> QED BY <1>1, <1>2, PruneFold

-----------------------------------------------------------------------------
(* Sorting                                                                 *)

LEMMA RankType == \A w \in Write : Rank(w) \in Nat
  BY DEF Rank, Write

LEMMA BeforeOrder ==
    ASSUME NEW g, Whole(g)
    PROVE  /\ \A p \in Pairs : ~Before(g, p, p)
           /\ \A p, q \in Pairs : p = q \/ Before(g, p, q) \/ Before(g, q, p)
           /\ \A p, q \in Pairs : ~(Before(g, p, q) /\ Before(g, q, p))
           /\ \A p, q, r \in Pairs : Before(g, p, q) /\ Before(g, q, r) => Before(g, p, r)
  <1> DEFINE k(p) == Rank(g.conn[p].write)
  <1>1. \A p \in Pairs : k(p) \in Nat /\ p \in Nat
    <2>1. g.conn \in [Pairs -> ConnRec] BY DEF Whole, AgentRec
    <2>2. \A p \in Pairs : g.conn[p].write \in Write BY <2>1 DEF ConnRec
    <2> QED BY <2>2, RankType, PairsNat
  <1>2. \A p, q : Before(g, p, q) <=> k(p) < k(q) \/ (k(p) = k(q) /\ p > q) BY DEF Before
  <1> HIDE DEF k
  <1>3. \A p \in Pairs : ~Before(g, p, p) BY <1>1, <1>2
  <1>4. \A p, q \in Pairs : p = q \/ Before(g, p, q) \/ Before(g, q, p)
    <2> TAKE p, q \in Pairs
    <2>1. k(p) \in Nat /\ k(q) \in Nat /\ p \in Nat /\ q \in Nat BY <1>1
    <2>2. k(p) < k(q) \/ k(q) < k(p) \/ (k(p) = k(q) /\ (p = q \/ p > q \/ q > p))
      BY <2>1
    <2> QED BY <1>2, <2>2
  <1>5. \A p, q \in Pairs : ~(Before(g, p, q) /\ Before(g, q, p))
    <2> TAKE p, q \in Pairs
    <2>1. k(p) \in Nat /\ k(q) \in Nat /\ p \in Nat /\ q \in Nat BY <1>1
    <2> QED BY <1>2, <2>1
  <1>6. \A p, q, r \in Pairs : Before(g, p, q) /\ Before(g, q, r) => Before(g, p, r)
    <2> TAKE p, q, r \in Pairs
    <2>1. k(p) \in Nat /\ k(q) \in Nat /\ k(r) \in Nat BY <1>1
    <2>2. p \in Nat /\ q \in Nat /\ r \in Nat BY <1>1
    <2> QED BY <1>2, <2>1, <2>2
  <1> QED BY <1>3, <1>4, <1>5, <1>6

\* t comes before all others of S.
First(g, S, t) == t \in S /\ \A q \in S \ {t} : Before(g, t, q)

LEMMA TopFirst ==
    ASSUME NEW g, Whole(g), NEW S \in SUBSET Pairs
    PROVE  /\ S = {} => Top(g, S) = None
           /\ S # {} => First(g, S, Top(g, S))
           /\ \A t : First(g, S, t) => Top(g, S) = t
  <1>1. S = {} => Top(g, S) = None BY DEF Top
  <1>2. ASSUME S # {} PROVE First(g, S, Top(g, S))
    <2> DEFINE R == {r \in S \X S : Before(g, r[1], r[2])}
    <2>1. \A x, y \in S : <<x, y>> \in R <=> Before(g, x, y) OBVIOUS
    <2> HIDE DEF R
    <2>2. IsFiniteSet(S) BY PairsAssumption, FS_Subset
    <2>3. \A x \in S : <<x, x>> \notin R BY <2>1, BeforeOrder
    <2>4. \A x, y, z \in S : <<x, y>> \in R /\ <<y, z>> \in R => <<x, z>> \in R
      BY <2>1, BeforeOrder
    <2>5. \A x, y \in S : x = y \/ <<x, y>> \in R \/ <<y, x>> \in R
      BY <2>1, BeforeOrder
    <2>6. \A k \in 1 .. Cardinality(S) :
             \E x \in S : Cardinality({y \in S : <<y, x>> \in R}) = k - 1
      BY <2>2, <2>3, <2>4, <2>5, Ranks
    <2>7. Cardinality(S) \in Nat /\ Cardinality(S) # 0
      BY <1>2, <2>2, FS_CardinalityType, FS_EmptySet
    <2>8. 1 \in 1 .. Cardinality(S) BY <2>7
    <2>9. PICK x \in S : Cardinality({y \in S : <<y, x>> \in R}) = 0 BY <2>6, <2>8
    <2>10. {y \in S : <<y, x>> \in R} \in SUBSET S OBVIOUS
    <2>11. {y \in S : <<y, x>> \in R} = {}
      BY <2>2, <2>9, <2>10, FS_Subset, FS_EmptySet
    <2>12. \A q \in S \ {x} : Before(g, x, q) BY <2>1, <2>5, <2>11
    <2>13. Top(g, S) = CHOOSE p \in S : \A q \in S \ {p} : Before(g, p, q)
      BY <1>2 DEF Top
    <2> QED BY <2>12, <2>13 DEF First
  <1>3. ASSUME NEW t, First(g, S, t) PROVE Top(g, S) = t
    <2>1. S # {} BY <1>3 DEF First
    <2>2. First(g, S, Top(g, S)) BY <1>2, <2>1
    <2> QED BY <1>3, <2>2, BeforeOrder DEF First
  <1> QED BY <1>1, <1>2, <1>3

LEMMA TopSame ==
    ASSUME NEW g, NEW h, Whole(g), Whole(h), Live(h) = Live(g),
           \A p \in Pairs : h.conn[p].write = g.conn[p].write
    PROVE  Top(h, Live(h)) = Top(g, Live(g))
  <1> DEFINE S == Live(g)
  <1>1. S \in SUBSET Pairs BY DEF Live
  <1>2. \A p, q \in Pairs : Before(g, p, q) => Before(h, p, q) BY DEF Before
  <1> HIDE DEF S
  <1>3. CASE S = {}
    <2>1. Top(g, S) = None /\ Top(h, S) = None BY <1>1, <1>3, TopFirst
    <2> QED BY <2>1 DEF S
  <1>4. CASE S # {}
    <2>1. First(g, S, Top(g, S)) BY <1>1, <1>4, TopFirst
    <2>2. First(h, S, Top(g, S)) BY <1>1, <1>2, <2>1 DEF First
    <2>3. Top(h, S) = Top(g, S) BY <1>1, <2>2, TopFirst
    <2> QED BY <2>3 DEF S
  <1> QED BY <1>3, <1>4

LEMMA ChosenShift ==
    ASSUME NEW g, NEW h, Whole(g), Whole(h), Shift(g, h), Chosen(g) PROVE Chosen(h)
  <1> SUFFICES ASSUME ~h.dirty
               PROVE  /\ h.writable = IsWritable(h, h.best)
                      /\ ~Follows(h) /\ IsWritable(h, Top(h, Live(h))) =>
                            h.best = Top(h, Live(h))
    BY DEF Chosen
  <1>1. ~g.dirty /\ h.best = g.best /\ h.writable = g.writable BY DEF Shift
  <1>2. \A p \in Pairs : h.conn[p].write = g.conn[p].write BY DEF Shift
  <1>3. Live(h) = Live(g) BY ShiftLive
  <1>4. Top(h, Live(h)) = Top(g, Live(g)) BY <1>2, <1>3, TopSame
  <1>5. \A p \in Place : IsWritable(h, p) = IsWritable(g, p)
    BY <1>2 DEF IsWritable, Place
  <1>6. h.best \in Place BY DEF Whole, AgentRec
  <1>7. Top(g, Live(g)) \in Place
    <2>1. Live(g) \in SUBSET Pairs BY DEF Live
    <2> QED BY <2>1, TopFirst DEF First, Place
  <1>8. Follows(h) = Follows(g) BY DEF Shift, Follows
  <1> QED BY <1>1, <1>4, <1>5, <1>6, <1>7, <1>8 DEF Chosen

\* What a sort leaves alone.
Steady(g, h) ==
    /\ h.proto = g.proto /\ h.role = g.role /\ h.switched = g.switched
    /\ h.conflict = g.conflict /\ h.port = g.port /\ h.remote = g.remote
    /\ \A p \in Pairs : /\ h.conn[p].alive = g.conn[p].alive
                        /\ h.conn[p].reqs \subseteq g.conn[p].reqs

LEMMA ShiftSteady == ASSUME NEW g, NEW h, Shift(g, h) PROVE Steady(g, h)
  BY DEF Shift, Steady

LEMMA SteadyTransitive ==
    ASSUME NEW f, NEW g, NEW h, Steady(f, g), Steady(g, h) PROVE Steady(f, h)
  BY DEF Steady

LEMMA BestPlace == ASSUME NEW g, Whole(g) PROVE Top(g, Live(g)) \in Live(g) \cup {None}
  <1>1. Live(g) \in SUBSET Pairs BY DEF Live
  <1> QED BY <1>1, TopFirst DEF First

\* A channel that does not sort yet.
LEMMA HybridChosen ==
    ASSUME NEW g, Safe(g), g.proto = "HYBRID" PROVE Chosen(g)
  <1> SUFFICES ASSUME ~g.dirty
               PROVE  /\ g.writable = IsWritable(g, g.best)
                      /\ ~IsWritable(g, Top(g, Live(g)))
    BY DEF Chosen
  <1>1. ~g.writable /\ \A p \in Pairs : g.conn[p].write # "WRITABLE" BY DEF Safe
  <1>2. Live(g) \subseteq Pairs BY DEF Live
  <1>3. g.best \in Place BY DEF Safe, Whole, AgentRec
  <1>4. Top(g, Live(g)) \in Place BY <1>2, BestPlace DEF Safe, Place
  <1>5. g.writable \in BOOLEAN BY DEF Safe, Whole, AgentRec
  <1> QED BY <1>1, <1>3, <1>4, <1>5 DEF IsWritable, Place

\* h is g with other flags of the channel, which no connection depends on.
Flagged(g, h, d, w) ==
    /\ Whole(h) /\ Steady(g, h) /\ Live(h) = Live(g) /\ h.conn = g.conn
    /\ h.best = g.best /\ h.dirty = d /\ h.writable = w

LEMMA FlagsWhole ==
    ASSUME NEW g, Whole(g), NEW d \in BOOLEAN, NEW w \in BOOLEAN, NEW r \in BOOLEAN
    PROVE  Flagged(g, [g EXCEPT !.dirty = d, !.writable = w, !.readable = r], d, w)
  <1> DEFINE h == [g EXCEPT !.dirty = d, !.writable = w, !.readable = r]
  <1>1. g \in AgentRec BY DEF Whole
  <1>2. h \in AgentRec BY <1>1 DEF AgentRec
  <1>3. h.conn = g.conn /\ h.best = g.best /\ h.pending = g.pending
        /\ h.proto = g.proto /\ h.role = g.role /\ h.switched = g.switched
        /\ h.conflict = g.conflict /\ h.port = g.port /\ h.remote = g.remote
        /\ h.queue = g.queue /\ h.dirty = d /\ h.writable = w
    BY <1>1 DEF AgentRec
  <1> HIDE DEF h
  <1>4. Live(h) = Live(g) BY <1>3 DEF Live
  <1>5. Posted(h) = Posted(g) BY <1>4 DEF Posted
  <1>6. Whole(h) BY <1>2, <1>3, <1>4, <1>5 DEF Whole
  <1>7. Steady(g, h) BY <1>3 DEF Steady
  <1>8. Flagged(g, h, d, w) BY <1>3, <1>4, <1>6, <1>7 DEF Flagged
  <1> QED BY <1>8 DEF h

\* A channel that chooses for itself has its best connection at the top.
LEMMA SwitchEffect ==
    ASSUME NEW g, Whole(g)
    PROVE  /\ Whole(SwitchBest(g)) /\ Steady(g, SwitchBest(g))
           /\ Live(SwitchBest(g)) = Live(g) /\ SwitchBest(g).conn = g.conn
           /\ ~Follows(g) => SwitchBest(g).best = Top(g, Live(g))
  <1> DEFINE t == Top(g, Live(g))
  <1>1. t \in Live(g) \cup {None} BY BestPlace
  <1>2. CASE ~Follows(g) /\ ShouldSwitch(g, t)
    <2> DEFINE h == [g EXCEPT !.best = t]
    <2> HIDE DEF t
    <2>1. g \in AgentRec /\ g.pending \in Live(g) \cup {None} BY DEF Whole
    <2>2. [g EXCEPT !.pending = g.pending, !.best = t] = h BY <2>1 DEF AgentRec
    <2>3. Rechosen(g, [g EXCEPT !.pending = g.pending, !.best = t], t)
      BY <1>1, <2>1, BestWhole
    <2>4. SwitchBest(g) = h BY <1>2 DEF SwitchBest, t
    <2> HIDE DEF h
    <2>5. Rechosen(g, h, t) BY <2>2, <2>3
    <2>6. Whole(h) /\ Live(h) = Live(g) /\ h.conn = g.conn /\ h.best = t
      BY <2>5 DEF Rechosen
    <2>7. Steady(g, h) BY <2>5 DEF Rechosen, Steady
    <2> QED BY <2>4, <2>6, <2>7 DEF t
  <1>3. CASE ~(~Follows(g) /\ ShouldSwitch(g, t))
    <2>1. SwitchBest(g) = g BY <1>3 DEF SwitchBest
    <2>2. ASSUME ~Follows(g) PROVE g.best = t
      <3>1. ~ShouldSwitch(g, t) BY <1>3, <2>2
      <3>2. g.best = t \/ (g.best # None /\ t # None /\ ~Before(g, t, g.best))
        BY <3>1 DEF ShouldSwitch
      <3>3. Live(g) \in SUBSET Pairs /\ g.best \in Live(g) \cup {None} BY DEF Live, Whole
      <3>4. g.best # None => First(g, Live(g), t) BY <3>3, TopFirst
      <3> QED BY <3>2, <3>3, <3>4 DEF First
    <2>3. Steady(g, g) BY DEF Steady
    <2> QED BY <2>1, <2>2, <2>3
  <1> QED BY <1>2, <1>3

LEMMA UpdateChannelEffect ==
    ASSUME NEW g, Whole(g)
    PROVE  Flagged(g, UpdateChannelState(g), g.dirty, g.writable)
  <1> DEFINE r == \E p \in Live(g) : g.conn[p].read = "READABLE"
             h == [g EXCEPT !.dirty = g.dirty, !.writable = g.writable, !.readable = r]
  <1>1. r \in BOOLEAN /\ g.dirty \in BOOLEAN /\ g.writable \in BOOLEAN /\ g \in AgentRec
    BY DEF Whole, AgentRec
  <1>2. UpdateChannelState(g) = h BY <1>1, Zenon DEF UpdateChannelState, AgentRec
  <1> HIDE DEF r
  <1>3. Flagged(g, h, g.dirty, g.writable) BY <1>1, FlagsWhole
  <1> QED BY <1>2, <1>3

LEMMA HandleWritableEffect ==
    ASSUME NEW g, Whole(g)
    PROVE  Flagged(g, HandleWritable(g), g.dirty, IsWritable(g, g.best))
  <1> DEFINE w == IsWritable(g, g.best)
             h == [g EXCEPT !.dirty = g.dirty, !.writable = w, !.readable = g.readable]
  <1>1. w \in BOOLEAN /\ g.dirty \in BOOLEAN /\ g.readable \in BOOLEAN /\ g \in AgentRec
    BY DEF Whole, AgentRec, IsWritable
  <1> HIDE DEF w
  <1>2. HandleWritable(g) = h BY <1>1 DEF HandleWritable, AgentRec, w
  <1>3. Flagged(g, h, g.dirty, w) BY <1>1, FlagsWhole
  <1> QED BY <1>2, <1>3 DEF w

LEMMA UndirtyEffect ==
    ASSUME NEW g, Whole(g)
    PROVE  Flagged(g, [g EXCEPT !.dirty = FALSE], FALSE, g.writable)
  <1> DEFINE h == [g EXCEPT !.dirty = FALSE, !.writable = g.writable, !.readable = g.readable]
  <1>1. g.writable \in BOOLEAN /\ g.readable \in BOOLEAN /\ g \in AgentRec
    BY DEF Whole, AgentRec
  <1>2. [g EXCEPT !.dirty = FALSE] = h BY <1>1 DEF AgentRec
  <1>3. Flagged(g, h, FALSE, g.writable) BY <1>1, FlagsWhole
  <1> QED BY <1>2, <1>3

LEMMA SortedEffect ==
    ASSUME NEW g, Whole(g), g.proto # "HYBRID"
    PROVE  Safe(Sorted(g)) /\ Chosen(Sorted(g)) /\ Steady(g, Sorted(g))
  <1> DEFINE f == [g EXCEPT !.dirty = FALSE]
             s == SwitchBest(f)
             p == PruneConnections(s)
             w == HandleWritable(p)
             u == UpdateChannelState(w)
  <1>1. Flagged(g, f, FALSE, g.writable) BY UndirtyEffect
  <1>2. Sorted(g) = u BY DEF Sorted
  <1> HIDE DEF f
  <1>3. Whole(f) /\ Steady(g, f) BY <1>1 DEF Flagged
  <1>4. /\ Whole(s) /\ Steady(f, s) /\ Live(s) = Live(f) /\ s.conn = f.conn
        /\ ~Follows(f) => s.best = Top(f, Live(f))
    BY <1>3, SwitchEffect
  <1> HIDE DEF s
  <1>5. Safe(s) BY <1>3, <1>4 DEF Safe, Steady
  <1>6. Safe(p) /\ Shift(s, p) /\ Live(p) = Live(s) BY <1>5, PrunesEffect, ChainLive
  <1>7. Whole(p) BY <1>6 DEF Safe
  <1> HIDE DEF p
  <1>8. Flagged(p, w, p.dirty, IsWritable(p, p.best)) BY <1>7, HandleWritableEffect
  <1> HIDE DEF w
  <1>9. Whole(w) BY <1>8 DEF Flagged
  <1>10. Flagged(w, u, w.dirty, w.writable) BY <1>9, UpdateChannelEffect
  <1> HIDE DEF u
  <1>11. /\ Whole(u) /\ u.conn = p.conn /\ u.best = p.best /\ u.dirty = p.dirty
         /\ Live(u) = Live(p) /\ u.writable = IsWritable(p, p.best) /\ Steady(p, u)
    BY <1>8, <1>10, SteadyTransitive DEF Flagged
  <1>12. Steady(g, u)
    <2>1. Steady(g, s) BY <1>3, <1>4, SteadyTransitive
    <2>2. Steady(s, p) BY <1>6, ShiftSteady
    <2>3. Steady(g, p) BY <2>1, <2>2, SteadyTransitive
    <2> QED BY <1>11, <2>3, SteadyTransitive
  <1>13. Safe(u) BY <1>11, <1>12 DEF Safe, Steady
  <1>14. Chosen(u)
    <2> SUFFICES ASSUME ~u.dirty
                 PROVE  /\ u.writable = IsWritable(u, u.best)
                        /\ ~Follows(u) => u.best = Top(u, Live(u))
      BY DEF Chosen
    <2>1. u.writable = IsWritable(u, u.best) BY <1>11 DEF IsWritable
    <2>2. p.best = s.best /\ \A q \in Pairs : p.conn[q].write = s.conn[q].write
      BY <1>6, <1>11 DEF Shift
    <2>3. Top(u, Live(u)) = Top(f, Live(f)) BY <1>3, <1>4, <1>6, <1>11, <2>2, TopSame
    <2>4. Follows(u) = Follows(f) BY <1>3, <1>12 DEF Follows, Steady
    <2> QED BY <1>4, <1>11, <2>1, <2>2, <2>3, <2>4
  <1> QED BY <1>2, <1>12, <1>13, <1>14

LEMMA SortEffect ==
    ASSUME NEW g, Safe(g)
    PROVE  /\ Safe(SortConnections(g)) /\ Chosen(SortConnections(g))
           /\ Steady(g, SortConnections(g))
  <1> DEFINE u == UpdateConnectionStates(g)
             h == SortUpdated(u)
  <1>1. Safe(u) /\ Shift(g, u) BY UpdatesEffect, ChainLive
  <1>2. Steady(g, u) /\ Whole(u) BY <1>1, ShiftSteady DEF Safe
  <1>3. SortConnections(g) = h BY DEF SortConnections
  <1> HIDE DEF u
  <1>4. CASE u.proto = "HYBRID"
    <2>1. h = UpdateChannelState(u) BY <1>4 DEF SortUpdated
    <2> HIDE DEF h
    <2>2. Flagged(u, h, u.dirty, u.writable) BY <1>2, <2>1, UpdateChannelEffect
    <2>3. Safe(h) /\ h.proto = "HYBRID" BY <1>1, <1>4, <2>2 DEF Flagged, Safe, Steady
    <2>4. Chosen(h) BY <2>3, HybridChosen
    <2>5. Steady(g, h) BY <1>2, <2>2, SteadyTransitive DEF Flagged
    <2> QED BY <1>3, <2>3, <2>4, <2>5
  <1>5. CASE u.proto # "HYBRID"
    <2>1. h = Sorted(u) BY <1>5 DEF SortUpdated
    <2> HIDE DEF h
    <2>2. Safe(h) /\ Chosen(h) /\ Steady(u, h) BY <1>2, <1>5, <2>1, SortedEffect
    <2> QED BY <1>2, <1>3, <2>2, SteadyTransitive
  <1> QED BY <1>4, <1>5

-----------------------------------------------------------------------------
(* Handlers                                                                *)

\* What a handler that is not about roles or protocols makes of its agent.
Handled(g) ==
    {h \in AgentRec :
        /\ Safe(h)
        /\ h.proto = g.proto /\ h.role = g.role /\ h.switched = g.switched
        /\ h.conflict = g.conflict
        /\ Chosen(g) => Chosen(h)}

LEMMA HandledSelf == ASSUME NEW g, Safe(g) PROVE g \in Handled(g)
  BY DEF Handled, Safe, Whole

LEMMA HandledTransitive ==
    ASSUME NEW f, NEW g \in Handled(f), NEW h \in Handled(g) PROVE h \in Handled(f)
  BY DEF Handled

LEMMA SafeHandled ==
    ASSUME NEW g, NEW h, Safe(h), h.proto = g.proto, h.role = g.role,
           h.switched = g.switched, h.conflict = g.conflict, Chosen(g) => Chosen(h)
    PROVE  h \in Handled(g)
  BY DEF Handled, Safe, Whole

LEMMA ChainHandled ==
    ASSUME NEW g, Safe(g), NEW h \in Chain(g) PROVE h \in Handled(g)
  <1>1. Safe(h) /\ Shift(g, h) BY ChainLive
  <1>2. Chosen(g) => Chosen(h) BY <1>1, ChosenShift DEF Safe
  <1> QED BY <1>1, <1>2, SafeHandled DEF Shift

LEMMA SortHandled ==
    ASSUME NEW g, Safe(g) PROVE SortConnections(g) \in Handled(g)
  <1>1. /\ Safe(SortConnections(g)) /\ Chosen(SortConnections(g))
        /\ Steady(g, SortConnections(g))
    BY SortEffect
  <1> QED BY <1>1, SafeHandled DEF Steady

\* A connection is created, and perhaps its candidate remembered.
Connects(g, p, c) ==
    \/ c = g.conn[p]
    \/ c = NewConn /\ ~g.conn[p].alive /\ g.port[p] # "gone"
Connected(g, h, p, c) ==
    /\ Safe(h) /\ h.conn[p] = c
    /\ h.proto = g.proto /\ h.role = g.role /\ h.switched = g.switched
    /\ h.conflict = g.conflict

LEMMA NewWhole ==
    ASSUME NEW g, Safe(g), NEW p \in Pairs, NEW c, NEW R \in SUBSET Pairs,
           Connects(g, p, c)
    PROVE  Connected(g, [g EXCEPT !.conn[p] = c, !.remote = R], p, c)
  <1> DEFINE n == [g.conn EXCEPT ![p] = c]
             h == [g EXCEPT !.conn[p] = c, !.remote = R]
  <1> USE DEF Connects
  <1>1. g \in AgentRec /\ g.conn \in [Pairs -> ConnRec] BY DEF Safe, Whole, AgentRec
  <1>2. c \in ConnRec BY <1>1, NoConnType
  <1>3. n \in [Pairs -> ConnRec] /\ n[p] = c /\ \A q \in Pairs \ {p} : n[q] = g.conn[q]
    BY <1>1, <1>2
  <1>4. h.conn = n /\ h.best = g.best /\ h.pending = g.pending
        /\ h.proto = g.proto /\ h.role = g.role /\ h.switched = g.switched
        /\ h.conflict = g.conflict /\ h.port = g.port
        /\ h.queue = g.queue /\ h.dirty = g.dirty /\ h.writable = g.writable
    BY <1>1 DEF AgentRec
  <1>5. h \in AgentRec
    <2> HIDE DEF n
    <2>1. h = [g EXCEPT !.conn = n, !.remote = R] BY <1>1 DEF n, AgentRec
    <2> QED BY <2>1, <1>1, <1>3 DEF AgentRec
  <1> HIDE DEF n, h
  <1>6. NewConn.alive /\ NewConn.write = "INIT" BY DEF NewConn
  <1>8. Live(g) \subseteq Live(h) /\ Live(h) \subseteq Live(g) \cup {p}
    BY <1>3, <1>4, <1>6 DEF Live
  <1>9. g.queue \in Seq(Posted(h))
    <2>1. Posted(g) \subseteq Posted(h) BY <1>8 DEF Posted
    <2>2. g.queue \in Seq(Posted(g)) BY DEF Safe, Whole
    <2> HIDE DEF Posted
    <2> QED BY <2>1, <2>2
  <1>10. \A q \in Pairs : ~h.conn[q].alive => h.conn[q] = NoConn
    BY <1>3, <1>4, <1>6 DEF Safe, Whole
  <1>11. \A q \in Live(h) : h.port[q] # "gone"
    BY <1>3, <1>4, <1>8 DEF Safe, Whole, Live
  <1>14. h.best \in Live(h) \cup {None} /\ h.pending \in Live(h) \cup {None}
    BY <1>4, <1>8 DEF Safe, Whole
  <1>15. Whole(h) BY <1>4, <1>5, <1>9, <1>10, <1>11, <1>14 DEF Whole
  <1>16. Safe(h)
    <2>1. \A q \in Pairs : h.conn[q].write \in {g.conn[q].write, "INIT"}
      BY <1>3, <1>4, <1>6
    <2> QED BY <1>4, <1>15, <2>1 DEF Safe
  <1>17. Connected(g, h, p, c) BY <1>3, <1>4, <1>16 DEF Connected
  <1> QED BY <1>17 DEF h

LEMMA IntroducedEffect ==
    ASSUME NEW g, Safe(g), NEW p \in Pairs PROVE Introduced(g, p) \in Handled(g)
  <1> DEFINE c == IF p \in g.remote \/ g.conn[p].alive \/ g.port[p] = "gone"
                  THEN g.conn[p] ELSE NewConn
             R == g.remote \cup {p}
             h == [g EXCEPT !.conn[p] = c, !.remote = R]
  <1>1. g \in AgentRec /\ R \in SUBSET Pairs BY DEF Safe, Whole, AgentRec
  <1>2. CreateConnections(g, p) = h BY <1>1 DEF CreateConnections, AgentRec
  <1>3. Connects(g, p, c) BY DEF Connects
  <1> HIDE DEF c, R
  <1>4. Connected(g, h, p, c) BY <1>1, <1>3, NewWhole
  <1> HIDE DEF h
  <1> DEFINE s == SortConnections(h)
  <1>5. Safe(s) /\ Chosen(s) /\ Steady(h, s) BY <1>4, SortEffect DEF Connected
  <1> HIDE DEF s
  <1>6. s \in Handled(g) BY <1>4, <1>5, SafeHandled DEF Steady, Connected
  <1> QED BY <1>2, <1>6 DEF s, Introduced

\* The candidates still to come are nothing to the connections.
LEMMA DueEffect ==
    ASSUME NEW g, Safe(g), NEW d \in Seq(Pairs) PROVE [g EXCEPT !.due = d] \in Chain(g)
  <1> DEFINE h == [g EXCEPT !.due = d]
  <1>1. g \in AgentRec BY DEF Safe, Whole
  <1>2. h \in AgentRec BY <1>1 DEF AgentRec
  <1>3. Shift(g, h) BY <1>1 DEF Shift, AgentRec
  <1>4. h.conn = g.conn /\ h.best = g.best /\ h.pending = g.pending /\ h.port = g.port
        /\ h.queue = g.queue /\ h.proto = g.proto /\ h.dirty = g.dirty
        /\ h.writable = g.writable
    BY <1>1 DEF AgentRec
  <1> HIDE DEF h
  <1>5. Live(h) = Live(g) BY <1>4 DEF Live
  <1>6. Posted(h) = Posted(g) BY <1>5 DEF Posted
  <1>7. Safe(h) BY <1>2, <1>4, <1>5, <1>6 DEF Safe, Whole
  <1>8. h \in Chain(g) BY <1>3, <1>7, SafeChain
  <1> QED BY <1>8 DEF h

LEMMA StartEffect ==
    ASSUME NEW a, NEW role, NEW proto, Safe(Created(a, role, proto))
    PROVE  Start(a, role, proto) \in Handled(Created(a, role, proto))
  <1> DEFINE g == Created(a, role, proto)
  <1>1. g \in Handled(g) BY HandledSelf
  <1>2. ASSUME NEW h \in Handled(g), NEW p \in Pairs PROVE Introduced(h, p) \in Handled(g)
    <2>1. Safe(h) BY DEF Handled
    <2>2. Introduced(h, p) \in Handled(h) BY <2>1, IntroducedEffect
    <2> HIDE DEF g
    <2> QED BY <2>2, HandledTransitive
  <1> DEFINE K == Handled(g)
  <1>3. g \in K /\ \A h \in K : \A p \in Pairs : Introduced(h, p) \in K BY <1>1, <1>2
  <1> HIDE DEF K
  <1>4. Start(a, role, proto) \in K BY <1>3, StartFold
  <1> QED BY <1>4 DEF K

\* What is left of the queue when the messages of a connection are cleared.
LEMMA ClearedQueue ==
    ASSUME NEW g, g.queue \in Seq(Posted(g)), NEW p
    PROVE  Without(g.queue, {Delete(p)}) \in
              Seq({Sort} \cup {Delete(q) : q \in Live(g) \ {p}})
  <1> DEFINE w == Without(g.queue, {Delete(p)})
             s == g.queue
             T == {Sort} \cup {Delete(q) : q \in Live(g) \ {p}}
             D == {Delete(p)}
  <1>1. w \in Seq(Posted(g)) /\ Left(w, s, D) BY WithoutPlaces
  <1> HIDE DEF w, s
  <1>2. \A k \in 1 .. Len(w) : w[k] \in Posted(g) BY <1>1
  <1>3. \A k \in 1 .. Len(w) : w[k] \notin D
    <2>1. PICK i \in [1 .. Len(w) -> 1 .. Len(s)] :
             \A k \in 1 .. Len(w) : w[k] = s[i[k]] /\ s[i[k]] \notin D
      BY <1>1 DEF Left
    <2> QED BY <2>1
  <1>4. \A m \in Posted(g) : m \notin D => m \in T BY DEF Posted
  <1> HIDE DEF T, D
  <1>5. \A k \in 1 .. Len(w) : w[k] \in T BY <1>2, <1>3, <1>4
  <1>6. Len(w) \in Nat /\ w = [k \in 1 .. Len(w) |-> w[k]] BY <1>1
  <1>7. w \in Seq(T) BY <1>5, <1>6
  <1> QED BY <1>7 DEF w, s, T, D

\* The best of the writable connections stays it when another one is deleted.
LEMMA TopStays ==
    ASSUME NEW g, NEW h, Whole(g), Whole(h), NEW p \in Live(g),
           Live(h) = Live(g) \ {p},
           \A q \in Pairs \ {p} : h.conn[q] = g.conn[q],
           IsWritable(h, Top(h, Live(h)))
    PROVE  /\ IsWritable(g, Top(g, Live(g)))
           /\ Top(g, Live(g)) # p => Top(h, Live(h)) = Top(g, Live(g))
  <1> DEFINE t == Top(h, Live(h))
             u == Top(g, Live(g))
  <1>1. Live(g) \in SUBSET Pairs /\ Live(h) \in SUBSET Pairs /\ p \in Pairs BY DEF Live
  <1>2. t # None BY DEF IsWritable
  <1>3. First(h, Live(h), t) BY <1>1, <1>2, TopFirst
  <1>4. First(g, Live(g), u) BY <1>1, TopFirst
  <1> HIDE DEF t, u
  <1>5. t \in Live(g) /\ t # p /\ t \in Pairs /\ u \in Live(g) /\ u \in Pairs
    BY <1>1, <1>3, <1>4 DEF First
  <1>6. h.conn[t].write = "WRITABLE" BY DEF IsWritable, t
  <1>7. g.conn[t].write = "WRITABLE" BY <1>5, <1>6
  <1>8. g.conn[u].write = "WRITABLE"
    <2>1. CASE u = t BY <1>7, <2>1
    <2>2. CASE u # t
      <3>1. Before(g, u, t) BY <1>4, <1>5, <2>2 DEF First
      <3>2. g.conn[u].write \in Write BY <1>5 DEF Whole, AgentRec, ConnRec
      <3>3. Rank("WRITABLE") = 0 BY DEF Rank
      <3>4. Rank(g.conn[u].write) <= 0
        <4>1. Rank(g.conn[u].write) \in Nat BY <3>2, RankType
        <4> QED BY <1>7, <3>1, <3>3, <4>1 DEF Before
      <3> QED BY <3>2, <3>4 DEF Rank, Write
    <2> QED BY <2>1, <2>2
  <1>9. IsWritable(g, u) BY <1>5, <1>8, PairsNat DEF IsWritable
  <1>10. ASSUME u # p PROVE t = u
    <2>1. SUFFICES ASSUME t # u PROVE FALSE OBVIOUS
    <2>2. Before(g, u, t) BY <1>4, <1>5, <2>1 DEF First
    <2>3. Before(h, t, u) BY <1>3, <1>5, <1>10, <2>1 DEF First
    <2>4. Before(g, t, u) BY <1>5, <1>10, <2>3 DEF Before
    <2> QED BY <1>5, <2>2, <2>4, BeforeOrder
  <1> QED BY <1>9, <1>10 DEF t, u

LEMMA DestroyedEffect ==
    ASSUME NEW g, Safe(g), NEW p \in Live(g)
    PROVE  OnConnectionDestroyed(g, p) \in Handled(g)
  <1> DEFINE q == Without(g.queue, {Delete(p)})
             k == IF g.role = "CONTROLLED" THEN g.check \cup {p} ELSE g.check
             n == IF g.pending = p THEN None ELSE g.pending
             c == [g.conn EXCEPT ![p] = NoConn]
             h == [g EXCEPT !.conn[p] = NoConn, !.queue = q, !.check = k, !.pending = n]
             b == IF g.best = p THEN None ELSE g.best
             f == [h EXCEPT !.best = b]
  <1>1. /\ p \in Pairs /\ g.conn[p].alive /\ g \in AgentRec
        /\ g.conn \in [Pairs -> ConnRec]
    BY ConnOf DEF Safe
  <1>2. q \in Seq({Sort} \cup {Delete(r) : r \in Live(g) \ {p}})
    BY ClearedQueue DEF Safe, Whole
  <1>3. q \in Seq(Message)
    <2>1. {Sort} \cup {Delete(r) : r \in Live(g) \ {p}} \subseteq Message
      BY DEF Message, Live
    <2> DEFINE T == {Sort} \cup {Delete(r) : r \in Live(g) \ {p}}
    <2> HIDE DEF T, q
    <2> QED BY <1>2, <2>1 DEF T
  <1>4. k \in SUBSET Pairs BY <1>1 DEF AgentRec
  <1>5. n \in (Live(g) \ {p}) \cup {None} /\ b \in (Live(g) \ {p}) \cup {None}
    BY DEF Safe, Whole
  <1>6. c \in [Pairs -> ConnRec] /\ c[p] = NoConn /\ \A r \in Pairs \ {p} : c[r] = g.conn[r]
    BY <1>1, NoConnType
  <1>7. OnConnectionDestroyed(g, p) = IF g.best = p THEN RequestSort(f) ELSE h
    BY <1>1 DEF OnConnectionDestroyed, AgentRec
  <1>8. h = [g EXCEPT !.conn = c, !.queue = q, !.check = k, !.pending = n]
    BY <1>1 DEF AgentRec
  <1> HIDE DEF c, q, k, n
  <1>9. n \in Place BY <1>5 DEF Place, Live
  <1>10. h \in AgentRec BY <1>1, <1>3, <1>4, <1>6, <1>8, <1>9 DEF AgentRec
  <1>11. h.conn = c /\ h.queue = q /\ h.pending = n /\ h.best = g.best
         /\ h.proto = g.proto /\ h.role = g.role /\ h.switched = g.switched
         /\ h.conflict = g.conflict /\ h.port = g.port
         /\ h.dirty = g.dirty /\ h.writable = g.writable
    BY <1>1, <1>8 DEF AgentRec
  <1>12. g.best # p => f = h BY <1>10, <1>11 DEF AgentRec
  <1> HIDE DEF h, b
  <1>13. b \in Place BY <1>5 DEF Place, Live
  <1>14. f \in AgentRec BY <1>10, <1>13 DEF AgentRec
  <1>15. f.conn = c /\ f.queue = q /\ f.pending = n /\ f.best = b
         /\ f.proto = g.proto /\ f.role = g.role /\ f.switched = g.switched
         /\ f.conflict = g.conflict /\ f.port = g.port
         /\ f.dirty = g.dirty /\ f.writable = g.writable
    BY <1>10, <1>11 DEF AgentRec
  <1> HIDE DEF f
  <1>16. ~NoConn.alive /\ NoConn.write = "INIT" BY DEF NoConn, NewConn
  <1>17. Live(f) = Live(g) \ {p} BY <1>6, <1>15, <1>16 DEF Live
  <1>18. Posted(f) = {Sort} \cup {Delete(r) : r \in Live(g) \ {p}} BY <1>17 DEF Posted
  <1>19. \A r \in Pairs : ~f.conn[r].alive => f.conn[r] = NoConn
    BY <1>6, <1>15 DEF Safe, Whole
  <1>21. \A r \in Live(f) : f.port[r] # "gone" BY <1>15, <1>17 DEF Safe, Whole
  <1>22. Whole(f)
    BY <1>2, <1>5, <1>14, <1>15, <1>17, <1>18, <1>19, <1>21 DEF Whole
  <1>23. CASE g.best = p
    <2> DEFINE r == RequestSort(f)
    <2>1. Safe(r) /\ Shift(f, r) /\ r.dirty BY <1>22, RequestSortEffect
    <2>2. OnConnectionDestroyed(g, p) = r BY <1>7, <1>23
    <2> HIDE DEF r
    <2>3. Chosen(r) BY <2>1 DEF Chosen
    <2>4. r \in Handled(g) BY <1>15, <2>1, <2>3, SafeHandled DEF Shift
    <2> QED BY <2>2, <2>4
  <1>24. CASE g.best # p
    <2>1. OnConnectionDestroyed(g, p) = f BY <1>7, <1>12, <1>24
    <2>2. f.best = g.best BY <1>15, <1>24 DEF b
    <2>3. Safe(f)
      <3>1. \A r \in Pairs : f.conn[r].write \in {g.conn[r].write, "INIT"}
        BY <1>6, <1>15, <1>16
      <3> QED BY <1>15, <1>22, <3>1 DEF Safe
    <2>4. ASSUME Chosen(g), ~f.dirty
          PROVE  /\ f.writable = IsWritable(f, f.best)
                 /\ ~Follows(f) /\ IsWritable(f, Top(f, Live(f))) => f.best = Top(f, Live(f))
      <3>1. ~g.dirty BY <1>15, <2>4
      <3>2. g.writable = IsWritable(g, g.best) BY <2>4, <3>1 DEF Chosen
      <3>3. IsWritable(f, f.best) = IsWritable(g, g.best)
        <4>1. g.best \in Place BY <1>1 DEF AgentRec
        <4> QED BY <1>6, <1>15, <1>24, <2>2, <4>1 DEF IsWritable, Place
      <3>4. ASSUME ~Follows(f), IsWritable(f, Top(f, Live(f)))
            PROVE  f.best = Top(f, Live(f))
        <4>1. \A r \in Pairs \ {p} : f.conn[r] = g.conn[r] BY <1>6, <1>15
        <4>2. /\ IsWritable(g, Top(g, Live(g)))
              /\ Top(g, Live(g)) # p => Top(f, Live(f)) = Top(g, Live(g))
          BY <1>17, <1>22, <3>4, <4>1, TopStays DEF Safe
        <4>3. ~Follows(g) BY <1>15, <3>4 DEF Follows
        <4>4. g.best = Top(g, Live(g)) BY <2>4, <3>1, <4>2, <4>3 DEF Chosen
        <4> QED BY <1>24, <2>2, <4>2, <4>4
      <3> QED BY <1>15, <3>2, <3>3, <3>4
    <2>5. Chosen(g) => Chosen(f) BY <2>4 DEF Chosen
    <2>6. f \in Handled(g) BY <1>15, <2>3, <2>5, SafeHandled
    <2> QED BY <2>1, <2>6
  <1> QED BY <1>23, <1>24

LEMMA UseCandidateEffect ==
    ASSUME NEW g, Safe(g), NEW p \in Live(g) PROVE OnUseCandidate(g, p) \in Handled(g)
  <1>1. g \in AgentRec /\ Whole(g) /\ g.best \in Live(g) \cup {None} BY DEF Safe, Whole
  <1>2. CASE ~IsWritable(g, p)
    <2> DEFINE h == [g EXCEPT !.pending = p]
               f == [g EXCEPT !.pending = p, !.best = g.best]
    <2>1. Rechosen(g, f, g.best) BY <1>1, BestWhole
    <2>2. f = h BY <1>1 DEF AgentRec
    <2>3. OnUseCandidate(g, p) = h BY <1>2 DEF OnUseCandidate
    <2> HIDE DEF f, h
    <2>4. Rechosen(g, h, g.best) BY <2>1, <2>2
    <2>5. Safe(h) BY <2>4 DEF Rechosen, Safe
    <2>6. Shift(g, h) BY <2>4 DEF Rechosen, Shift
    <2>7. h \in Handled(g) BY <2>5, <2>6, SafeChain, ChainHandled
    <2> QED BY <2>3, <2>7
  <1>3. CASE IsWritable(g, p) /\ g.best = p
    <2>1. OnUseCandidate(g, p) = g BY <1>3 DEF OnUseCandidate
    <2> QED BY <2>1, HandledSelf
  <1>4. CASE IsWritable(g, p) /\ g.best # p
    <2> DEFINE f == [g EXCEPT !.pending = None, !.best = p]
               r == RequestSort(f)
    <2>1. Rechosen(g, f, p) BY <1>1, BestWhole
    <2>2. OnUseCandidate(g, p) = r BY <1>4 DEF OnUseCandidate
    <2> HIDE DEF f
    <2>3. Safe(r) /\ Shift(f, r) /\ r.dirty BY <2>1, RequestSortEffect DEF Rechosen
    <2> HIDE DEF r
    <2>4. Chosen(r) BY <2>3 DEF Chosen
    <2>5. r \in Handled(g) BY <2>1, <2>3, <2>4, SafeHandled DEF Shift, Rechosen
    <2> QED BY <2>2, <2>5
  <1> QED BY <1>2, <1>3, <1>4

LEMMA AnsweredEffect ==
    ASSUME NEW g, Safe(g), NEW m, m.pair \in Live(g) PROVE Answered(g, m) \in Handled(g)
  <1> DEFINE p == m.pair
             r == ReceivedPing(g, p)
             w == set_write_state(r, p, "INIT")
             h == IF ~r.conn[p].pruned /\ r.conn[p].write = "TIMEOUT" THEN w ELSE r
  <1>1. r \in Chain(g) BY ReceivedPingEffect
  <1>2. Safe(r) /\ p \in Live(r) BY <1>1, ChainLive
  <1>3. Answered(g, m) = IF h.port[p] = "RFC5245" /\ h.role = "CONTROLLED" /\ m.use
                         THEN OnUseCandidate(h, p) ELSE h
    BY DEF Answered
  <1> HIDE DEF r
  <1>4. w \in Chain(r) BY <1>2, SetWriteEffect DEF Write
  <1> HIDE DEF w
  <1>5. h \in Chain(r) BY <1>2, <1>4, ChainSelf
  <1> HIDE DEF h
  <1>6. h \in Chain(g) BY <1>1, <1>5, ChainTransitive
  <1>7. Safe(h) /\ p \in Live(h) /\ h \in Handled(g) BY <1>6, ChainLive, ChainHandled
  <1>8. OnUseCandidate(h, p) \in Handled(h) BY <1>7, UseCandidateEffect
  <1>9. OnUseCandidate(h, p) \in Handled(g) BY <1>7, <1>8, HandledTransitive
  <1> QED BY <1>3, <1>7, <1>9

LEMMA DiscoveredEffect ==
    ASSUME NEW g, Safe(g), NEW p \in Pairs, ~g.conn[p].alive, g.port[p] # "gone"
    PROVE  Discovered(g, p) \in Handled(g)
  <1> DEFINE R == IF g.port[p] = "GOOGLE" THEN g.remote \cup {p} ELSE g.remote
             c == NewConn
             h == [g EXCEPT !.conn[p] = c, !.remote = R]
             r == ReceivedPing(h, p)
             s == SortConnections(r)
  <1>1. g \in AgentRec /\ R \in SUBSET Pairs BY DEF Safe, Whole, AgentRec
  <1>2. Discovered(g, p) = s BY <1>1 DEF Discovered, AgentRec
  <1> HIDE DEF R, c
  <1>3. Connects(g, p, c) BY DEF Connects, c
  <1>4. Connected(g, h, p, c) BY <1>1, <1>3, NewWhole
  <1> HIDE DEF h
  <1>5. Safe(h) /\ p \in Live(h) BY <1>4 DEF Connected, Live, c, NewConn
  <1>6. r \in Chain(h) BY <1>5, ReceivedPingEffect
  <1>7. Safe(r) /\ Shift(h, r) BY <1>6, ChainLive
  <1> HIDE DEF r
  <1>8. Safe(s) /\ Chosen(s) /\ Steady(r, s) BY <1>7, SortEffect
  <1> HIDE DEF s
  <1>9. s \in Handled(g) BY <1>4, <1>7, <1>8, SafeHandled DEF Steady, Shift, Connected
  <1> QED BY <1>2, <1>9

\* Something about the ports that does not touch the connections.
Reported(g, h) ==
    /\ Safe(h) /\ h.proto = g.proto /\ h.role = g.role /\ h.switched = g.switched
    /\ h.conn = g.conn /\ (Chosen(g) => Chosen(h))

LEMMA PortsEffect ==
    ASSUME NEW g, Safe(g), NEW P \in [Pairs -> {"HYBRID", "gone"} \cup Known],
           \A p \in Live(g) : P[p] # "gone", NEW C \in SUBSET Pairs, NEW x \in BOOLEAN
    PROVE  Reported(g, [g EXCEPT !.port = P, !.check = C, !.conflict = x])
  <1> DEFINE h == [g EXCEPT !.port = P, !.check = C, !.conflict = x]
  <1>1. g \in AgentRec BY DEF Safe, Whole
  <1>2. h \in AgentRec BY <1>1 DEF AgentRec
  <1>3. h.conn = g.conn /\ h.best = g.best /\ h.pending = g.pending
        /\ h.proto = g.proto /\ h.role = g.role /\ h.switched = g.switched
        /\ h.port = P /\ h.queue = g.queue /\ h.dirty = g.dirty
        /\ h.writable = g.writable
    BY <1>1 DEF AgentRec
  <1> HIDE DEF h
  <1>4. Live(h) = Live(g) BY <1>3 DEF Live
  <1>5. Posted(h) = Posted(g) BY <1>4 DEF Posted
  <1>6. Safe(h) BY <1>2, <1>3, <1>4, <1>5 DEF Safe, Whole
  <1>7. ASSUME Chosen(g) PROVE Chosen(h)
    <2>1. Top(h, Live(h)) = Top(g, Live(g))
      BY <1>3, <1>4, <1>6, TopSame DEF Safe
    <2>2. Follows(h) = Follows(g) BY <1>3 DEF Follows
    <2>3. \A p : IsWritable(h, p) = IsWritable(g, p) BY <1>3 DEF IsWritable
    <2> QED BY <1>3, <1>7, <2>1, <2>2, <2>3 DEF Chosen
  <1>8. Reported(g, h) BY <1>3, <1>6, <1>7 DEF Reported
  <1> QED BY <1>8 DEF h

LEMMA ChosenSame ==
    ASSUME NEW g, NEW h, Whole(g), Whole(h), Live(h) = Live(g),
           \A p \in Pairs : h.conn[p].write = g.conn[p].write,
           h.best = g.best, h.writable = g.writable, h.dirty = g.dirty,
           h.proto = g.proto, h.role = g.role, Chosen(g)
    PROVE  Chosen(h)
  <1>1. Top(h, Live(h)) = Top(g, Live(g)) BY TopSame
  <1>2. \A p \in Place : IsWritable(h, p) = IsWritable(g, p) BY DEF IsWritable, Place
  <1>3. h.best \in Place BY DEF Whole, AgentRec
  <1>4. Top(g, Live(g)) \in Place BY BestPlace DEF Place, Live
  <1>5. Follows(h) = Follows(g) BY DEF Follows
  <1> QED BY <1>1, <1>2, <1>3, <1>4, <1>5 DEF Chosen

\* A request more waits for its response.
LEMMA PingedEffect ==
    ASSUME NEW g, Safe(g), NEW p \in Live(g), NEW id \in 1 .. MaxReq
    PROVE  [g EXCEPT !.conn[p].reqs = @ \cup {id}] \in Handled(g)
  <1> DEFINE c == [g.conn[p] EXCEPT !.reqs = g.conn[p].reqs \cup {id}]
             n == [g.conn EXCEPT ![p] = c]
             h == [g EXCEPT !.conn = n]
  <1>1. /\ p \in Pairs /\ g.conn[p] \in ConnRec /\ g.conn[p].alive /\ g \in AgentRec
        /\ g.conn \in [Pairs -> ConnRec]
    BY ConnOf DEF Safe
  <1>2. /\ c \in ConnRec /\ c.alive /\ c.reqs = g.conn[p].reqs \cup {id}
        /\ c.write = g.conn[p].write
    BY <1>1 DEF ConnRec
  <1>3. [g EXCEPT !.conn[p].reqs = @ \cup {id}] = h BY <1>1 DEF AgentRec
  <1> HIDE DEF c
  <1>4. n \in [Pairs -> ConnRec] /\ n[p] = c /\ \A q \in Pairs \ {p} : n[q] = g.conn[q]
    BY <1>1, <1>2
  <1> HIDE DEF n
  <1>5. h \in AgentRec BY <1>1, <1>4 DEF AgentRec
  <1>6. h.conn = n /\ h.best = g.best /\ h.pending = g.pending
        /\ h.proto = g.proto /\ h.role = g.role /\ h.switched = g.switched
        /\ h.conflict = g.conflict /\ h.port = g.port /\ h.queue = g.queue
        /\ h.dirty = g.dirty /\ h.writable = g.writable
    BY <1>1 DEF AgentRec
  <1> HIDE DEF h
  <1>7. Live(h) = Live(g) BY <1>1, <1>2, <1>4, <1>6 DEF Live
  <1>8. Posted(h) = Posted(g) BY <1>7 DEF Posted
  <1>9. \A q \in Pairs : ~h.conn[q].alive => h.conn[q] = NoConn
    BY <1>2, <1>4, <1>6 DEF Safe, Whole
  <1>11. Whole(h) BY <1>5, <1>6, <1>7, <1>8, <1>9 DEF Safe, Whole
  <1>12. \A q \in Pairs : h.conn[q].write = g.conn[q].write BY <1>2, <1>4, <1>6
  <1>13. Safe(h) BY <1>6, <1>11, <1>12 DEF Safe
  <1>14. Chosen(g) => Chosen(h) BY <1>6, <1>7, <1>11, <1>12, ChosenSame DEF Safe
  <1>15. h \in Handled(g) BY <1>6, <1>13, <1>14, SafeHandled
  <1> QED BY <1>3, <1>15

\* The answer names the protocol.
Agreed(g, h, x) ==
    /\ Safe(h) /\ Chosen(h) /\ h.proto = x /\ h.role = g.role
    /\ h.switched = g.switched /\ h.conflict = g.conflict

LEMMA ProtocolEffect ==
    ASSUME NEW g, Safe(g), g.proto = "HYBRID", NEW x \in Known,
           NEW P \in [Pairs -> {"HYBRID", "gone"} \cup Known],
           \A p \in Live(g) : P[p] # "gone"
    PROVE  Agreed(g, [g EXCEPT !.proto = x, !.port = P], x)
  <1> DEFINE h == [g EXCEPT !.proto = x, !.port = P]
  <1>1. g \in AgentRec BY DEF Safe, Whole
  <1>2. h \in AgentRec BY <1>1 DEF AgentRec
  <1>3. h.conn = g.conn /\ h.best = g.best /\ h.pending = g.pending
        /\ h.proto = x /\ h.role = g.role /\ h.switched = g.switched
        /\ h.conflict = g.conflict /\ h.port = P /\ h.queue = g.queue
        /\ h.dirty = g.dirty /\ h.writable = g.writable
    BY <1>1 DEF AgentRec
  <1> HIDE DEF h
  <1>4. Live(h) = Live(g) BY <1>3 DEF Live
  <1>5. Posted(h) = Posted(g) BY <1>4 DEF Posted
  <1>6. Whole(h) BY <1>2, <1>3, <1>4, <1>5 DEF Safe, Whole
  <1>7. Safe(h) BY <1>3, <1>6 DEF Safe, Known
  <1>8. ASSUME ~h.dirty
        PROVE  h.writable = IsWritable(h, h.best) /\ ~IsWritable(h, Top(h, Live(h)))
    <2>1. ~h.writable /\ \A p \in Pairs : h.conn[p].write # "WRITABLE"
      BY <1>3, <1>8 DEF Safe
    <2>2. h.best \in Place /\ h.writable \in BOOLEAN BY <1>2 DEF AgentRec
    <2>3. Top(h, Live(h)) \in Place BY <1>6, BestPlace DEF Place, Live
    <2> QED BY <2>1, <2>2, <2>3 DEF IsWritable, Place
  <1>9. Chosen(h) BY <1>8 DEF Chosen
  <1>10. Agreed(g, h, x) BY <1>3, <1>7, <1>9 DEF Agreed
  <1> QED BY <1>10 DEF h

-----------------------------------------------------------------------------
(* Both agents                                                             *)

LEMMA OtherAgent ==
    \A a \in Agents : Other(a) \in Agents /\ Other(a) # a /\ Other(Other(a)) = a
  BY AgentsAssumption DEF Agents, Other

\* An agent makes a step that does not change its role.
LEMMA StepKeeps ==
    ASSUME IInv, NEW a \in Agents, NEW h, Safe(h), h.proto \in {"HYBRID", protocol},
           Proper => Chosen(h),
           h.role = agent[a].role, h.switched = agent[a].switched,
           \A r \in Roles : Course(r, agent, net) /\ h.conflict => GivesIn(r, a),
           agent' = [agent EXCEPT ![a] = h], protocol' = protocol,
           left' \in 0 .. MaxTrouble, net' \subseteq PacketRec,
           \A m \in net' \ net :
              /\ m.kind = "REQUEST" => m.to = Other(a) /\ m.role \in {"", agent[a].role}
              /\ m.kind = "ROLE_CONFLICT" =>
                    \A r \in Roles : Course(r, agent, net) => GivesIn(r, m.to)
    PROVE  IInv'
  <1>1. agent \in [Agents -> AgentRec] BY DEF IInv
  <1>2. /\ agent' \in [Agents -> AgentRec] /\ agent'[a] = h
        /\ \A b \in Agents \ {a} : agent'[b] = agent[b]
    BY <1>1 DEF Safe, Whole
  <1>3. \A b \in Agents : Sound(agent[b])' BY <1>2 DEF IInv, Sound
  <1>4. PICK r \in Roles : Course(r, agent, net) BY DEF IInv
  <1>5. \A b \in Agents : agent'[b].role = agent[b].role /\ agent'[b].switched = agent[b].switched
    BY <1>2
  <1>6. \A b \in Agents : agent'[b].switched \/ agent'[b].conflict => GivesIn(r, b)
    <2> TAKE b \in Agents
    <2>1. agent[b].switched \/ agent[b].conflict => GivesIn(r, b) BY <1>4 DEF Course
    <2>2. CASE b = a BY <1>2, <1>4, <2>1, <2>2
    <2>3. CASE b # a BY <1>2, <2>1, <2>3
    <2> QED BY <2>2, <2>3
  <1>7. ASSUME NEW m \in net'
        PROVE  /\ m.kind = "ROLE_CONFLICT" => GivesIn(r, m.to)
               /\ m.kind = "REQUEST" /\ m.role # "" =>
                     m.role \in {r[Other(m.to)], agent'[Other(m.to)].role}
    <2>1. m.to \in Agents BY <1>7 DEF PacketRec
    <2>2. CASE m \in net BY <1>4, <1>5, <2>1, <2>2, OtherAgent DEF Course
    <2>3. CASE m \notin net
      <3>1. /\ m.kind = "REQUEST" => m.to = Other(a) /\ m.role \in {"", agent[a].role}
            /\ m.kind = "ROLE_CONFLICT" =>
                  \A x \in Roles : Course(x, agent, net) => GivesIn(x, m.to)
        BY <1>7, <2>3
      <3>2. m.kind = "ROLE_CONFLICT" => GivesIn(r, m.to) BY <1>4, <3>1
      <3>3. Other(Other(a)) = a /\ agent'[a].role = agent[a].role BY <1>5, OtherAgent
      <3> QED BY <3>1, <3>2, <3>3
    <2> QED BY <2>2, <2>3
  <1>8. \A b \in Agents : agent'[b].role = IF agent'[b].switched THEN Opposite(r[b]) ELSE r[b]
    BY <1>4, <1>5 DEF Course
  <1>9. Course(r, agent', net') BY <1>6, <1>7, <1>8 DEF Course
  <1> QED BY <1>2, <1>3, <1>4, <1>9 DEF IInv

\* The same for what Handled describes; packets may be lost or taken.
LEMMA HandledKeeps ==
    ASSUME IInv, NEW a \in Agents, NEW h \in Handled(agent[a]),
           agent' = [agent EXCEPT ![a] = h], protocol' = protocol,
           left' \in 0 .. MaxTrouble, net' \subseteq net
    PROVE  IInv'
  <1>1. Sound(agent[a]) /\ net \subseteq PacketRec BY DEF IInv
  <1>2. Safe(h) /\ (Proper => Chosen(h)) BY <1>1 DEF Handled, Sound
  <1>3. h.proto \in {"HYBRID", protocol} BY <1>1 DEF Handled, Sound
  <1>4. h.role = agent[a].role /\ h.switched = agent[a].switched
        /\ h.conflict = agent[a].conflict
    BY DEF Handled
  <1>5. \A r \in Roles : Course(r, agent, net) /\ h.conflict => GivesIn(r, a)
    BY <1>4 DEF Course
  <1>6. net' \subseteq PacketRec /\ net' \ net = {} BY <1>1
  <1> QED BY <1>2, <1>3, <1>4, <1>5, <1>6, StepKeeps

LEMMA SoundAgent ==
    ASSUME IInv, NEW a \in Agents
    PROVE  /\ Safe(agent[a]) /\ Whole(agent[a]) /\ agent[a] \in AgentRec
           /\ Sound(agent[a]) /\ left \in 0 .. MaxTrouble
  BY DEF IInv, Sound, Safe, Whole

\* Only a connection there is waits for responses.
LEMMA WaitingLive ==
    ASSUME NEW g, Whole(g), NEW p \in Pairs, g.conn[p].reqs # {} PROVE p \in Live(g)
  BY DEF Whole, Live, NoConn, NewConn

LEMMA SetIceProtocolTypeInv ==
    ASSUME IInv, NEW a \in Agents, SetIceProtocolType(a) PROVE IInv'
  <1> DEFINE g == agent[a]
             P == [p \in Pairs |-> IF g.port[p] = "gone" THEN "gone" ELSE protocol]
             h == [g EXCEPT !.proto = protocol, !.port = P]
  <1>1. Safe(g) /\ g \in AgentRec BY SoundAgent
  <1>2. protocol \in Known BY StartAssumption DEF IInv, Known
  <1>3. P \in [Pairs -> {"HYBRID", "gone"} \cup Known] BY <1>2
  <1>4. \A p \in Live(g) : P[p] # "gone"
    <2> TAKE p \in Live(g)
    <2>1. p \in Pairs /\ g.port[p] # "gone" BY <1>1 DEF Safe, Whole, Live
    <2>2. P[p] = protocol BY <2>1
    <2> QED BY <1>2, <2>2 DEF Known
  <1>5. g.proto = "HYBRID" /\ agent' = [agent EXCEPT ![a] = h]
        /\ net' = net /\ protocol' = protocol /\ left' = left
    BY <1>1 DEF SetIceProtocolType, Becomes, AgentRec
  <1> HIDE DEF P
  <1>6. Agreed(g, h, protocol) BY <1>1, <1>2, <1>3, <1>4, <1>5, ProtocolEffect
  <1> USE DEF Agreed
  <1> HIDE DEF h
  <1>7. \A r \in Roles : Course(r, agent, net) /\ h.conflict => GivesIn(r, a)
    BY <1>6 DEF Course
  <1>8. left' \in 0 .. MaxTrouble /\ net' \subseteq PacketRec /\ net' \ net = {}
    BY <1>5 DEF IInv
  <1> QED BY <1>5, <1>6, <1>7, <1>8, StepKeeps

LEMMA OnCandidateInv == ASSUME IInv, NEW a \in Agents, OnCandidate(a) PROVE IInv'
  <1> DEFINE f == agent[a]
             g == [f EXCEPT !.due = Tail(f.due)]
             h == Introduced(g, Head(f.due))
  <1>1. Safe(f) /\ f \in AgentRec /\ left \in 0 .. MaxTrouble BY SoundAgent
  <1>2. f.due # <<>> /\ agent' = [agent EXCEPT ![a] = h]
        /\ net' = net /\ protocol' = protocol /\ left' = left
    BY <1>1 DEF OnCandidate, Becomes
  <1>3. Head(f.due) \in Pairs /\ Tail(f.due) \in Seq(Pairs) BY <1>1, <1>2 DEF AgentRec
  <1>4. g \in Handled(f) BY <1>1, <1>3, DueEffect, ChainHandled
  <1> HIDE DEF g
  <1>5. Safe(g) BY <1>4 DEF Handled
  <1>6. h \in Handled(g) BY <1>3, <1>5, IntroducedEffect
  <1> HIDE DEF h
  <1>7. h \in Handled(f) BY <1>4, <1>6, HandledTransitive
  <1> QED BY <1>1, <1>2, <1>7, HandledKeeps

\* A connection waits for fewer responses.
LEMMA FewerReqs ==
    ASSUME NEW g, Safe(g), NEW p \in Live(g), NEW id
    PROVE  [g EXCEPT !.conn[p].reqs = @ \ {id}] \in Chain(g)
  <1> DEFINE c == [g.conn[p] EXCEPT !.reqs = g.conn[p].reqs \ {id}]
             f == [g EXCEPT !.conn[p] = c]
  <1>1. /\ p \in Pairs /\ g.conn[p] \in ConnRec /\ g.conn[p].alive /\ g \in AgentRec
        /\ g.conn \in [Pairs -> ConnRec]
    BY ConnOf DEF Safe
  <1>2. /\ c \in ConnRec /\ c.alive /\ c.reqs \subseteq g.conn[p].reqs
        /\ c.write = g.conn[p].write
    BY <1>1 DEF ConnRec
  <1>3. [g EXCEPT !.conn[p].reqs = @ \ {id}] = f BY <1>1 DEF AgentRec
  <1> HIDE DEF c
  <1>4. Safe(f) /\ Shift(g, f) BY <1>2, StillEffect
  <1> HIDE DEF f
  <1> QED BY <1>3, <1>4, SafeChain

LEMMA SilentEffect ==
    ASSUME NEW g, Safe(g), NEW p \in Live(g), NEW n \in 0 .. 2
    PROVE  [g EXCEPT !.conn[p].silent = n] \in Chain(g)
  <1> DEFINE c == [g.conn[p] EXCEPT !.silent = n]
             f == [g EXCEPT !.conn[p] = c]
  <1>1. /\ p \in Pairs /\ g.conn[p] \in ConnRec /\ g.conn[p].alive /\ g \in AgentRec
        /\ g.conn \in [Pairs -> ConnRec]
    BY ConnOf DEF Safe
  <1>2. /\ c \in ConnRec /\ c.alive /\ c.reqs = g.conn[p].reqs
        /\ c.write = g.conn[p].write
    BY <1>1 DEF ConnRec
  <1>3. [g EXCEPT !.conn[p].silent = n] = f BY <1>1 DEF AgentRec
  <1> HIDE DEF c
  <1>4. Safe(f) /\ Shift(g, f) BY <1>2, StillEffect
  <1> HIDE DEF f
  <1> QED BY <1>3, <1>4, SafeChain

LEMMA OnTimeoutInv ==
    ASSUME IInv, NEW a \in Agents, NEW p \in Pairs, NEW id, OnTimeout(a, p, id)
    PROVE  IInv'
  <1> DEFINE g == agent[a]
             h == [g EXCEPT !.conn[p].reqs = @ \ {id}]
  <1>1. Safe(g) /\ Whole(g) /\ left \in 0 .. MaxTrouble BY SoundAgent
  <1>2. g.conn[p].reqs # {} BY DEF OnTimeout
  <1>3. p \in Live(g) BY <1>1, <1>2, WaitingLive
  <1>4. h \in Chain(g) BY <1>1, <1>3, FewerReqs
  <1>5. agent' = [agent EXCEPT ![a] = h] /\ net' = net /\ protocol' = protocol /\ left' = left
    BY DEF OnTimeout, Becomes
  <1> HIDE DEF h
  <1>6. h \in Handled(g) BY <1>1, <1>4, ChainHandled
  <1> QED BY <1>1, <1>5, <1>6, HandledKeeps

LEMMA TroubleLeft ==
    ASSUME IInv, NEW a, NEW p, Trouble(a, p) PROVE left' \in 0 .. MaxTrouble
  BY BoundsAssumption DEF IInv, Trouble

LEMMA SilenceInv ==
    ASSUME IInv, NEW a \in Agents, NEW p \in Pairs, Silence(a, p) PROVE IInv'
  <1> DEFINE g == agent[a]
  <1>1. Safe(g) /\ Whole(g) BY SoundAgent
  <1>2. left' \in 0 .. MaxTrouble BY TroubleLeft DEF Silence
  <1>3. g.conn[p].reqs # {} BY DEF Silence
  <1>4. p \in Live(g) BY <1>1, <1>3, WaitingLive
  <1>5. PICK n \in g.conn[p].silent + 1 .. 2 : Becomes(a, [g EXCEPT !.conn[p].silent = n])
    BY DEF Silence
  <1>6. g.conn[p].silent \in 0 .. 2 BY <1>1, <1>4, ConnOf DEF ConnRec
  <1>7. n \in 0 .. 2 BY <1>5, <1>6
  <1> DEFINE h == [g EXCEPT !.conn[p].silent = n]
  <1>8. h \in Chain(g) BY <1>1, <1>4, <1>7, SilentEffect
  <1>9. agent' = [agent EXCEPT ![a] = h] /\ net' = net /\ protocol' = protocol
    BY <1>5 DEF Silence, Becomes
  <1> HIDE DEF h
  <1>10. h \in Handled(g) BY <1>1, <1>8, ChainHandled
  <1> QED BY <1>2, <1>9, <1>10, HandledKeeps

LEMMA QuietInv ==
    ASSUME IInv, NEW a \in Agents, NEW p \in Pairs, Quiet(a, p) PROVE IInv'
  <1> DEFINE g == agent[a]
             c == [g.conn[p] EXCEPT !.quiet = TRUE]
             f == [g EXCEPT !.conn[p] = c]
  <1>1. Safe(g) /\ Whole(g) BY SoundAgent
  <1>2. left' \in 0 .. MaxTrouble BY TroubleLeft DEF Quiet
  <1>3. g.conn[p].read = "READABLE" BY DEF Quiet
  <1>4. p \in Live(g) BY <1>1, <1>3 DEF Whole, Live, NoConn, NewConn
  <1>5. /\ g.conn[p] \in ConnRec /\ g.conn[p].alive /\ g \in AgentRec
        /\ g.conn \in [Pairs -> ConnRec]
    BY <1>1, <1>4, ConnOf
  <1>6. /\ c \in ConnRec /\ c.alive /\ c.reqs = g.conn[p].reqs
        /\ c.write = g.conn[p].write
    BY <1>5 DEF ConnRec
  <1>7. [g EXCEPT !.conn[p].quiet = TRUE] = f BY <1>5 DEF AgentRec
  <1> HIDE DEF c
  <1>8. Safe(f) /\ Shift(g, f) BY <1>1, <1>4, <1>6, StillEffect
  <1>9. agent' = [agent EXCEPT ![a] = f] /\ net' = net /\ protocol' = protocol
    BY <1>7 DEF Quiet, Becomes
  <1> HIDE DEF f
  <1>10. f \in Handled(g) BY <1>1, <1>8, SafeChain, ChainHandled
  <1> QED BY <1>2, <1>9, <1>10, HandledKeeps

LEMMA LoseInv == ASSUME IInv, NEW m, Lose(m) PROVE IInv'
  <1>1. agent' = agent /\ protocol' = protocol /\ net' \subseteq net BY DEF Lose
  <1>2. left' \in 0 .. MaxTrouble BY TroubleLeft DEF Lose
  <1>3. \A r : Course(r, agent, net) => Course(r, agent', net') BY <1>1 DEF Course
  <1>4. \A a \in Agents : Sound(agent[a])' BY <1>1 DEF IInv, Sound
  <1> QED BY <1>1, <1>2, <1>3, <1>4 DEF IInv

LEMMA TailEffect ==
    ASSUME NEW g, Safe(g), g.queue # <<>>
    PROVE  /\ [g EXCEPT !.queue = Tail(@)] \in Chain(g)
           /\ Head(g.queue) \in Posted(g)
  <1> DEFINE q == Tail(g.queue)
             h == [g EXCEPT !.queue = q]
  <1>1. g \in AgentRec /\ g.queue \in Seq(Posted(g)) BY DEF Safe, Whole
  <1>2. q \in Seq(Posted(g)) /\ Head(g.queue) \in Posted(g)
    <2> HIDE DEF Posted
    <2> QED BY <1>1
  <1>3. q \in Seq(Message) BY <1>1 DEF AgentRec
  <1> HIDE DEF q
  <1>4. h \in AgentRec BY <1>1, <1>3 DEF AgentRec
  <1>5. Shift(g, h) BY <1>1 DEF Shift, AgentRec
  <1>6. h.conn = g.conn /\ h.queue = q /\ h.best = g.best /\ h.pending = g.pending
        /\ h.port = g.port /\ h.dirty = g.dirty /\ h.proto = g.proto
        /\ h.writable = g.writable
    BY <1>1 DEF AgentRec
  <1> HIDE DEF h
  <1>7. Live(h) = Live(g) BY <1>6 DEF Live
  <1>8. Posted(h) = Posted(g) BY <1>7 DEF Posted
  <1>9. Safe(h) BY <1>2, <1>4, <1>6, <1>7, <1>8 DEF Safe, Whole
  <1>10. h \in Chain(g) BY <1>5, <1>9, SafeChain
  <1> QED BY <1>2, <1>10 DEF h, q

LEMMA OnMessageInv == ASSUME IInv, NEW a \in Agents, OnMessage(a) PROVE IInv'
  <1> DEFINE g == agent[a]
             h == [g EXCEPT !.queue = Tail(@)]
  <1>1. Safe(g) /\ left \in 0 .. MaxTrouble BY SoundAgent
  <1>2. net' = net /\ protocol' = protocol /\ left' = left /\ g.queue # <<>>
    BY DEF OnMessage
  <1>3. h \in Chain(g) /\ Head(g.queue) \in Posted(g) BY <1>1, <1>2, TailEffect
  <1>4. \/ agent' = [agent EXCEPT ![a] = SortConnections(h)]
        \/ /\ Head(g.queue) # Sort
           /\ agent' = [agent EXCEPT ![a] = OnConnectionDestroyed(h, Head(g.queue).pair)]
    BY DEF OnMessage, Becomes
  <1> HIDE DEF h
  <1>5. Safe(h) /\ Live(h) = Live(g) /\ h \in Handled(g) BY <1>1, <1>3, ChainLive, ChainHandled
  <1>6. CASE agent' = [agent EXCEPT ![a] = SortConnections(h)]
    <2>1. SortConnections(h) \in Handled(g) BY <1>5, SortHandled, HandledTransitive
    <2> QED BY <1>1, <1>2, <1>6, <2>1, HandledKeeps
  <1>7. CASE /\ Head(g.queue) # Sort
             /\ agent' = [agent EXCEPT ![a] = OnConnectionDestroyed(h, Head(g.queue).pair)]
    <2> DEFINE p == Head(g.queue).pair
    <2>1. p \in Live(h) BY <1>3, <1>5, <1>7 DEF Posted, Delete
    <2>2. OnConnectionDestroyed(h, p) \in Handled(h) BY <1>5, <2>1, DestroyedEffect
    <2>3. OnConnectionDestroyed(h, p) \in Handled(g) BY <1>5, <2>2, HandledTransitive
    <2> QED BY <1>1, <1>2, <1>7, <2>3, HandledKeeps
  <1> QED BY <1>4, <1>6, <1>7

LEMMA PortCheckTimeoutInv ==
    ASSUME IInv, NEW a \in Agents, NEW p \in Pairs, PortCheckTimeout(a, p) PROVE IInv'
  <1> DEFINE g == agent[a]
             C == g.check \ {p}
             P == IF g.conn[p].alive THEN g.port ELSE [g.port EXCEPT ![p] = "gone"]
             x == g.conflict
             h == [g EXCEPT !.port = P, !.check = C, !.conflict = x]
  <1>1. Safe(g) /\ Whole(g) /\ g \in AgentRec /\ Sound(g) /\ left \in 0 .. MaxTrouble
    BY SoundAgent
  <1>2. /\ C \in SUBSET Pairs /\ x \in BOOLEAN
        /\ P \in [Pairs -> {"HYBRID", "gone"} \cup Known]
    BY <1>1 DEF AgentRec
  <1>3. \A q \in Live(g) : P[q] # "gone" BY <1>1 DEF Whole, Live, AgentRec
  <1>4. agent' = [agent EXCEPT ![a] = h] /\ net' = net /\ protocol' = protocol /\ left' = left
    <2> DEFINE k == [g EXCEPT !.check = C]
    <2>1. k.conn = g.conn BY <1>1 DEF AgentRec
    <2>2. h = IF k.conn[p].alive THEN k ELSE [k EXCEPT !.port[p] = "gone"]
      <3>1. CASE g.conn[p].alive BY <1>1, <2>1, <3>1 DEF AgentRec
      <3>2. CASE ~g.conn[p].alive BY <1>1, <2>1, <3>2 DEF AgentRec
      <3> QED BY <3>1, <3>2
    <2>3. k = [g EXCEPT !.check = @ \ {p}] BY <1>1 DEF AgentRec
    <2> HIDE DEF h
    <2> QED BY <2>2, <2>3 DEF PortCheckTimeout, Becomes
  <1> HIDE DEF C, P, x
  <1>5. Reported(g, h) BY <1>1, <1>2, <1>3, PortsEffect
  <1>6. h.conflict = g.conflict BY <1>1 DEF AgentRec, x
  <1> HIDE DEF h
  <1>7. h \in Handled(g) BY <1>5, <1>6, SafeHandled DEF Reported
  <1> QED BY <1>1, <1>4, <1>7, HandledKeeps

\* The session gives the channel another role.
Turned(g, h, x) ==
    /\ Safe(h) /\ h.role = x /\ h.switched /\ ~h.conflict /\ h.proto = g.proto
    /\ Chosen(g) /\ x \in {g.role, "CONTROLLED"} => Chosen(h)

LEMMA RoleEffect ==
    ASSUME NEW g, Safe(g), NEW x \in Role
    PROVE  Turned(g, [g EXCEPT !.conflict = FALSE, !.switched = TRUE, !.role = x], x)
  <1> DEFINE h == [g EXCEPT !.conflict = FALSE, !.switched = TRUE, !.role = x]
  <1>1. g \in AgentRec BY DEF Safe, Whole
  <1>2. h \in AgentRec BY <1>1 DEF AgentRec
  <1>3. h.conn = g.conn /\ h.best = g.best /\ h.pending = g.pending
        /\ h.proto = g.proto /\ h.role = x /\ h.switched /\ ~h.conflict
        /\ h.port = g.port /\ h.queue = g.queue
        /\ h.dirty = g.dirty /\ h.writable = g.writable
    BY <1>1 DEF AgentRec
  <1> HIDE DEF h
  <1>4. Live(h) = Live(g) BY <1>3 DEF Live
  <1>5. Posted(h) = Posted(g) BY <1>4 DEF Posted
  <1>6. Safe(h) BY <1>2, <1>3, <1>4, <1>5 DEF Safe, Whole
  <1>7. ASSUME Chosen(g), x \in {g.role, "CONTROLLED"} PROVE Chosen(h)
    <2>1. Top(h, Live(h)) = Top(g, Live(g))
      BY <1>3, <1>4, <1>6, TopSame DEF Safe
    <2>2. ~Follows(h) => ~Follows(g) BY <1>3, <1>7 DEF Follows
    <2>3. \A p : IsWritable(h, p) = IsWritable(g, p) BY <1>3 DEF IsWritable
    <2> QED BY <1>3, <1>7, <2>1, <2>2, <2>3 DEF Chosen
  <1>8. Turned(g, h, x) BY <1>3, <1>6, <1>7 DEF Turned
  <1> QED BY <1>8 DEF h

LEMMA OnRoleConflictInv ==
    ASSUME IInv, NEW a \in Agents, OnRoleConflict(a) PROVE IInv'
  <1> DEFINE g == agent[a]
             x == IF g.switched THEN g.role ELSE Opposite(g.role)
             h == [g EXCEPT !.conflict = FALSE, !.switched = TRUE, !.role = x]
  <1>1. Safe(g) /\ g \in AgentRec /\ Sound(g) BY SoundAgent
  <1>2. x \in Role BY <1>1 DEF AgentRec, Role, Opposite
  <1>3. agent' = [agent EXCEPT ![a] = h] /\ net' = net /\ protocol' = protocol /\ left' = left
    BY <1>1 DEF OnRoleConflict, Becomes, Opposite, AgentRec
  <1>4. g.conflict BY DEF OnRoleConflict
  <1>5. PICK r \in Roles : Course(r, agent, net) BY DEF IInv
  <1>6. r \in [Agents -> Role] BY <1>5, StartAssumption DEF Role
  <1>7. GivesIn(r, a) /\ g.role = IF g.switched THEN Opposite(r[a]) ELSE r[a]
    BY <1>4, <1>5 DEF Course
  <1>8. x = Opposite(r[a]) BY <1>7
  <1>9. ASSUME Proper PROVE x \in {g.role, "CONTROLLED"}
    <2>1. r[A] = "CONTROLLING" BY <1>5, <1>7, <1>9 DEF Proper, GivesIn
    <2>2. r[a] = "CONTROLLING" BY <1>7, <2>1 DEF GivesIn, Loser
    <2> QED BY <1>8, <2>2 DEF Opposite
  <1> HIDE DEF x
  <1>10. Turned(g, h, x) BY <1>1, <1>2, RoleEffect
  <1> HIDE DEF h
  <1>11. agent \in [Agents -> AgentRec] /\ h \in AgentRec
    BY <1>10 DEF IInv, Turned, Safe, Whole
  <1>12. /\ agent' \in [Agents -> AgentRec] /\ agent'[a] = h
         /\ \A b \in Agents \ {a} : agent'[b] = agent[b]
    BY <1>3, <1>11
  <1>13. \A b \in Agents : Sound(agent[b])'
    <2>1. Safe(h) /\ h.proto \in {"HYBRID", protocol} BY <1>1, <1>10 DEF Turned, Sound
    <2>2. Proper => Chosen(h) BY <1>1, <1>9, <1>10 DEF Turned, Sound
    <2> QED BY <1>3, <1>12, <2>1, <2>2 DEF IInv, Sound
  <1>14. ASSUME NEW b \in Agents
         PROVE  /\ agent'[b].role = IF agent'[b].switched THEN Opposite(r[b]) ELSE r[b]
                /\ agent'[b].switched \/ agent'[b].conflict => GivesIn(r, b)
    <2>1. CASE b = a BY <1>7, <1>8, <1>10, <1>12, <2>1 DEF Turned
    <2>2. CASE b # a BY <1>5, <1>12, <2>2 DEF Course
    <2> QED BY <2>1, <2>2
  <1>15. ASSUME NEW m \in net, m.kind = "REQUEST", m.role # ""
         PROVE  m.role \in {r[Other(m.to)], agent'[Other(m.to)].role}
    <2>1. m.to \in Agents BY DEF IInv, PacketRec
    <2>2. m.role \in {r[Other(m.to)], agent[Other(m.to)].role} BY <1>5, <1>15 DEF Course
    <2>3. Other(m.to) \in Agents BY <2>1, OtherAgent
    <2>4. CASE Other(m.to) = a
      <3>1. agent'[a].role = x BY <1>10, <1>12 DEF Turned
      <3>2. g.role \in {r[a], x} BY <1>7, <1>8
      <3> QED BY <2>2, <2>4, <3>1, <3>2
    <2>5. CASE Other(m.to) # a BY <1>12, <2>2, <2>3, <2>5
    <2> QED BY <2>4, <2>5
  <1>16. Course(r, agent', net') BY <1>3, <1>5, <1>14, <1>15 DEF Course
  <1> QED BY <1>3, <1>5, <1>12, <1>13, <1>16 DEF IInv

LEMMA OnPingInv ==
    ASSUME IInv, NEW a \in Agents, NEW p \in Pairs \cup {None}, OnPing(a, p) PROVE IInv'
  <1> DEFINE f == agent[a]
             g == UpdateConnectionStates(f)
  <1>1. Safe(f) /\ Sound(f) /\ left \in 0 .. MaxTrouble BY SoundAgent
  <1>2. g \in Chain(f) BY <1>1, UpdatesEffect
  <1>3. Safe(g) /\ Shift(f, g) /\ g \in Handled(f) BY <1>1, <1>2, ChainLive, ChainHandled
  <1>4. /\ p \in FindNextPingableConnection(g)
        /\ \/ /\ p = None
              /\ Becomes(a, g) /\ UNCHANGED net
           \/ \E id \in FreeIds(a) :
                 /\ p # None
                 /\ Becomes(a, [g EXCEPT !.conn[p].reqs = @ \cup {id}])
                 /\ net' = net \cup {Request(a, g, p, id)}
        /\ protocol' = protocol /\ left' = left
    BY DEF OnPing
  <1> HIDE DEF g
  <1>5. CASE agent' = [agent EXCEPT ![a] = g] /\ net' = net
    BY <1>1, <1>3, <1>4, <1>5, HandledKeeps
  <1>6. ASSUME NEW id \in FreeIds(a), p # None,
               Becomes(a, [g EXCEPT !.conn[p].reqs = @ \cup {id}]),
               net' = net \cup {Request(a, g, p, id)}
        PROVE  IInv'
    <2> DEFINE h == [g EXCEPT !.conn[p].reqs = @ \cup {id}]
               m == Request(a, g, p, id)
    <2>1. p \in Live(g) BY <1>4, <1>6 DEF FindNextPingableConnection, Pingable
    <2>2. id \in 1 .. MaxReq /\ \A q \in Pairs : id \notin f.conn[q].reqs
      BY <1>6 DEF FreeIds, Waiting
    <2>3. \A q \in Pairs : id \notin g.conn[q].reqs BY <1>3, <2>2 DEF Shift
    <2>4. h \in Handled(g) BY <1>3, <2>1, <2>2, <2>3, PingedEffect
    <2>5. agent' = [agent EXCEPT ![a] = h] BY <1>6 DEF Becomes
    <2> HIDE DEF h
    <2>6. h \in Handled(f) BY <1>3, <2>4, HandledTransitive
    <2>7. p \in Pairs /\ g.role \in Role /\ g.role = f.role
      BY <1>3, <2>1 DEF Live, Safe, Whole, AgentRec, Shift
    <2>8. m \in PacketRec /\ m.kind = "REQUEST" /\ m.to = Other(a) /\ m.role \in {"", f.role}
      <3>1. UseCandidate(g, p) \in BOOLEAN BY DEF UseCandidate
      <3>2. Style(g, p) \in Known BY DEF Style, Known
      <3>3. Other(a) \in Agents BY OtherAgent
      <3> DEFINE u == UseCandidate(g, p)
                 t == Style(g, p)
      <3> HIDE DEF u, t
      <3>4. m = [kind |-> "REQUEST", to |-> Other(a), pair |-> p, id |-> id, style |-> t,
                 role |-> IF g.port[p] = "RFC5245" THEN g.role ELSE "", use |-> u]
        BY DEF Request, Packet, u, t
      <3> HIDE DEF m
      <3>5. u \in BOOLEAN /\ t \in Known BY <3>1, <3>2 DEF u, t
      <3> QED BY <2>2, <2>7, <3>3, <3>4, <3>5 DEF PacketRec
    <2> HIDE DEF m
    <2>9. Safe(h) /\ (Proper => Chosen(h)) /\ h.proto \in {"HYBRID", protocol}
      BY <1>1, <2>6 DEF Handled, Sound
    <2>10. h.role = f.role /\ h.switched = f.switched /\ h.conflict = f.conflict
      BY <2>6 DEF Handled
    <2>11. \A r \in Roles : Course(r, agent, net) /\ h.conflict => GivesIn(r, a)
      BY <2>10 DEF Course
    <2>12. net' = net \cup {m} BY <1>6 DEF m
    <2>13. net' \subseteq PacketRec /\ net' \ net \subseteq {m} BY <2>8, <2>12 DEF IInv
    <2>14. \A n \in net' \ net :
              /\ n.kind = "REQUEST" => n.to = Other(a) /\ n.role \in {"", agent[a].role}
              /\ n.kind = "ROLE_CONFLICT" =>
                    \A r \in Roles : Course(r, agent, net) => GivesIn(r, n.to)
      BY <2>8, <2>13
    <2> QED BY <1>1, <1>4, <2>5, <2>9, <2>10, <2>11, <2>13, <2>14, StepKeeps
  <1> QED BY <1>4, <1>5, <1>6 DEF Becomes

\* A conflict is reported.
LEMMA ConflictEffect ==
    ASSUME NEW g, Safe(g) PROVE Reported(g, [g EXCEPT !.conflict = TRUE])
  <1> DEFINE P == g.port
             C == g.check
             x == TRUE
  <1>1. /\ g \in AgentRec /\ P \in [Pairs -> {"HYBRID", "gone"} \cup Known]
        /\ C \in SUBSET Pairs /\ x \in BOOLEAN
    BY DEF Safe, Whole, AgentRec
  <1>2. \A p \in Live(g) : P[p] # "gone" BY DEF Safe, Whole
  <1>3. [g EXCEPT !.conflict = TRUE] = [g EXCEPT !.port = P, !.check = C, !.conflict = x]
    BY <1>1 DEF AgentRec
  <1> HIDE DEF P, C, x
  <1>4. Reported(g, [g EXCEPT !.port = P, !.check = C, !.conflict = x])
    BY <1>1, <1>2, PortsEffect
  <1> QED BY <1>3, <1>4

LEMMA LearnedEffect ==
    ASSUME NEW g, Safe(g), NEW m \in PacketRec PROVE Learned(g, m) \in Handled(g)
  <1> DEFINE P == [g.port EXCEPT ![m.pair] = m.style]
             C == g.check
             x == g.conflict
             h == [g EXCEPT !.port = P, !.check = C, !.conflict = x]
  <1>1. m.pair \in Pairs /\ m.style \in {"HYBRID"} \cup Known BY DEF PacketRec
  <1>2. /\ g \in AgentRec /\ P \in [Pairs -> {"HYBRID", "gone"} \cup Known]
        /\ C \in SUBSET Pairs /\ x \in BOOLEAN
    BY <1>1 DEF Safe, Whole, AgentRec
  <1>3. \A p \in Live(g) : P[p] # "gone"
    <2>1. m.style # "gone" BY <1>1 DEF Known
    <2>2. \A p \in Live(g) : p \in Pairs /\ g.port[p] # "gone" BY DEF Safe, Whole, Live
    <2> QED BY <1>2, <2>1, <2>2 DEF AgentRec
  <1>4. Learned(g, m) \in {g, h} BY <1>2 DEF Learned, AgentRec
  <1> HIDE DEF P, C, x
  <1>5. Reported(g, h) BY <1>2, <1>3, PortsEffect
  <1>6. h.conflict = g.conflict BY <1>2 DEF AgentRec, x
  <1> HIDE DEF h
  <1>7. h \in Handled(g) BY <1>5, <1>6, SafeHandled DEF Reported
  <1> QED BY <1>4, <1>7, HandledSelf

\* v is the answer to the request m and what it makes of g.
Judged(a, g, m, v) ==
    /\ v[1] \in {"OK", "RETRY", "ROLE_CONFLICT"}
    /\ v[1] = "ROLE_CONFLICT" => Conflicting(g, m) /\ ~MustSwitch(a, g)
    /\ Safe(v[2]) /\ (Chosen(g) => Chosen(v[2]))
    /\ v[2].proto = g.proto /\ v[2].role = g.role /\ v[2].switched = g.switched
    /\ v[2].conflict => g.conflict \/ (Conflicting(g, m) /\ MustSwitch(a, g))

LEMMA VerdictEffect ==
    ASSUME NEW a, NEW g, Safe(g), NEW m \in PacketRec, g.port[m.pair] # "gone"
    PROVE  Judged(a, g, m, Verdict(a, g, m))
  <1> DEFINE v == Verdict(a, g, m)
             e == [g EXCEPT !.conflict = TRUE]
             c == IF Conflicting(g, m) THEN e ELSE g
             p == m.pair
  <1> SUFFICES Judged(a, g, m, v) OBVIOUS
  <1>1. g \in AgentRec /\ p \in Pairs BY DEF Safe, Whole, PacketRec
  <1>2. Reported(g, e) BY ConflictEffect
  <1>3. e.conflict /\ e.port = g.port BY <1>1 DEF AgentRec
  <1>4. \/ v = <<"RETRY", g>>
        \/ v = <<"ROLE_CONFLICT", g>> /\ Conflicting(g, m) /\ ~MustSwitch(a, g)
        \/ /\ Conflicting(g, m) => MustSwitch(a, g)
           /\ \/ c.conn[p].alive /\ v = <<"OK", Answered(c, m)>>
              \/ ~c.conn[p].alive /\ v = <<"OK", Discovered(c, p)>>
              \/ v = <<"RETRY", c>>
    <2> HIDE DEF e
    <2>1. v = IF m.style # g.port[p] THEN <<"RETRY", g>>
              ELSE IF Conflicting(g, m) /\ ~MustSwitch(a, g) THEN <<"ROLE_CONFLICT", g>>
              ELSE IF c.conn[p].alive THEN <<"OK", Answered(c, m)>>
              ELSE IF c.remote # {} THEN <<"OK", Discovered(c, p)>>
              ELSE <<"RETRY", c>>
      BY DEF Verdict, e
    <2> HIDE DEF v, c, p
    <2> QED BY <2>1
  <1> HIDE DEF v, e, p
  <1>5. /\ Safe(c) /\ (Chosen(g) => Chosen(c)) /\ c.port = g.port
        /\ c.proto = g.proto /\ c.role = g.role /\ c.switched = g.switched
        /\ c.conflict => g.conflict \/ Conflicting(g, m)
    BY <1>2, <1>3 DEF Reported
  <1> HIDE DEF c
  <1>6. CASE v = <<"RETRY", g>> BY <1>6 DEF Judged
  <1>7. CASE v = <<"ROLE_CONFLICT", g>> /\ Conflicting(g, m) /\ ~MustSwitch(a, g)
    BY <1>7 DEF Judged
  <1>8. ASSUME Conflicting(g, m) => MustSwitch(a, g), NEW k, NEW h \in Handled(c),
               k \in {"OK", "RETRY"}, v = <<k, h>>
        PROVE  Judged(a, g, m, v)
    <2>1. v[1] = k /\ v[2] = h BY <1>8
    <2>2. /\ Safe(h) /\ (Chosen(c) => Chosen(h)) /\ h.proto = c.proto /\ h.role = c.role
          /\ h.switched = c.switched /\ h.conflict = c.conflict
      BY <1>8 DEF Handled
    <2> QED BY <1>5, <1>8, <2>1, <2>2 DEF Judged
  <1>9. CASE v = <<"RETRY", c>> /\ (Conflicting(g, m) => MustSwitch(a, g))
    BY <1>5, <1>8, <1>9, HandledSelf
  <1>10. CASE c.conn[p].alive /\ v = <<"OK", Answered(c, m)>>
              /\ (Conflicting(g, m) => MustSwitch(a, g))
    <2>1. m.pair \in Live(c) BY <1>1, <1>10 DEF Live, p
    <2>2. Answered(c, m) \in Handled(c) BY <1>5, <2>1, AnsweredEffect
    <2> QED BY <1>8, <1>10, <2>2
  <1>11. CASE ~c.conn[p].alive /\ v = <<"OK", Discovered(c, p)>>
              /\ (Conflicting(g, m) => MustSwitch(a, g))
    <2>1. c.port[p] # "gone" BY <1>5 DEF p
    <2>2. Discovered(c, p) \in Handled(c) BY <1>1, <1>5, <1>11, <2>1, DiscoveredEffect
    <2> QED BY <1>8, <1>11, <2>2
  <1> QED BY <1>4, <1>6, <1>7, <1>9, <1>10, <1>11

\* When two roles clash it is the loser's turn, whoever notices.
LEMMA ConflictCourse ==
    ASSUME NEW r \in [Agents -> Role], Course(r, agent, net), NEW a \in Agents,
           NEW m \in net, m.kind = "REQUEST", m.to = a,
           NEW g, g.role = agent[a].role, g.role \in Role, Conflicting(g, m)
    PROVE  /\ MustSwitch(a, g) => GivesIn(r, a)
           /\ ~MustSwitch(a, g) => GivesIn(r, Other(a))
  <1> DEFINE b == Other(a)
  <1>1. b \in Agents /\ b # a BY OtherAgent
  <1>2. m.role = g.role /\ m.role # "" BY DEF Conflicting, Role
  <1>3. m.role \in {r[b], agent[b].role} BY <1>2 DEF Course
  <1>4. \A c \in Agents : agent[c].role = r[c] \/ (GivesIn(r, c) /\ agent[c].role = Opposite(r[c]))
    BY DEF Course
  <1>5. \A c \in Agents : r[c] \in Role BY DEF Role
  <1>6. r[A] = r[B]
    <2>1. SUFFICES ASSUME r[A] # r[B] PROVE FALSE OBVIOUS
    <2>2. agent[a].role = r[a] /\ agent[b].role = r[b]
      BY <1>1, <1>4, <2>1 DEF GivesIn
    <2>3. r[a] = r[b] BY <1>2, <1>3, <2>2
    <2> QED BY <1>1, <2>1, <2>3 DEF Agents
  <1>7. A \in Agents /\ B \in Agents /\ A # B BY AgentsAssumption DEF Agents
  <1>8. Tiebreaker(A) = 1 /\ Tiebreaker(B) = 2 /\ Other(A) = B /\ Other(B) = A
    BY <1>7 DEF Tiebreaker, Other
  <1>9. CASE r[A] = "CONTROLLING"
    <2>1. GivesIn(r, A) /\ ~GivesIn(r, B) BY <1>6, <1>7, <1>9 DEF GivesIn, Loser
    <2>2. agent[B].role = "CONTROLLING" BY <1>4, <1>6, <1>7, <1>9, <2>1
    <2>3. CASE a = A
      <3>1. m.role = "CONTROLLING" BY <1>3, <1>6, <1>8, <1>9, <2>2, <2>3
      <3>2. g.role = "CONTROLLING" BY <1>2, <3>1
      <3>3. MustSwitch(a, g) BY <1>8, <2>3, <3>2 DEF MustSwitch
      <3> QED BY <2>1, <2>3, <3>3
    <2>4. CASE a = B
      <3>1. g.role = "CONTROLLING" BY <2>2, <2>4
      <3>2. ~MustSwitch(a, g) BY <1>8, <2>4, <3>1 DEF MustSwitch
      <3> QED BY <1>8, <2>1, <2>4, <3>2
    <2> QED BY <2>3, <2>4 DEF Agents
  <1>10. CASE r[A] = "CONTROLLED"
    <2>1. GivesIn(r, B) /\ ~GivesIn(r, A) BY <1>6, <1>7, <1>10 DEF GivesIn, Loser
    <2>2. agent[A].role = "CONTROLLED" BY <1>4, <1>7, <1>10, <2>1
    <2>3. CASE a = A
      <3>1. g.role = "CONTROLLED" BY <2>2, <2>3
      <3>2. ~MustSwitch(a, g) BY <1>8, <2>3, <3>1 DEF MustSwitch
      <3> QED BY <1>8, <2>1, <2>3, <3>2
    <2>4. CASE a = B
      <3>1. m.role = "CONTROLLED" BY <1>3, <1>8, <1>10, <2>2, <2>4
      <3>2. g.role = "CONTROLLED" BY <1>2, <3>1
      <3>3. MustSwitch(a, g) BY <1>8, <2>4, <3>2 DEF MustSwitch
      <3> QED BY <2>1, <2>4, <3>3
    <2> QED BY <2>3, <2>4 DEF Agents
  <1> QED BY <1>5, <1>7, <1>9, <1>10 DEF Role

\* Data makes a connection that timed out try again.
LEMMA DataEffect ==
    ASSUME NEW g, Safe(g), NEW p \in Pairs PROVE TakenForData(g, p) \in Handled(g)
  <1>1. CASE g.conn[p].read = "READABLE"
    <2>1. p \in Live(g) BY <1>1 DEF Safe, Whole, Live, NoConn, NewConn
    <2>2. set_write_state(g, p, "INIT") \in Chain(g) BY <2>1, SetWriteEffect DEF Write
    <2>3. set_write_state(g, p, "INIT") \in Handled(g) BY <2>2, ChainHandled
    <2> QED BY <2>3, HandledSelf DEF TakenForData
  <1>2. CASE g.conn[p].read # "READABLE" BY <1>2, HandledSelf DEF TakenForData
  <1> QED BY <1>1, <1>2

LEMMA ReceiveRequestInv ==
    ASSUME IInv, NEW m \in net, ReceiveRequest(m.to, m) PROVE IInv'
  <1> DEFINE a == m.to
             f == agent[a]
             g == Learned(f, m)
             v == Verdict(a, g, m)
             k == Packet(v[1], Other(a), m.pair, m.id, g.port[m.pair], "", FALSE)
  <1>1. m \in PacketRec /\ a \in Agents BY DEF IInv, PacketRec
  <1>2. Safe(f) /\ Sound(f) /\ left \in 0 .. MaxTrouble BY <1>1, SoundAgent
  <1>3. /\ m.kind = "REQUEST" /\ protocol' = protocol /\ left' = left
        /\ \/ /\ Understood(g, m)
              /\ agent' = [agent EXCEPT ![a] = v[2]]
              /\ net' = (net \ {m}) \cup {k}
           \/ net' = net \ {m} /\ agent' = [agent EXCEPT ![a] = TakenForData(g, m.pair)]
    BY DEF ReceiveRequest, Becomes
  <1>4. g \in Handled(f) BY <1>1, <1>2, LearnedEffect
  <1> HIDE DEF g
  <1>5. CASE net' = net \ {m} /\ agent' = [agent EXCEPT ![a] = TakenForData(g, m.pair)]
    <2> DEFINE h == TakenForData(g, m.pair)
    <2>1. Safe(g) /\ m.pair \in Pairs BY <1>1, <1>4 DEF Handled, PacketRec
    <2>2. h \in Handled(g) BY <2>1, DataEffect
    <2> HIDE DEF h
    <2>3. h \in Handled(f) BY <1>4, <2>2, HandledTransitive
    <2> QED BY <1>1, <1>2, <1>3, <1>5, <2>3, HandledKeeps DEF h
  <1>6. CASE /\ Understood(g, m)
             /\ agent' = [agent EXCEPT ![a] = v[2]]
             /\ net' = (net \ {m}) \cup {k}
    <2>1. Safe(g) /\ (Chosen(f) => Chosen(g)) /\ g.proto = f.proto /\ g.role = f.role
          /\ g.switched = f.switched /\ g.conflict = f.conflict
      BY <1>4 DEF Handled
    <2>2. g.port[m.pair] # "gone" BY <1>6 DEF Understood
    <2>3. Judged(a, g, m, v) BY <1>1, <2>1, <2>2, VerdictEffect
    <2> HIDE DEF v
    <2> DEFINE h == v[2]
    <2>4. Safe(h) /\ h.proto \in {"HYBRID", protocol} /\ (Proper => Chosen(h))
      BY <1>2, <2>1, <2>3 DEF Judged, Sound
    <2>5. h.role = f.role /\ h.switched = f.switched BY <2>1, <2>3 DEF Judged
    <2>6. ASSUME NEW r \in Roles, Course(r, agent, net)
          PROVE  /\ h.conflict => GivesIn(r, a)
                 /\ v[1] = "ROLE_CONFLICT" => GivesIn(r, Other(a))
      <3>1. r \in [Agents -> Role] BY <2>6, StartAssumption DEF Role
      <3>2. g.role \in Role BY <2>1 DEF Safe, Whole, AgentRec
      <3>3. Conflicting(g, m) => /\ MustSwitch(a, g) => GivesIn(r, a)
                                 /\ ~MustSwitch(a, g) => GivesIn(r, Other(a))
        BY <1>1, <1>3, <2>1, <2>6, <3>1, <3>2, ConflictCourse
      <3>4. g.conflict => GivesIn(r, a) BY <1>1, <2>1, <2>6 DEF Course
      <3> QED BY <2>3, <3>3, <3>4 DEF Judged
    <2>7. /\ k \in PacketRec /\ k.kind = v[1] /\ k.to = Other(a)
          /\ v[1] \in {"OK", "RETRY", "ROLE_CONFLICT"}
      <3>1. v[1] \in {"OK", "RETRY", "ROLE_CONFLICT"} BY <2>3 DEF Judged
      <3>2. Other(a) \in Agents BY <1>1, OtherAgent
      <3>3. g.port[m.pair] \in {"HYBRID"} \cup Known
        BY <1>1, <2>1, <2>2 DEF PacketRec, Safe, Whole, AgentRec
      <3> DEFINE t == g.port[m.pair]
      <3> HIDE DEF t
      <3>4. k = [kind |-> v[1], to |-> Other(a), pair |-> m.pair, id |-> m.id,
                 style |-> t, role |-> "", use |-> FALSE]
        BY DEF Packet, t
      <3> HIDE DEF k
      <3>5. m.pair \in Pairs /\ m.id \in 1 .. MaxReq BY <1>1 DEF PacketRec
      <3>6. t \in {"HYBRID"} \cup Known BY <3>3 DEF t
      <3> QED BY <3>1, <3>2, <3>4, <3>5, <3>6 DEF PacketRec
    <2> HIDE DEF k, h
    <2>8. net' \subseteq PacketRec /\ net' \ net \subseteq {k} BY <1>6, <2>7 DEF IInv
    <2>9. \A n \in net' \ net :
             /\ n.kind = "REQUEST" => n.to = Other(a) /\ n.role \in {"", agent[a].role}
             /\ n.kind = "ROLE_CONFLICT" =>
                   \A r \in Roles : Course(r, agent, net) => GivesIn(r, n.to)
      BY <2>6, <2>7, <2>8
    <2>10. \A r \in Roles : Course(r, agent, net) /\ h.conflict => GivesIn(r, a) BY <2>6
    <2>11. agent' = [agent EXCEPT ![a] = h] BY <1>6 DEF h
    <2>12. left' \in 0 .. MaxTrouble BY <1>2, <1>3
    <2> HIDE DEF a
    <2> QED BY <1>1, <1>3, <2>4, <2>5, <2>8, <2>9, <2>10, <2>11, <2>12, StepKeeps
  <1> QED BY <1>3, <1>5, <1>6

\* h is what the response m makes of g.
Concluded(g, m, h) ==
    /\ Safe(h) /\ (Chosen(g) => Chosen(h))
    /\ h.proto = g.proto /\ h.role = g.role /\ h.switched = g.switched
    /\ h.conflict => g.conflict \/ m.kind = "ROLE_CONFLICT"

LEMMA RespondedEffect ==
    ASSUME NEW g, Safe(g), NEW m \in PacketRec, m.kind # "REQUEST", m.pair \in Live(g)
    PROVE  Concluded(g, m, Responded(g, m))
  <1> DEFINE p == m.pair
             h == [g EXCEPT !.conn[p].reqs = @ \ {m.id}]
             s == [h EXCEPT !.conn[p].silent = 0]
             w == set_write_state(s, p, "WRITABLE")
             e == [h EXCEPT !.conflict = TRUE]
             x == Responded(g, m)
  <1> SUFFICES Concluded(g, m, x) OBVIOUS
  <1>1. h \in Chain(g) BY FewerReqs
  <1>2. /\ m.kind = "OK" => x = w
        /\ m.kind = "ROLE_CONFLICT" => x = e
        /\ m.kind = "RETRY" => x = h
    BY DEF Responded
  <1> HIDE DEF h
  <1>3. Safe(h) /\ p \in Live(h) /\ h \in Handled(g) BY <1>1, ChainLive, ChainHandled
  <1>4. s \in Chain(h)
    <2>1. 0 \in 0 .. 2 OBVIOUS
    <2> HIDE DEF p
    <2> QED BY <1>3, <2>1, SilentEffect
  <1> HIDE DEF s
  <1>5. Safe(s) /\ p \in Live(s) /\ s \in Chain(g) BY <1>1, <1>3, <1>4, ChainLive, ChainTransitive
  <1>6. w \in Chain(s) BY <1>5, SetWriteEffect DEF Write
  <1>7. w \in Handled(g) BY <1>5, <1>6, ChainTransitive, ChainHandled
  <1>8. Reported(h, e) BY <1>3, ConflictEffect
  <1> HIDE DEF w, e, x
  <1>9. CASE m.kind = "OK" BY <1>2, <1>7, <1>9 DEF Concluded, Handled
  <1>10. CASE m.kind = "ROLE_CONFLICT"
    BY <1>2, <1>3, <1>8, <1>10 DEF Concluded, Handled, Reported
  <1>11. CASE m.kind = "RETRY" BY <1>2, <1>3, <1>11 DEF Concluded, Handled
  <1> QED BY <1>9, <1>10, <1>11 DEF PacketRec

LEMMA ReceiveResponseInv ==
    ASSUME IInv, NEW m \in net, ReceiveResponse(m.to, m) PROVE IInv'
  <1> DEFINE a == m.to
             f == agent[a]
             h == Responded(f, m)
             d == TakenForData(f, m.pair)
  <1>1. m \in PacketRec /\ a \in Agents /\ m.pair \in Pairs BY DEF IInv, PacketRec
  <1>2. Safe(f) /\ Whole(f) /\ Sound(f) /\ left \in 0 .. MaxTrouble BY <1>1, SoundAgent
  <1>3. /\ m.kind # "REQUEST" /\ protocol' = protocol /\ left' = left /\ net' = net \ {m}
        /\ \/ f.conn[m.pair].reqs # {} /\ agent' = [agent EXCEPT ![a] = h]
           \/ agent' = [agent EXCEPT ![a] = f]
           \/ agent' = [agent EXCEPT ![a] = d]
    BY DEF ReceiveResponse, Becomes
  <1>4. ASSUME NEW g \in Handled(f), agent' = [agent EXCEPT ![a] = g] PROVE IInv'
    BY <1>1, <1>2, <1>3, <1>4, HandledKeeps
  <1>5. CASE f.conn[m.pair].reqs # {} /\ agent' = [agent EXCEPT ![a] = h]
    <2>1. m.pair \in Live(f) BY <1>1, <1>2, <1>5, WaitingLive
    <2>2. Concluded(f, m, h) BY <1>1, <1>2, <1>3, <2>1, RespondedEffect
    <2> HIDE DEF h
    <2>3. Safe(h) /\ h.proto \in {"HYBRID", protocol} /\ (Proper => Chosen(h))
      BY <1>2, <2>2 DEF Concluded, Sound
    <2>4. h.role = f.role /\ h.switched = f.switched BY <2>2 DEF Concluded
    <2>5. \A r \in Roles : Course(r, agent, net) /\ h.conflict => GivesIn(r, a)
      BY <1>1, <2>2 DEF Concluded, Course
    <2>6. net' \subseteq PacketRec /\ net' \ net = {} BY <1>3 DEF IInv
    <2>7. left' \in 0 .. MaxTrouble BY <1>2, <1>3
    <2> HIDE DEF a
    <2> QED BY <1>1, <1>3, <1>5, <2>3, <2>4, <2>5, <2>6, <2>7, StepKeeps
  <1>6. f \in Handled(f) /\ d \in Handled(f) BY <1>1, <1>2, HandledSelf, DataEffect
  <1> QED BY <1>3, <1>4, <1>5, <1>6

-----------------------------------------------------------------------------
(* The theorems                                                            *)

LEMMA CreatedSafe ==
    ASSUME NEW a \in Agents, NEW role \in Role, NEW proto \in {"HYBRID"} \cup Known
    PROVE  LET g == Created(a, role, proto)
           IN /\ Safe(g) /\ Chosen(g) /\ g.proto = proto /\ g.role = role
              /\ ~g.switched /\ ~g.conflict
  <1> DEFINE g == Created(a, role, proto)
             c == [p \in Pairs |-> NoConn]
             o == [p \in Pairs |-> proto]
  <1>1. c \in [Pairs -> ConnRec] /\ \A p \in Pairs : c[p] = NoConn BY NoConnType
  <1>2. o \in [Pairs -> {"HYBRID", "gone"} \cup Known] OBVIOUS
  <1>3. g = [proto |-> proto, role |-> role, switched |-> FALSE, conflict |-> FALSE,
             conn |-> c, port |-> o, check |-> {}, due |-> Late[a], remote |-> {},
             best |-> None, pending |-> None, dirty |-> FALSE, queue |-> <<>>,
             writable |-> FALSE, readable |-> FALSE]
    BY DEF Created
  <1> HIDE DEF g, c, o
  <1>4. g \in AgentRec
    <2>1. <<>> \in Seq(Message) /\ None \in Place BY DEF Place
    <2>2. Late[a] \in Seq(Pairs) BY StartAssumption
    <2> QED BY <1>1, <1>2, <1>3, <2>1, <2>2 DEF AgentRec
  <1>5. g.conn = c /\ g.best = None /\ g.pending = None /\ g.queue = <<>> /\ ~g.writable
        /\ ~g.dirty /\ g.proto = proto /\ g.role = role /\ ~g.switched /\ ~g.conflict
    BY <1>3
  <1>6. ~NoConn.alive /\ NoConn.reqs = {} /\ NoConn.write = "INIT" BY DEF NoConn, NewConn
  <1>7. Live(g) = {} BY <1>1, <1>5, <1>6 DEF Live
  <1>8. g.queue \in Seq(Posted(g)) BY <1>5
  <1>9. Whole(g) BY <1>1, <1>4, <1>5, <1>6, <1>7, <1>8 DEF Whole
  <1>10. Safe(g) BY <1>1, <1>5, <1>6, <1>9 DEF Safe
  <1>11. Top(g, Live(g)) = None BY <1>7 DEF Top
  <1>12. Chosen(g)
    <2>1. IsWritable(g, None) = FALSE BY DEF IsWritable
    <2>2. g.writable = FALSE BY <1>3
    <2>3. g.writable = IsWritable(g, g.best) BY <1>5, <2>1, <2>2
    <2>4. g.best = Top(g, Live(g)) BY <1>5, <1>11
    <2> QED BY <2>3, <2>4 DEF Chosen
  <1> QED BY <1>5, <1>10, <1>12 DEF g

LEMMA InitInv == Init => IInv
  <1> SUFFICES ASSUME Init PROVE IInv OBVIOUS
  <1>1. PICK r \in Roles :
           agent = [a \in Agents |->
                      Start(a, r[a], IF a \in Hybrid THEN "HYBRID" ELSE protocol)]
    BY DEF Init
  <1>2. r \in [Agents -> Role] BY StartAssumption DEF Role
  <1>3. protocol \in Protocols /\ net = {} /\ left \in 0 .. MaxTrouble
    BY BoundsAssumption DEF Init
  <1>4. protocol \in Known BY <1>3, StartAssumption DEF Known
  <1>5. ASSUME NEW a \in Agents
        PROVE  /\ agent[a] \in AgentRec /\ Sound(agent[a]) /\ agent[a].role = r[a]
               /\ ~agent[a].switched /\ ~agent[a].conflict
    <2> DEFINE x == IF a \in Hybrid THEN "HYBRID" ELSE protocol
               g == Created(a, r[a], x)
    <2>1. r[a] \in Role /\ x \in {"HYBRID"} \cup Known BY <1>2, <1>4
    <2>2. agent[a] = Start(a, r[a], x) BY <1>1
    <2>3. x \in {"HYBRID", protocol} OBVIOUS
    <2> HIDE DEF x
    <2>4. /\ Safe(g) /\ Chosen(g) /\ g.proto = x /\ g.role = r[a]
          /\ ~g.switched /\ ~g.conflict
      BY <2>1, CreatedSafe
    <2>5. agent[a] \in Handled(g) BY <2>2, <2>4, StartEffect
    <2> HIDE DEF g
    <2> QED BY <2>3, <2>4, <2>5 DEF Handled, Sound
  <1>6. agent \in [Agents -> AgentRec] BY <1>1, <1>5
  <1>7. Course(r, agent, net) BY <1>3, <1>5 DEF Course
  <1> QED BY <1>3, <1>5, <1>6, <1>7 DEF IInv

LEMMA NextInv == IInv /\ [Next]_vars => IInv'
  <1> SUFFICES ASSUME IInv, [Next]_vars PROVE IInv' OBVIOUS
  <1>1. ASSUME NEW a \in Agents, Step(a) PROVE IInv'
    <2>1. CASE OnMessage(a) BY <2>1, OnMessageInv
    <2>2. CASE OnRoleConflict(a) BY <2>2, OnRoleConflictInv
    <2>3. CASE SetIceProtocolType(a) BY <2>3, SetIceProtocolTypeInv
    <2>4. CASE OnCandidate(a) BY <2>4, OnCandidateInv
    <2>5. ASSUME NEW p \in Pairs \cup {None}, OnPing(a, p) PROVE IInv'
      BY <2>5, OnPingInv
    <2>6. ASSUME NEW p \in Pairs, PortCheckTimeout(a, p) PROVE IInv'
      BY <2>6, PortCheckTimeoutInv
    <2>7. ASSUME NEW p \in Pairs, Silence(a, p) PROVE IInv' BY <2>7, SilenceInv
    <2>8. ASSUME NEW p \in Pairs, Quiet(a, p) PROVE IInv' BY <2>8, QuietInv
    <2>9. ASSUME NEW p \in Pairs, NEW id \in 1 .. MaxReq, OnTimeout(a, p, id) PROVE IInv'
      BY <2>9, OnTimeoutInv
    <2> QED BY <1>1, <2>1, <2>2, <2>3, <2>4, <2>5, <2>6, <2>7, <2>8, <2>9 DEF Step
  <1>2. ASSUME NEW m \in net, ReceiveRequest(m.to, m) PROVE IInv'
    BY <1>2, ReceiveRequestInv
  <1>3. ASSUME NEW m \in net, ReceiveResponse(m.to, m) PROVE IInv'
    BY <1>3, ReceiveResponseInv
  <1>4. ASSUME NEW m \in net, Lose(m) PROVE IInv' BY <1>4, LoseInv
  <1>5. CASE UNCHANGED vars
    <2>1. agent' = agent /\ net' = net /\ protocol' = protocol /\ left' = left
      BY <1>5 DEF vars
    <2>2. \A a \in Agents : Sound(agent[a])' BY <2>1 DEF IInv, Sound
    <2> QED BY <2>1, <2>2 DEF IInv
  <1> QED BY <1>1, <1>2, <1>3, <1>4, <1>5 DEF Next

\* The invariant is one: whatever arrives, is lost or times out in whatever order,
\* each agent stays whole, and the two stay on the course of their first roles.
THEOREM Invariance == Spec => []IInv
  BY InitInv, NextInv, PTL DEF Spec

LEMMA InvTypeOK == IInv => TypeOK
  <1> SUFFICES ASSUME IInv PROVE TypeOK OBVIOUS
  <1>1. ASSUME NEW a \in Agents
        PROVE  /\ agent[a].proto \in {"HYBRID", protocol}
               /\ agent[a].role \in {"CONTROLLING", "CONTROLLED"}
               /\ agent[a].remote \cup agent[a].check \subseteq Pairs
               /\ agent[a].due \in Seq(Pairs)
    BY SoundAgent DEF Sound, AgentRec, Role
  <1>2. ASSUME NEW a \in Agents, NEW p \in Pairs
        PROVE  /\ agent[a].conn[p].read \in {"INIT", "READABLE", "TIMEOUT"}
               /\ agent[a].conn[p].write \in {"INIT", "WRITABLE", "UNRELIABLE", "TIMEOUT"}
               /\ agent[a].conn[p].reqs \subseteq 1 .. MaxReq
               /\ agent[a].port[p] \in {"HYBRID", "RFC5245", "GOOGLE", "gone"}
               /\ ~agent[a].conn[p].alive => agent[a].conn[p] = NoConn
    <2>1. agent[a] \in AgentRec /\ Whole(agent[a]) BY SoundAgent
    <2>2. agent[a].conn[p] \in ConnRec /\ agent[a].port[p] \in {"HYBRID", "gone"} \cup Known
      BY <2>1 DEF AgentRec
    <2>3. ~agent[a].conn[p].alive => agent[a].conn[p] = NoConn BY <2>1 DEF Whole
    <2> QED BY <2>2, <2>3 DEF ConnRec, Read, Write, Known
  <1> QED BY <1>1, <1>2 DEF TypeOK, IInv

LEMMA InvDeadUnused == IInv => DeadUnused
  <1> SUFFICES ASSUME IInv, NEW a \in Agents
               PROVE  /\ {agent[a].best, agent[a].pending} \subseteq Live(agent[a]) \cup {None}
                      /\ \A m \in Messages(agent[a]) :
                            m.msg = "DELETE" => m.pair \in Live(agent[a])
                      /\ \A p \in Live(agent[a]) : agent[a].port[p] # "gone"
    BY DEF DeadUnused
  <1> DEFINE g == agent[a]
  <1>1. Whole(g) BY SoundAgent
  <1>2. g.queue \in Seq(Posted(g)) BY <1>1 DEF Whole
  <1>3. Messages(g) \subseteq Posted(g)
    <2> HIDE DEF Posted, g
    <2> QED BY <1>2 DEF Messages
  <1>4. \A m \in Posted(g) : m.msg = "DELETE" => m.pair \in Live(g)
    BY DEF Posted, Sort, Delete
  <1> QED BY <1>1, <1>3, <1>4 DEF Whole

LEMMA InvRolesOnce == IInv => RolesOnce
  <1> SUFFICES ASSUME IInv, agent[A].switched, agent[B].switched PROVE FALSE
    BY DEF RolesOnce
  <1>1. PICK r \in Roles : Course(r, agent, net) BY DEF IInv
  <1>2. GivesIn(r, A) /\ GivesIn(r, B) BY <1>1 DEF Course, Agents
  <1> QED BY <1>2, AgentsAssumption DEF GivesIn

LEMMA InvChannelFollows == ASSUME Proper PROVE IInv => ChannelFollows
  <1> SUFFICES ASSUME IInv, NEW a \in Agents, agent[a].proto # "HYBRID", ~agent[a].dirty
               PROVE  /\ agent[a].writable = IsWritable(agent[a], agent[a].best)
                      /\ ~Follows(agent[a]) /\ IsWritable(agent[a], Top(agent[a], Live(agent[a])))
                            => agent[a].best = Top(agent[a], Live(agent[a]))
    BY DEF ChannelFollows
  <1>1. Chosen(agent[a]) BY SoundAgent DEF Sound
  <1> QED BY <1>1 DEF Chosen

\* The types of p2ptransportchannel.cc and port.cc: every state, message and
\* request is one the code can name, and a deleted connection leaves no request
\* for a late response to complete.
THEOREM TypeCorrect == Spec => []TypeOK
  BY Invariance, InvTypeOK, PTL

\* A Connection deletes itself by a message to its own thread.  No pointer of the
\* channel, no message and no request outlives it, and no port that has a
\* connection is destroyed, however the sorting, the pruning, the pings and the
\* timeouts of the two agents mix.
THEOREM DestroysUnused == Spec => []DeadUnused
  BY Invariance, InvDeadUnused, PTL

\* MaybeIceRoleConflict and OnRoleConflict: two agents that start with the same
\* role never both give it up, although each reports the conflict as often as an
\* old request or an old error tells of it.
THEOREM GivesInOnce == Spec => []RolesOnce
  BY Invariance, InvRolesOnce, PTL

\* Unless the two start as controlled both: whenever no sort is due the channel is
\* writable exactly if its best connection is, and an agent that decides by itself
\* uses the best of its writable connections.
THEOREM ChannelFollowsItsConnections ==
    ASSUME Proper PROVE Spec => []ChannelFollows
  BY Invariance, InvChannelFollows, PTL
=============================================================================
