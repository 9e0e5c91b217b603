-------------------------- MODULE PseudoTcpLemmas --------------------------
(***************************************************************************)
(* What each operation of PseudoTcp does to one endpoint, for any sizes,   *)
(* window scale and outcomes of the packet writes.                         *)
(*                                                                         *)
(* OK(x, L, C) is what holds of an endpoint x between and within its       *)
(* calls, when the other end has announced its window up to L and may cut  *)
(* what it sends at the sequence numbers C: the segment list tiles the     *)
(* send buffer, the timer runs while something is in flight, nothing is    *)
(* sent beyond L, and each packet written carries the bytes that belong at *)
(* its sequence number.  Clean(x) is what holds in addition of the receive *)
(* buffer: every byte lies where its sequence number says.  Level(x) is    *)
(* the part of it that counts bytes only.  The lemmas show that transmit,  *)
(* attemptSend, queue, process and the timers keep all three, and never    *)
(* take back what has been acknowledged or announced (Grows).              *)
(***************************************************************************)
EXTENDS PseudoTcp, ListLemmas

-----------------------------------------------------------------------------
(* Sequences and loops                                                     *)

LEMMA TakeIs ==
    ASSUME NEW S, NEW s \in Seq(S), NEW n \in 0 .. Len(s)
    PROVE  /\ Take(s, n) \in Seq(S) /\ Len(Take(s, n)) = n
           /\ \A i \in 1 .. n : Take(s, n)[i] = s[i]
  BY DEF Take

LEMMA DropIs ==
    ASSUME NEW S, NEW s \in Seq(S), NEW n \in 0 .. Len(s)
    PROVE  /\ Drop(s, n) \in Seq(S) /\ Len(Drop(s, n)) = Len(s) - n
           /\ \A i \in 1 .. Len(s) - n : Drop(s, n)[i] = s[n + i]
  <1>1. Len(s) \in Nat OBVIOUS
  <1> QED BY <1>1 DEF Drop

LEMMA ConcatIs ==
    ASSUME NEW S, NEW s \in Seq(S), NEW t \in Seq(S)
    PROVE  /\ s \o t \in Seq(S) /\ Len(s \o t) = Len(s) + Len(t)
           /\ \A i \in 1 .. Len(s) : (s \o t)[i] = s[i]
           /\ \A i \in 1 .. Len(t) : (s \o t)[Len(s) + i] = t[i]
  OBVIOUS

\* A loop: the states of a set that a step does not leave.
Stays(K, F) == F \in [K -> K]
Loops(K, b, F, N) ==
    \E f \in [0 .. N -> K] : f[0] = b /\ \A k \in 1 .. N : f[k] = F[f[k - 1]]

LEMMA Iterates ==
    ASSUME NEW K, NEW b \in K, NEW F, Stays(K, F), NEW N \in Nat
    PROVE  Loops(K, b, F, N)
  <1> DEFINE Good(n) == \E f \in [0 .. n -> K] :
                           f[0] = b /\ \A k \in 1 .. n : f[k] = F[f[k - 1]]
             P == {n \in Nat : Good(n)}
  <1>0. F \in [K -> K] BY DEF Stays
  <1>1. Good(0)
    <2> WITNESS [k \in 0 .. 0 |-> b] \in [0 .. 0 -> K]
    <2> QED OBVIOUS
  <1>2. ASSUME NEW n \in Nat, Good(n) PROVE Good(n + 1)
    <2>1. PICK f \in [0 .. n -> K] : f[0] = b /\ \A k \in 1 .. n : f[k] = F[f[k - 1]]
      BY <1>2
    <2> DEFINE g == [k \in 0 .. n + 1 |-> IF k <= n THEN f[k] ELSE F[f[n]]]
    <2>2. g \in [0 .. n + 1 -> K]
      <3>1. f[n] \in K OBVIOUS
      <3> QED BY <3>1, <1>0
    <2>3. g[0] = b BY <2>1
    <2>4. ASSUME NEW k \in 1 .. n + 1 PROVE g[k] = F[g[k - 1]]
      <3>1. CASE k <= n BY <3>1, <2>1
      <3>2. CASE k = n + 1 BY <3>2
      <3> QED BY <3>1, <3>2
    <2> QED BY <2>2, <2>3, <2>4
  <1>5. Nat \subseteq P
    <2> HIDE DEF Good
    <2>1. 0 \in P BY <1>1
    <2>2. \A n \in Nat : n \in P => n + 1 \in P BY <1>2
    <2> HIDE DEF P
    <2> QED BY <2>1, <2>2, SetInduction
  <1> QED BY <1>5 DEF Loops

-----------------------------------------------------------------------------
(* The segment list as a tiling of the send buffer                         *)

\* Where the first i segments end.
Bound(s, una, i) == IF i = 0 THEN una ELSE s[i].seq + s[i].len
\* The segments follow each other from una to end.
Tiles(s, una, end) ==
    /\ \A i \in 1 .. Len(s) : s[i].len > 0 /\ s[i].seq = Bound(s, una, i - 1)
    /\ end = Bound(s, una, Len(s))

LEMMA BoundsGrow ==
    ASSUME NEW s \in Seq(SSegment), NEW una \in Nat, NEW end, Tiles(s, una, end)
    PROVE  /\ \A i \in 0 .. Len(s) : Bound(s, una, i) \in Nat /\ Bound(s, una, i) >= una
           /\ \A i, j \in 0 .. Len(s) : i < j => Bound(s, una, i) < Bound(s, una, j)
           /\ end \in Nat
  <1>0. Len(s) \in Nat OBVIOUS
  <1>1. \A i \in 1 .. Len(s) : s[i].seq \in Nat /\ s[i].len \in Nat /\ s[i].len > 0
    <2>1. \A i \in 1 .. Len(s) : s[i] \in SSegment OBVIOUS
    <2>2. \A g \in SSegment : g.seq \in Nat /\ g.len \in Nat BY DEF SSegment
    <2> QED BY <2>1, <2>2 DEF Tiles
  <1>2. \A i \in 0 .. Len(s) : Bound(s, una, i) \in Nat BY <1>1 DEF Bound
  <1>3. \A i \in 1 .. Len(s) : Bound(s, una, i) = Bound(s, una, i - 1) + s[i].len
    BY <1>1 DEF Bound, Tiles
  <1> DEFINE P == {n \in Nat : \A i, j \in 0 .. Len(s) :
                      j = i + n + 1 => Bound(s, una, i) < Bound(s, una, j)}
  <1>4. 0 \in P
    <2> SUFFICES ASSUME NEW i \in 0 .. Len(s), NEW j \in 0 .. Len(s), j = i + 0 + 1
                 PROVE  Bound(s, una, i) < Bound(s, una, j)
      OBVIOUS
    <2>1. j \in 1 .. Len(s) /\ j - 1 = i OBVIOUS
    <2>2. Bound(s, una, j) = Bound(s, una, i) + s[j].len BY <2>1, <1>3
    <2>3. s[j].len \in Nat /\ s[j].len > 0 BY <2>1, <1>1
    <2> QED BY <2>2, <2>3, <1>2
  <1>5. ASSUME NEW n \in Nat, n \in P PROVE n + 1 \in P
    <2> SUFFICES ASSUME NEW i \in 0 .. Len(s), NEW j \in 0 .. Len(s), j = i + (n + 1) + 1
                 PROVE  Bound(s, una, i) < Bound(s, una, j)
      OBVIOUS
    <2>1. j \in 1 .. Len(s) /\ j - 1 \in 0 .. Len(s) /\ j - 1 = i + n + 1 OBVIOUS
    <2>2. Bound(s, una, i) < Bound(s, una, j - 1) BY <1>5, <2>1
    <2>3. Bound(s, una, j) = Bound(s, una, j - 1) + s[j].len BY <2>1, <1>3
    <2>4. s[j].len \in Nat /\ s[j].len > 0 BY <2>1, <1>1
    <2>5. Bound(s, una, i) \in Nat /\ Bound(s, una, j - 1) \in Nat BY <2>1, <1>2
    <2> QED BY <2>2, <2>3, <2>4, <2>5
  <1>6. Nat \subseteq P
    <2> HIDE DEF P
    <2> QED BY <1>4, <1>5, SetInduction
  <1>7. ASSUME NEW i \in 0 .. Len(s), NEW j \in 0 .. Len(s), i < j
        PROVE  Bound(s, una, i) < Bound(s, una, j)
    <2>0. j - i - 1 \in Nat BY <1>0, <1>7
    <2>1. j - i - 1 \in P BY <1>6, <2>0
    <2>2. j = i + (j - i - 1) + 1 OBVIOUS
    <2> QED BY <2>1, <2>2
  <1>8. \A i \in 0 .. Len(s) : Bound(s, una, i) >= una
    <2> TAKE i \in 0 .. Len(s)
    <2>1. CASE i = 0 BY <2>1 DEF Bound
    <2>2. CASE i > 0
      <3>1. Bound(s, una, 0) = una BY DEF Bound
      <3>2. Bound(s, una, 0) < Bound(s, una, i) BY <2>2, <1>7, <1>0
      <3> QED BY <3>1, <3>2, <1>2
    <2> QED BY <2>1, <2>2
  <1>9. end \in Nat BY <1>0, <1>2 DEF Tiles
  <1> QED BY <1>2, <1>7, <1>8, <1>9

\* A segment cut in two.
Cuts2(t, s, i, n) ==
    /\ t \in Seq(SSegment) /\ Len(t) = Len(s) + 1
    /\ \A j \in 1 .. i - 1 : t[j] = s[j]
    /\ t[i] = [s[i] EXCEPT !.len = n]
    /\ t[i + 1] = [s[i] EXCEPT !.seq = @ + n, !.len = @ - n]
    /\ \A j \in i + 2 .. Len(s) + 1 : t[j] = s[j - 1]

LEMMA SplitIs ==
    ASSUME NEW s \in Seq(SSegment), NEW i \in 1 .. Len(s), NEW n \in Nat, n < s[i].len
    PROVE  Cuts2(Split(s, i, n), s, i, n)
  <1>0. Len(s) \in Nat OBVIOUS
  <1> DEFINE a == [s[i] EXCEPT !.len = n]
             b == [s[i] EXCEPT !.seq = @ + n, !.len = @ - n]
  <1>1. s[i] \in SSegment OBVIOUS
  <1>2. a \in SSegment /\ b \in SSegment
    <2>1. s[i].len - n \in Nat /\ s[i].seq + n \in Nat BY <1>1 DEF SSegment
    <2> QED BY <1>1, <2>1 DEF SSegment
  <1>3. Split(s, i, n) = Take(s, i - 1) \o <<a, b>> \o Drop(s, i)
    <2>1. ~(n >= s[i].len) BY <1>1 DEF SSegment
    <2> QED BY <2>1 DEF Split
  <1> DEFINE v == Take(s, i - 1)
             w == Drop(s, i)
             ab == <<a, b>>
  <1>4. /\ v \in Seq(SSegment) /\ Len(v) = i - 1
        /\ \A j \in 1 .. i - 1 : v[j] = s[j]
    <2>1. i - 1 \in 0 .. Len(s) BY <1>0
    <2> QED BY <2>1, TakeIs
  <1>5. /\ w \in Seq(SSegment) /\ Len(w) = Len(s) - i
        /\ \A j \in 1 .. Len(s) - i : w[j] = s[i + j]
    <2>1. i \in 0 .. Len(s) BY <1>0
    <2> QED BY <2>1, DropIs
  <1> HIDE DEF a, b
  <1>6. ab \in Seq(SSegment) /\ Len(ab) = 2 /\ ab[1] = a /\ ab[2] = b BY <1>2
  <1> DEFINE u == v \o ab
             t == u \o w
  <1>10. Split(s, i, n) = t BY <1>3
  <1> HIDE DEF v, w, ab
  <1>7. /\ u \in Seq(SSegment) /\ Len(u) = i + 1
        /\ \A j \in 1 .. i - 1 : u[j] = s[j]
        /\ u[i] = a /\ u[i + 1] = b
    <2>1. /\ u \in Seq(SSegment) /\ Len(u) = Len(v) + Len(ab)
          /\ \A j \in 1 .. Len(v) : u[j] = v[j]
          /\ \A j \in 1 .. Len(ab) : u[Len(v) + j] = ab[j]
      <3>1. v \in Seq(SSegment) /\ ab \in Seq(SSegment) BY <1>4, <1>6
      <3> QED BY <3>1
    <2> HIDE DEF u
    <2>2. u[Len(v) + 1] = a /\ u[Len(v) + 2] = b BY <2>1, <1>6
    <2> QED BY <2>1, <2>2, <1>4, <1>6
  <1> HIDE DEF u
  <1>8. /\ t \in Seq(SSegment) /\ Len(t) = Len(s) + 1
        /\ \A j \in 1 .. i + 1 : t[j] = u[j]
        /\ \A j \in 1 .. Len(s) - i : t[i + 1 + j] = s[i + j]
    <2>1. /\ t \in Seq(SSegment) /\ Len(t) = Len(u) + Len(w)
          /\ \A j \in 1 .. Len(u) : t[j] = u[j]
          /\ \A j \in 1 .. Len(w) : t[Len(u) + j] = w[j]
      <3>1. u \in Seq(SSegment) /\ w \in Seq(SSegment) BY <1>5, <1>7
      <3> QED BY <3>1
    <2> HIDE DEF t
    <2> QED BY <2>1, <1>0, <1>5, <1>7
  <1> HIDE DEF t
  <1>9. ASSUME NEW j \in i + 2 .. Len(s) + 1 PROVE t[j] = s[j - 1]
    <2>1. j - i - 1 \in 1 .. Len(s) - i BY <1>0
    <2>2. t[i + 1 + (j - i - 1)] = s[i + (j - i - 1)] BY <1>8, <2>1
    <2>3. i + 1 + (j - i - 1) = j /\ i + (j - i - 1) = j - 1 OBVIOUS
    <2> QED BY <2>2, <2>3
  <1>11. t[i] = a /\ t[i + 1] = b /\ \A j \in 1 .. i - 1 : t[j] = s[j] BY <1>7, <1>8, <1>0
  <1> QED BY <1>8, <1>9, <1>10, <1>11 DEF Cuts2, a, b


\* The kinds of the segments: those of the connect message come first.
Kinds(s) ==
    \A i \in 1 .. Len(s) : /\ s[i].ctl <=> s[i].seq < CtlLen
                           /\ s[i].ctl => s[i].seq + s[i].len <= CtlLen
\* The first m segments, up to nxt, have been sent.
Tiling(s, una, nxt, end, m) ==
    /\ Tiles(s, una, end) /\ Kinds(s)
    /\ m \in 0 .. Len(s) /\ nxt = Bound(s, una, m)
    /\ \A i \in 1 .. Len(s) : s[i].xmit > 0 <=> i <= m
\* Where an acknowledgement may fall: what has been sent ends there.
Cuts(s, una) ==
    {c \in Nat : \/ c <= una
                 \/ \E i \in 1 .. Len(s) : s[i].xmit > 0 /\ c = s[i].seq + s[i].len}

LEMMA SegFields ==
    /\ \A g \in SSegment : g.seq \in Nat /\ g.len \in Nat /\ g.xmit \in Nat /\ g.ctl \in BOOLEAN
    /\ \A s \in Seq(SSegment) : Len(s) \in Nat /\ \A i \in 1 .. Len(s) : s[i] \in SSegment
  <1>1. \A g \in SSegment : g.seq \in Nat /\ g.len \in Nat /\ g.xmit \in Nat /\ g.ctl \in BOOLEAN
    BY DEF SSegment
  <1>2. \A s \in Seq(SSegment) : Len(s) \in Nat /\ \A i \in 1 .. Len(s) : s[i] \in SSegment
    OBVIOUS
  <1> QED BY <1>1, <1>2

\* A sent segment ends at or before nxt.
LEMMA CutsBelow ==
    ASSUME NEW s \in Seq(SSegment), NEW una \in Nat, NEW nxt, NEW end, NEW m,
           Tiling(s, una, nxt, end, m)
    PROVE  /\ nxt \in Nat /\ una <= nxt /\ nxt <= end /\ end \in Nat /\ m \in Nat
           /\ \A c \in Cuts(s, una) : c <= nxt
           /\ una \in Cuts(s, una) /\ nxt \in Cuts(s, una)
           /\ nxt = una <=> m = 0
  <1>0. Len(s) \in Nat /\ m \in 0 .. Len(s) /\ Tiles(s, una, end) BY DEF Tiling
  <1>1. /\ \A i \in 0 .. Len(s) : Bound(s, una, i) \in Nat /\ Bound(s, una, i) >= una
        /\ \A i, j \in 0 .. Len(s) : i < j => Bound(s, una, i) < Bound(s, una, j)
        /\ end \in Nat
    BY <1>0, BoundsGrow
  <1>2. nxt = Bound(s, una, m) /\ end = Bound(s, una, Len(s)) /\ Bound(s, una, 0) = una
    BY DEF Tiling, Tiles, Bound
  <1>3. nxt \in Nat /\ una <= nxt BY <1>0, <1>1, <1>2
  <1>4. nxt <= end
    <2>1. CASE m = Len(s) BY <2>1, <1>2, <1>3
    <2>2. CASE m < Len(s)
      <3>1. Bound(s, una, m) < Bound(s, una, Len(s)) BY <2>2, <1>0, <1>1
      <3> QED BY <3>1, <1>1, <1>2, <1>3
    <2> QED BY <2>1, <2>2, <1>0
  <1>5. ASSUME NEW c \in Cuts(s, una) PROVE c <= nxt
    <2>0. c \in Nat BY DEF Cuts
    <2>1. CASE c <= una BY <2>0, <2>1, <1>3
    <2>2. CASE \E i \in 1 .. Len(s) : s[i].xmit > 0 /\ c = s[i].seq + s[i].len
      <3>1. PICK i \in 1 .. Len(s) : s[i].xmit > 0 /\ c = s[i].seq + s[i].len BY <2>2
      <3>2. i <= m /\ c = Bound(s, una, i) BY <3>1, <1>0 DEF Tiling, Bound
      <3>3. CASE i = m BY <3>2, <3>3, <1>2, <1>3
      <3>4. CASE i < m
        <4>1. Bound(s, una, i) < Bound(s, una, m) BY <3>4, <1>0, <1>1
        <4> QED BY <4>1, <3>2, <2>0, <1>2, <1>3
      <3> QED BY <3>2, <3>3, <3>4, <1>0
    <2> QED BY <2>1, <2>2 DEF Cuts
  <1>6. una \in Cuts(s, una) BY DEF Cuts
  <1>7. nxt \in Cuts(s, una)
    <2>1. CASE m = 0 BY <2>1, <1>2, <1>6
    <2>2. CASE m > 0
      <3>1. m \in 1 .. Len(s) /\ nxt = s[m].seq + s[m].len BY <2>2, <1>0, <1>2 DEF Bound
      <3>2. s[m].xmit > 0 BY <3>1 DEF Tiling
      <3> QED BY <3>1, <3>2, <1>3 DEF Cuts
    <2> QED BY <2>1, <2>2, <1>0
  <1>8. nxt = una <=> m = 0
    <2>1. CASE m = 0 BY <2>1, <1>2
    <2>2. CASE m > 0
      <3>1. Bound(s, una, 0) < Bound(s, una, m) BY <2>2, <1>0, <1>1
      <3> QED BY <2>2, <3>1, <1>2, <1>3
    <2> QED BY <2>1, <2>2, <1>0
  <1>9. m \in Nat BY <1>0
  <1> QED BY <1>1, <1>3, <1>4, <1>5, <1>6, <1>7, <1>8, <1>9

LEMMA SplitTiling ==
    ASSUME NEW s \in Seq(SSegment), NEW una \in Nat, NEW nxt, NEW end, NEW m,
           Tiling(s, una, nxt, end, m), NEW i \in 1 .. Len(s),
           NEW n \in Nat \ {0}, n < s[i].len, NEW t, Cuts2(t, s, i, n)
    PROVE  /\ i <= m => Tiling(t, una, nxt, end, m + 1)
           /\ i > m => Tiling(t, una, nxt, end, m)
           /\ Cuts(s, una) \subseteq Cuts(t, una)
  <1>0. /\ Len(s) \in Nat /\ Len(t) = Len(s) + 1 /\ t \in Seq(SSegment)
        /\ m \in 0 .. Len(s)
    BY DEF Cuts2, Tiling
  <1>1. \A j \in 1 .. Len(s) : /\ s[j].seq \in Nat /\ s[j].len \in Nat /\ s[j].xmit \in Nat
                               /\ s[j] \in SSegment
    BY SegFields
  <1>2. \A j \in 1 .. i - 1 : t[j] = s[j] BY DEF Cuts2
  <1>3. \A j \in i + 2 .. Len(s) + 1 : t[j] = s[j - 1] BY DEF Cuts2
  <1>4. /\ t[i].seq = s[i].seq /\ t[i].len = n
        /\ t[i].xmit = s[i].xmit /\ t[i].ctl = s[i].ctl
    <2>1. t[i] = [s[i] EXCEPT !.len = n] BY DEF Cuts2
    <2> QED BY <2>1, <1>1 DEF SSegment
  <1>5. /\ t[i + 1].seq = s[i].seq + n /\ t[i + 1].len = s[i].len - n
        /\ t[i + 1].xmit = s[i].xmit /\ t[i + 1].ctl = s[i].ctl
    <2>1. t[i + 1] = [s[i] EXCEPT !.seq = @ + n, !.len = @ - n] BY DEF Cuts2
    <2> QED BY <2>1, <1>1 DEF SSegment
  <1>6. \A j \in 1 .. Len(s) : s[j].len > 0 /\ s[j].seq = Bound(s, una, j - 1)
    BY DEF Tiling, Tiles
  <1>17. /\ t[i + 1].seq + t[i + 1].len = s[i].seq + s[i].len
         /\ s[i].seq <= t[i + 1].seq /\ t[i + 1].seq < s[i].seq + s[i].len
         /\ s[i].seq <= t[i].seq /\ t[i].seq < s[i].seq + s[i].len
         /\ t[i].seq + t[i].len <= s[i].seq + s[i].len
    <2> DEFINE q == s[i].seq
               l == s[i].len
               u == t[i + 1].seq
               v == t[i + 1].len
    <2>1. q \in Nat /\ l \in Nat /\ u = q + n /\ v = l - n /\ n < l BY <1>1, <1>5
    <2>2. t[i].seq = q /\ t[i].len = n BY <1>4
    <2> SUFFICES /\ u + v = q + l /\ q <= u /\ u < q + l
                 /\ q <= t[i].seq /\ t[i].seq < q + l /\ t[i].seq + t[i].len <= q + l
      OBVIOUS
    <2> HIDE DEF q, l, u, v
    <2> QED BY <2>1, <2>2
  <1>7. \A j \in 0 .. i - 1 : Bound(t, una, j) = Bound(s, una, j)
    BY <1>2, <1>0 DEF Bound
  <1>8. \A j \in i + 1 .. Len(s) + 1 : Bound(t, una, j) = Bound(s, una, j - 1)
    <2> TAKE j \in i + 1 .. Len(s) + 1
    <2>1. CASE j = i + 1
      <3>1. j # 0 /\ j - 1 = i /\ i # 0 BY <2>1, <1>0
      <3> QED BY <2>1, <3>1, <1>17 DEF Bound
    <2>2. CASE j > i + 1
      <3>1. j \in i + 2 .. Len(s) + 1 BY <2>2, <1>0
      <3>2. t[j] = s[j - 1] BY <3>1, <1>3
      <3>3. j # 0 /\ j - 1 # 0 BY <3>1, <1>0
      <3> QED BY <3>2, <3>3 DEF Bound
    <2> QED BY <2>1, <2>2, <1>0
  <1>9. Tiles(t, una, end)
    <2>1. ASSUME NEW j \in 1 .. Len(t)
          PROVE  t[j].len > 0 /\ t[j].seq = Bound(t, una, j - 1)
      <3>1. CASE j <= i - 1
        <4>1. j \in 1 .. i - 1 /\ j \in 1 .. Len(s) /\ j - 1 \in 0 .. i - 1 BY <3>1, <1>0
        <4> QED BY <4>1, <1>2, <1>6, <1>7
      <3>2. CASE j = i
        <4>1. j - 1 \in 0 .. i - 1 BY <3>2, <1>0
        <4> QED BY <4>1, <3>2, <1>4, <1>6, <1>7
      <3>3. CASE j = i + 1
        <4>1. Bound(t, una, i) = s[i].seq + n BY <1>4, <1>0 DEF Bound
        <4>2. j - 1 = i BY <3>3
        <4> QED BY <4>1, <4>2, <3>3, <1>5, <1>1
      <3>4. CASE j > i + 1
        <4>1. j \in i + 2 .. Len(s) + 1 /\ j - 1 \in i + 1 .. Len(s) + 1 /\ j - 1 \in 1 .. Len(s)
          BY <3>4, <1>0
        <4>2. t[j] = s[j - 1] /\ Bound(t, una, j - 1) = Bound(s, una, (j - 1) - 1)
          BY <4>1, <1>3, <1>8
        <4> QED BY <4>1, <4>2, <1>6
      <3> QED BY <3>1, <3>2, <3>3, <3>4, <1>0
    <2>2. end = Bound(s, una, Len(s)) BY DEF Tiling, Tiles
    <2>3. Bound(t, una, Len(t)) = Bound(s, una, Len(s))
      <3>1. Len(s) + 1 \in i + 1 .. Len(s) + 1 /\ (Len(s) + 1) - 1 = Len(s) BY <1>0
      <3> QED BY <3>1, <1>0, <1>8
    <2> QED BY <2>1, <2>2, <2>3 DEF Tiles
  <1>10. \A j \in 1 .. Len(t) : \E k \in 1 .. Len(s) :
            /\ t[j].ctl = s[k].ctl /\ t[j].xmit = s[k].xmit
            /\ s[k].seq <= t[j].seq /\ t[j].seq < s[k].seq + s[k].len
            /\ t[j].seq + t[j].len <= s[k].seq + s[k].len
            /\ k = IF j <= i THEN j ELSE j - 1
    <2> TAKE j \in 1 .. Len(t)
    <2>5. \A k \in 1 .. Len(s) : /\ s[k].seq <= s[k].seq /\ s[k].seq < s[k].seq + s[k].len
                                 /\ s[k].seq + s[k].len <= s[k].seq + s[k].len
      <3>1. \A q, l \in Nat : l > 0 => q <= q /\ q < q + l /\ q + l <= q + l OBVIOUS
      <3> QED BY <3>1, <1>1, <1>6
    <2>1. CASE j <= i - 1
      <3>1. j \in 1 .. i - 1 /\ j \in 1 .. Len(s) BY <2>1, <1>0
      <3>2. t[j] = s[j] BY <3>1, <1>2
      <3>3. j = IF j <= i THEN j ELSE j - 1 BY <2>1, <1>0
      <3> QED BY <3>1, <3>2, <3>3, <2>5
    <2>2. CASE j = i
      <3>1. i = IF j <= i THEN j ELSE j - 1 BY <2>2
      <3> QED BY <2>2, <3>1, <1>4, <1>17
    <2>3. CASE j = i + 1
      <3>1. i = IF j <= i THEN j ELSE j - 1 BY <2>3
      <3>2. t[j].seq + t[j].len <= s[i].seq + s[i].len
        <4>1. \A q, l \in Nat : q + l <= q + l OBVIOUS
        <4> QED BY <4>1, <2>3, <1>17, <1>1
      <3> QED BY <3>1, <3>2, <2>3, <1>5, <1>17
    <2>4. CASE j > i + 1
      <3>1. j \in i + 2 .. Len(s) + 1 /\ j - 1 \in 1 .. Len(s) BY <2>4, <1>0
      <3>2. t[j] = s[j - 1] BY <3>1, <1>3
      <3>3. j - 1 = IF j <= i THEN j ELSE j - 1 BY <2>4
      <3> QED BY <3>1, <3>2, <3>3, <2>5
    <2> QED BY <2>1, <2>2, <2>3, <2>4, <1>0
  <1>11. Kinds(t)
    <2> SUFFICES ASSUME NEW j \in 1 .. Len(t)
                 PROVE  /\ t[j].ctl <=> t[j].seq < CtlLen
                        /\ t[j].ctl => t[j].seq + t[j].len <= CtlLen
      BY DEF Kinds
    <2>1. PICK k \in 1 .. Len(s) :
            /\ t[j].ctl = s[k].ctl
            /\ s[k].seq <= t[j].seq /\ t[j].seq < s[k].seq + s[k].len
            /\ t[j].seq + t[j].len <= s[k].seq + s[k].len
      BY <1>10
    <2>2. s[k].ctl <=> s[k].seq < CtlLen BY DEF Tiling, Kinds
    <2>3. s[k].ctl => s[k].seq + s[k].len <= CtlLen BY DEF Tiling, Kinds
    <2>4. t[j].seq \in Nat /\ t[j].len \in Nat /\ CtlLen \in Nat BY <1>0, SegFields, SizeAssumption
    <2>5. s[k].seq \in Nat /\ s[k].len \in Nat /\ t[j].ctl \in BOOLEAN /\ s[k].ctl \in BOOLEAN
      BY <1>0, SegFields
    <2> DEFINE q == s[k].seq
               l == s[k].len
               u == t[j].seq
               v == t[j].len
    <2>6. /\ q \in Nat /\ l \in Nat /\ u \in Nat /\ v \in Nat
          /\ q <= u /\ u < q + l /\ u + v <= q + l
      BY <2>1, <2>4, <2>5
    <2>9. s[k].ctl = TRUE => q < CtlLen /\ q + l <= CtlLen BY <2>2, <2>3
    <2>10. s[k].ctl = FALSE => ~(q < CtlLen) BY <2>2
    <2> SUFFICES (t[j].ctl <=> u < CtlLen) /\ (t[j].ctl => u + v <= CtlLen) OBVIOUS
    <2> HIDE DEF q, l, u, v
    <2>7. CASE s[k].ctl = TRUE
      <3>1. u < CtlLen /\ u + v <= CtlLen BY <2>4, <2>6, <2>7, <2>9
      <3> QED BY <3>1, <2>1, <2>7
    <2>8. CASE s[k].ctl = FALSE
      <3>1. ~(u < CtlLen) BY <2>4, <2>6, <2>8, <2>10
      <3> QED BY <3>1, <2>1, <2>8
    <2> QED BY <2>5, <2>7, <2>8
  <1>12. \A j \in 1 .. Len(s) : s[j].xmit > 0 <=> j <= m BY DEF Tiling
  <1>13. nxt = Bound(s, una, m) BY DEF Tiling
  <1>14. ASSUME i <= m PROVE Tiling(t, una, nxt, end, m + 1)
    <2>1. m + 1 \in i + 1 .. Len(s) + 1 /\ (m + 1) - 1 = m /\ m + 1 \in 0 .. Len(t)
      BY <1>0, <1>14
    <2>2. nxt = Bound(t, una, m + 1) BY <2>1, <1>8, <1>13
    <2>3. ASSUME NEW j \in 1 .. Len(t) PROVE t[j].xmit > 0 <=> j <= m + 1
      <3>1. PICK k \in 1 .. Len(s) : /\ t[j].xmit = s[k].xmit
                                     /\ k = IF j <= i THEN j ELSE j - 1 BY <1>10
      <3> QED BY <3>1, <1>12, <1>14, <1>0
    <2> QED BY <2>1, <2>2, <2>3, <1>9, <1>11 DEF Tiling
  <1>15. ASSUME i > m PROVE Tiling(t, una, nxt, end, m)
    <2>1. m \in 0 .. i - 1 /\ m \in 0 .. Len(t) BY <1>0, <1>15
    <2>2. nxt = Bound(t, una, m) BY <2>1, <1>7, <1>13
    <2>3. ASSUME NEW j \in 1 .. Len(t) PROVE t[j].xmit > 0 <=> j <= m
      <3>1. PICK k \in 1 .. Len(s) : /\ t[j].xmit = s[k].xmit
                                     /\ k = IF j <= i THEN j ELSE j - 1 BY <1>10
      <3> QED BY <3>1, <1>12, <1>15, <1>0
    <2> QED BY <2>1, <2>2, <2>3, <1>9, <1>11 DEF Tiling
  <1>16. ASSUME NEW c \in Cuts(s, una) PROVE c \in Cuts(t, una)
    <2>1. CASE c <= una BY <2>1, <1>16 DEF Cuts
    <2>2. CASE \E j \in 1 .. Len(s) : s[j].xmit > 0 /\ c = s[j].seq + s[j].len
      <3>1. PICK j \in 1 .. Len(s) : s[j].xmit > 0 /\ c = s[j].seq + s[j].len BY <2>2
      <3>2. \E k \in 1 .. Len(t) : t[k].xmit > 0 /\ c = t[k].seq + t[k].len
        <4>1. CASE j < i
          <5>1. j \in 1 .. i - 1 /\ j \in 1 .. Len(t) BY <4>1, <1>0
          <5> QED BY <5>1, <3>1, <1>2
        <4>2. CASE j = i
          <5>1. i + 1 \in 1 .. Len(t) BY <1>0
          <5>2. t[i + 1].xmit > 0 BY <4>2, <3>1, <1>5
          <5>3. c = t[i + 1].seq + t[i + 1].len BY <4>2, <3>1, <1>17
          <5> QED BY <5>1, <5>2, <5>3
        <4>3. CASE j > i
          <5>1. j + 1 \in i + 2 .. Len(s) + 1 /\ j + 1 \in 1 .. Len(t) /\ (j + 1) - 1 = j
            BY <4>3, <1>0
          <5>2. t[j + 1] = s[j] BY <5>1, <1>3
          <5> QED BY <5>1, <5>2, <3>1
        <4> QED BY <4>1, <4>2, <4>3
      <3> QED BY <3>2, <1>16 DEF Cuts
    <2> QED BY <2>1, <2>2 DEF Cuts
  <1> QED BY <1>14, <1>15, <1>16

\* A segment counts one transmission more.
Mark(s, i) == [s EXCEPT ![i].xmit = @ + 1]

LEMMA MarkTiling ==
    ASSUME NEW s \in Seq(SSegment), NEW una \in Nat, NEW nxt, NEW end, NEW m,
           Tiling(s, una, nxt, end, m), NEW i \in 1 .. Len(s), i <= m + 1,
           NEW t, t = Mark(s, i)
    PROVE  /\ t \in Seq(SSegment) /\ Len(t) = Len(s)
           /\ i <= m => Tiling(t, una, nxt, end, m)
           /\ i = m + 1 => Tiling(t, una, s[i].seq + s[i].len, end, m + 1)
           /\ Cuts(s, una) \subseteq Cuts(t, una)
           /\ s[i].seq + s[i].len \in Cuts(t, una)
           /\ \A j \in 1 .. Len(s) : t[j].ctl = s[j].ctl /\ t[j].seq = s[j].seq /\ t[j].len = s[j].len
           /\ \A j \in 1 .. Len(s) : t[j].xmit > 0 <=> (s[j].xmit > 0 \/ j = i)
  <1> DEFINE k == s[i].xmit + 1
             g == [s[i] EXCEPT !.xmit = k]
  <1>0. Len(s) \in Nat /\ m \in 0 .. Len(s) BY DEF Tiling
  <1>1. s[i] \in SSegment /\ s[i].xmit \in Nat /\ k \in Nat /\ k > 0 BY SegFields
  <1>2. t = [s EXCEPT ![i] = g] BY DEF Mark
  <1> HIDE DEF k
  <1>3. /\ g \in SSegment /\ g.seq = s[i].seq /\ g.len = s[i].len /\ g.ctl = s[i].ctl
        /\ g.xmit = k
    BY <1>1 DEF SSegment
  <1> HIDE DEF g
  <1>4. t \in Seq(SSegment) /\ Len(t) = Len(s) BY <1>2, <1>3
  <1>5. t[i] = g /\ \A j \in 1 .. Len(s) : j # i => t[j] = s[j] BY <1>2
  <1>6. \A j \in 1 .. Len(s) : t[j].ctl = s[j].ctl /\ t[j].seq = s[j].seq /\ t[j].len = s[j].len
    <2> TAKE j \in 1 .. Len(s)
    <2> QED BY <1>3, <1>5
  <1>7. \A j \in 0 .. Len(s) : Bound(t, una, j) = Bound(s, una, j)
    <2> TAKE j \in 0 .. Len(s)
    <2>1. CASE j = 0 BY <2>1 DEF Bound
    <2>2. CASE j # 0
      <3>1. j \in 1 .. Len(s) BY <2>2, <1>0
      <3> QED BY <2>2, <3>1, <1>6 DEF Bound
    <2> QED BY <2>1, <2>2
  <1>8. Tiles(t, una, end)
    <2>1. ASSUME NEW j \in 1 .. Len(t)
          PROVE  t[j].len > 0 /\ t[j].seq = Bound(t, una, j - 1)
      <3>1. j \in 1 .. Len(s) /\ j - 1 \in 0 .. Len(s) BY <1>0, <1>4
      <3>2. s[j].len > 0 /\ s[j].seq = Bound(s, una, j - 1) BY <3>1 DEF Tiling, Tiles
      <3> QED BY <3>1, <3>2, <1>6, <1>7
    <2>2. end = Bound(s, una, Len(s)) BY DEF Tiling, Tiles
    <2>3. Len(s) \in 0 .. Len(s) BY <1>0
    <2>4. end = Bound(t, una, Len(t)) BY <2>2, <2>3, <1>4, <1>7
    <2> QED BY <2>1, <2>4 DEF Tiles
  <1>9. Kinds(t)
    <2> SUFFICES ASSUME NEW j \in 1 .. Len(t)
                 PROVE  /\ t[j].ctl <=> t[j].seq < CtlLen
                        /\ t[j].ctl => t[j].seq + t[j].len <= CtlLen
      BY DEF Kinds
    <2>1. j \in 1 .. Len(s) BY <1>4
    <2>2. /\ s[j].ctl <=> s[j].seq < CtlLen
          /\ s[j].ctl => s[j].seq + s[j].len <= CtlLen
      BY <2>1 DEF Tiling, Kinds
    <2> QED BY <2>1, <2>2, <1>6
  <1>10. \A j \in 1 .. Len(s) : s[j].xmit > 0 <=> j <= m BY DEF Tiling
  <1>11. \A j \in 1 .. Len(s) : t[j].xmit > 0 <=> (j <= m \/ j = i)
    <2> TAKE j \in 1 .. Len(s)
    <2>1. CASE j = i BY <2>1, <1>1, <1>3, <1>5
    <2>2. CASE j # i BY <2>2, <1>5, <1>10
    <2> QED BY <2>1, <2>2
  <1>12. ASSUME i <= m PROVE Tiling(t, una, nxt, end, m)
    <2>1. nxt = Bound(t, una, m) BY <1>0, <1>7 DEF Tiling
    <2>2. \A j \in 1 .. Len(t) : t[j].xmit > 0 <=> j <= m BY <1>4, <1>11, <1>12
    <2> QED BY <2>1, <2>2, <1>0, <1>4, <1>8, <1>9 DEF Tiling
  <1>13. ASSUME i = m + 1 PROVE Tiling(t, una, s[i].seq + s[i].len, end, m + 1)
    <2>1. m + 1 \in 0 .. Len(t) /\ m + 1 \in 0 .. Len(s) /\ m + 1 # 0 BY <1>0, <1>4, <1>13
    <2>2. Bound(t, una, m + 1) = s[i].seq + s[i].len BY <2>1, <1>7, <1>13 DEF Bound
    <2>3. \A j \in 1 .. Len(t) : t[j].xmit > 0 <=> j <= m + 1 BY <1>0, <1>4, <1>11, <1>13
    <2> QED BY <2>1, <2>2, <2>3, <1>8, <1>9 DEF Tiling
  <1>14. ASSUME NEW c \in Cuts(s, una) PROVE c \in Cuts(t, una)
    <2>1. CASE c <= una BY <2>1 DEF Cuts
    <2>2. CASE \E j \in 1 .. Len(s) : s[j].xmit > 0 /\ c = s[j].seq + s[j].len
      <3>1. PICK j \in 1 .. Len(s) : s[j].xmit > 0 /\ c = s[j].seq + s[j].len BY <2>2
      <3>2. j \in 1 .. Len(t) /\ t[j].xmit > 0 /\ c = t[j].seq + t[j].len
        BY <3>1, <1>4, <1>6, <1>10, <1>11
      <3> QED BY <3>2 DEF Cuts
    <2> QED BY <2>1, <2>2 DEF Cuts
  <1>15. s[i].seq + s[i].len \in Cuts(t, una)
    <2>1. t[i].xmit > 0 /\ i \in 1 .. Len(t) BY <1>4, <1>11
    <2>2. s[i].seq + s[i].len = t[i].seq + t[i].len BY <1>6
    <2>3. s[i].seq + s[i].len \in Nat BY SegFields
    <2> QED BY <2>1, <2>2, <2>3 DEF Cuts
  <1>16. \A j \in 1 .. Len(s) : t[j].xmit > 0 <=> (s[j].xmit > 0 \/ j = i) BY <1>10, <1>11
  <1> QED BY <1>4, <1>6, <1>12, <1>13, <1>14, <1>15, <1>16

\* Split leaves the bytes before it, and the segment it cuts begins where it did.
LEMMA SplitAny ==
    ASSUME NEW s \in Seq(SSegment), NEW una \in Nat, NEW nxt, NEW end, NEW m,
           Tiling(s, una, nxt, end, m), NEW i \in 1 .. Len(s), NEW n \in Nat \ {0},
           NEW t, t = Split(s, i, n)
    PROVE  /\ t \in Seq(SSegment) /\ i \in 1 .. Len(t) /\ Len(t) >= Len(s)
           /\ i <= m => \E k \in Nat : k >= m /\ Tiling(t, una, nxt, end, k)
           /\ i > m => Tiling(t, una, nxt, end, m)
           /\ Cuts(s, una) \subseteq Cuts(t, una)
           /\ t[i].seq = s[i].seq /\ t[i].xmit = s[i].xmit /\ t[i].ctl = s[i].ctl
           /\ t[i].len = Least(n, s[i].len)
  <1>0. Len(s) \in Nat /\ m \in 0 .. Len(s) /\ m \in Nat BY DEF Tiling
  <1>1. s[i] \in SSegment /\ s[i].len \in Nat BY SegFields
  <1>2. CASE n >= s[i].len
    <2>1. t = s BY <1>2 DEF Split
    <2>2. Least(n, s[i].len) = s[i].len BY <1>1, <1>2 DEF Least
    <2> QED BY <2>1, <2>2, <1>0
  <1>3. CASE n < s[i].len
    <2>1. Cuts2(t, s, i, n) BY <1>3, SplitIs
    <2>2. /\ i <= m => Tiling(t, una, nxt, end, m + 1)
          /\ i > m => Tiling(t, una, nxt, end, m)
          /\ Cuts(s, una) \subseteq Cuts(t, una)
      BY <2>1, <1>3, SplitTiling
    <2>3. t \in Seq(SSegment) /\ Len(t) = Len(s) + 1 BY <2>1 DEF Cuts2
    <2>4. /\ t[i].seq = s[i].seq /\ t[i].xmit = s[i].xmit /\ t[i].ctl = s[i].ctl
          /\ t[i].len = n
      <3>1. t[i] = [s[i] EXCEPT !.len = n] BY <2>1 DEF Cuts2
      <3> QED BY <3>1, <1>1 DEF SSegment
    <2>5. Least(n, s[i].len) = n BY <1>3, <1>1 DEF Least
    <2>6. i \in 1 .. Len(t) /\ Len(t) >= Len(s) BY <1>0, <2>3
    <2>7. ASSUME i <= m PROVE \E k \in Nat : k >= m /\ Tiling(t, una, nxt, end, k)
      <3>1. m + 1 \in Nat /\ m + 1 >= m /\ Tiling(t, una, nxt, end, m + 1)
        BY <2>7, <2>2, <1>0
      <3> QED BY <3>1
    <2> QED BY <2>2, <2>3, <2>4, <2>5, <2>6, <2>7
  <1> QED BY <1>1, <1>2, <1>3

LEMMA SegmentSent ==
    ASSUME NEW s \in Seq(SSegment), NEW una \in Nat, NEW nxt, NEW end, NEW m,
           Tiling(s, una, nxt, end, m), NEW i \in 1 .. Len(s), i <= m + 1,
           NEW n \in 1 .. s[i].len
    PROVE  /\ SentList(s, i, n) \in Seq(SSegment)
           /\ \E k \in Nat \ {0} :
                 Tiling(SentList(s, i, n), una, IF s[i].xmit = 0 THEN nxt + n ELSE nxt, end, k)
           /\ Cuts(s, una) \subseteq Cuts(SentList(s, i, n), una)
           /\ s[i].seq + n \in Cuts(SentList(s, i, n), una)
           /\ s[i].xmit = 0 => s[i].seq = nxt
  <1> DEFINE t == Split(s, i, n)
             u == SentList(s, i, n)
  <1>0. /\ Len(s) \in Nat /\ m \in 0 .. Len(s) /\ s[i].len \in Nat /\ s[i].seq \in Nat
        /\ s[i].xmit \in Nat /\ n \in Nat \ {0}
    <2>1. s[i].len \in Nat /\ s[i].seq \in Nat /\ s[i].xmit \in Nat BY SegFields
    <2> QED BY <2>1 DEF Tiling
  <1>1. /\ t \in Seq(SSegment) /\ i \in 1 .. Len(t)
        /\ i <= m => \E k \in Nat : k >= m /\ Tiling(t, una, nxt, end, k)
        /\ i > m => Tiling(t, una, nxt, end, m)
        /\ Cuts(s, una) \subseteq Cuts(t, una)
        /\ t[i].seq = s[i].seq /\ t[i].len = Least(n, s[i].len)
    <2> HIDE DEF t
    <2>1. t = Split(s, i, n) BY DEF t
    <2> QED BY <1>0, <2>1, SplitAny
  <1>2. t[i].len = n BY <1>0, <1>1 DEF Least
  <1>3. u = Mark(t, i) BY DEF SentList, Mark
  <1> SUFFICES /\ u \in Seq(SSegment)
               /\ \E k \in Nat \ {0} :
                     Tiling(u, una, IF s[i].xmit = 0 THEN nxt + n ELSE nxt, end, k)
               /\ Cuts(s, una) \subseteq Cuts(u, una)
               /\ s[i].seq + n \in Cuts(u, una)
               /\ s[i].xmit = 0 => s[i].seq = nxt
    OBVIOUS
  <1> HIDE DEF t, u
  <1>4. s[i].xmit > 0 <=> i <= m BY DEF Tiling
  <1>5. CASE i <= m
    <2>1. PICK k \in Nat : k >= m /\ Tiling(t, una, nxt, end, k) BY <1>1, <1>5
    <2>2. i <= k /\ i <= k + 1 BY <1>0, <1>5, <2>1
    <2>3. /\ u \in Seq(SSegment) /\ Tiling(u, una, nxt, end, k)
          /\ Cuts(t, una) \subseteq Cuts(u, una)
          /\ t[i].seq + t[i].len \in Cuts(u, una)
      <3>1. t \in Seq(SSegment) /\ i \in 1 .. Len(t) BY <1>1
      <3> QED BY <3>1, <1>3, <2>1, <2>2, MarkTiling
    <2>4. s[i].xmit # 0 /\ k # 0 BY <1>0, <1>4, <1>5, <2>2
    <2> QED BY <1>1, <1>2, <2>3, <2>4
  <1>6. CASE i = m + 1
    <2>1. Tiling(t, una, nxt, end, m) BY <1>0, <1>1, <1>6
    <2>2. /\ u \in Seq(SSegment) /\ Tiling(u, una, t[i].seq + t[i].len, end, m + 1)
          /\ Cuts(t, una) \subseteq Cuts(u, una)
          /\ t[i].seq + t[i].len \in Cuts(u, una)
      <3>1. t \in Seq(SSegment) /\ i \in 1 .. Len(t) BY <1>1
      <3> QED BY <3>1, <1>3, <1>6, <2>1, MarkTiling
    <2>3. s[i].xmit = 0 BY <1>0, <1>4, <1>6
    <2>4. s[i].seq = nxt
      <3>1. s[i].seq = Bound(s, una, i - 1) BY DEF Tiling, Tiles
      <3>2. i - 1 = m BY <1>0, <1>6
      <3> QED BY <3>1, <3>2 DEF Tiling
    <2>5. m + 1 \in Nat \ {0} BY <1>0
    <2> QED BY <1>1, <1>2, <2>2, <2>3, <2>4, <2>5
  <1> QED BY <1>0, <1>5, <1>6

\* process frees whole segments when the acknowledgement falls on a cut.
LEMMA FreedIs ==
    ASSUME NEW s \in Seq(SSegment), NEW una \in Nat, NEW z, Tiles(s, una, z),
           NEW k \in 0 .. Len(s)
    PROVE  Freed(s, Bound(s, una, k) - una) = Drop(s, k)
  <1> DEFINE acked == Bound(s, una, k) - una
             E(f) == [i \in 0 .. Len(s) |-> IF i = 0 THEN 0 ELSE f[i - 1] + s[i].len]
             end == CHOOSE f : f = E(f)
             whole == Cardinality({i \in 1 .. Len(s) : end[i] <= acked})
             rest == Drop(s, whole)
             part == acked - end[whole]
  <1>0. Len(s) \in Nat OBVIOUS
  <1>1. Freed(s, acked) = IF part > 0 /\ rest # <<>> THEN [rest EXCEPT ![1].len = @ - part]
                          ELSE rest
    BY Zenon DEF Freed
  <1>2. /\ \A i \in 0 .. Len(s) : Bound(s, una, i) \in Nat /\ Bound(s, una, i) >= una
        /\ \A i, j \in 0 .. Len(s) : i < j => Bound(s, una, i) < Bound(s, una, j)
    BY BoundsGrow
  <1>3. \A i \in 1 .. Len(s) : s[i].len \in Nat /\ Bound(s, una, i) = Bound(s, una, i - 1) + s[i].len
    <2> TAKE i \in 1 .. Len(s)
    <2>1. s[i].len \in Nat BY SegFields
    <2>2. s[i].seq = Bound(s, una, i - 1) BY DEF Tiles
    <2>3. i # 0 OBVIOUS
    <2> QED BY <2>1, <2>2, <2>3 DEF Bound
  <1>4. Bound(s, una, 0) = una BY DEF Bound
  <1> DEFINE g == [i \in 0 .. Len(s) |-> Bound(s, una, i) - una]
  <1>5. g = E(g)
    <2>1. ASSUME NEW i \in 0 .. Len(s) PROVE g[i] = IF i = 0 THEN 0 ELSE g[i - 1] + s[i].len
      <3>1. CASE i = 0 BY <3>1, <1>4
      <3>2. CASE i # 0
        <4>1. i \in 1 .. Len(s) /\ i - 1 \in 0 .. Len(s) BY <3>2, <1>0
        <4> DEFINE p == Bound(s, una, i)
                   q == Bound(s, una, i - 1)
                   l == s[i].len
        <4>2. p \in Nat /\ q \in Nat /\ l \in Nat /\ p = q + l BY <4>1, <1>2, <1>3
        <4>3. g[i] = p - una /\ g[i - 1] = q - una BY <4>1
        <4> HIDE DEF p, q, g
        <4>4. g[i] = g[i - 1] + l
          <5> HIDE DEF l
          <5> QED BY <4>2, <4>3
        <4> QED BY <3>2, <4>4
      <3> QED BY <3>1, <3>2
    <2>2. g = [i \in 0 .. Len(s) |-> g[i]] OBVIOUS
    <2> HIDE DEF g
    <2> QED BY <2>1, <2>2
  <1>6. end = E(end)
    <2> HIDE DEF g, E
    <2> QED BY <1>5
  <1>7. \A i \in 0 .. Len(s) : end[i] = IF i = 0 THEN 0 ELSE end[i - 1] + s[i].len
    <2> HIDE DEF end
    <2> QED BY <1>6
  <1> HIDE DEF end
  <1> DEFINE P == {i \in Nat : i <= Len(s) => end[i] = g[i]}
  <1>8. 0 \in P BY <1>7, <1>4, <1>0
  <1>9. ASSUME NEW i \in Nat, i \in P PROVE i + 1 \in P
    <2> SUFFICES ASSUME i + 1 <= Len(s) PROVE end[i + 1] = g[i + 1] OBVIOUS
    <2>1. i + 1 \in 0 .. Len(s) /\ i \in 0 .. Len(s) /\ i + 1 # 0 /\ (i + 1) - 1 = i BY <1>0
    <2>2. end[i + 1] = end[i] + s[i + 1].len BY <1>7, <2>1
    <2>3. g[i + 1] = g[i] + s[i + 1].len
      <3>1. \A j \in 0 .. Len(s) : g[j] = IF j = 0 THEN 0 ELSE g[j - 1] + s[j].len
        <4> HIDE DEF g
        <4> QED BY <1>5
      <3> HIDE DEF g
      <3> QED BY <3>1, <2>1
    <2>4. end[i] = g[i] BY <1>9, <2>1
    <2> QED BY <2>2, <2>3, <2>4
  <1>10. Nat \subseteq P
    <2> HIDE DEF P
    <2> QED BY <1>8, <1>9, SetInduction
  <1>11. \A i \in 0 .. Len(s) : end[i] = Bound(s, una, i) - una
    <2> TAKE i \in 0 .. Len(s)
    <2>1. i \in Nat /\ i <= Len(s) BY <1>0
    <2>2. i \in P BY <1>10, <2>1
    <2>3. end[i] = g[i] BY <2>1, <2>2
    <2> QED BY <2>3
  <1> HIDE DEF g, P
  <1>12. {i \in 1 .. Len(s) : end[i] <= acked} = 1 .. k
    <2>1. ASSUME NEW i \in 1 .. Len(s) PROVE end[i] <= acked <=> i <= k
      <3> DEFINE p == Bound(s, una, i)
                 q == Bound(s, una, k)
      <3>0. i \in 0 .. Len(s) BY <1>0
      <3>1. p \in Nat /\ q \in Nat /\ end[i] = p - una BY <1>2, <1>11, <3>0
      <3>2. (i < k => p < q) /\ (k < i => q < p) BY <1>2, <3>0
      <3>3. i = k => p = q OBVIOUS
      <3>4. acked = q - una OBVIOUS
      <3> HIDE DEF p, q, acked
      <3> QED BY <3>1, <3>2, <3>3, <3>4, <3>0
    <2> HIDE DEF acked
    <2> QED BY <2>1, <1>0
  <1>13. whole = k
    <2>1. Cardinality(1 .. k) = k BY FS_Interval, <1>0
    <2> QED BY <2>1, <1>12
  <1>14. part = 0
    <2>1. end[k] = acked BY <1>11
    <2>2. acked \in Int BY <1>2
    <2> HIDE DEF acked
    <2> QED BY <2>1, <2>2, <1>13
  <1>15. ~(part > 0) BY <1>14
  <1> HIDE DEF part, acked, whole
  <1> QED BY <1>1, <1>13, <1>15 DEF acked

LEMMA DropTiling ==
    ASSUME NEW s \in Seq(SSegment), NEW una \in Nat, NEW nxt, NEW end, NEW m,
           Tiling(s, una, nxt, end, m), NEW k \in 0 .. m
    PROVE  /\ Drop(s, k) \in Seq(SSegment)
           /\ Tiling(Drop(s, k), Bound(s, una, k), nxt, end, m - k)
           /\ Cuts(s, una) \subseteq Cuts(Drop(s, k), Bound(s, una, k))
  <1> DEFINE t == Drop(s, k)
             una2 == Bound(s, una, k)
  <1>0. Len(s) \in Nat /\ m \in 0 .. Len(s) /\ Tiles(s, una, end) /\ k \in 0 .. Len(s)
    BY DEF Tiling
  <1>1. /\ t \in Seq(SSegment) /\ Len(t) = Len(s) - k
        /\ \A i \in 1 .. Len(s) - k : t[i] = s[k + i]
    BY <1>0, DropIs
  <1>2. /\ \A i \in 0 .. Len(s) : Bound(s, una, i) \in Nat /\ Bound(s, una, i) >= una
        /\ \A i, j \in 0 .. Len(s) : i < j => Bound(s, una, i) < Bound(s, una, j)
    BY <1>0, BoundsGrow
  <1> HIDE DEF t, una2
  <1>3. \A i \in 0 .. Len(t) : Bound(t, una2, i) = Bound(s, una, k + i)
    <2> TAKE i \in 0 .. Len(t)
    <2>1. CASE i = 0 BY <2>1, <1>0 DEF Bound, una2
    <2>2. CASE i # 0
      <3>1. i \in 1 .. Len(s) - k /\ k + i # 0 BY <2>2, <1>0, <1>1
      <3> QED BY <2>2, <3>1, <1>1 DEF Bound
    <2> QED BY <2>1, <2>2
  <1>4. Tiles(t, una2, end)
    <2>1. ASSUME NEW i \in 1 .. Len(t)
          PROVE  t[i].len > 0 /\ t[i].seq = Bound(t, una2, i - 1)
      <3>1. /\ i \in 1 .. Len(s) - k /\ k + i \in 1 .. Len(s) /\ i - 1 \in 0 .. Len(t)
            /\ k + (i - 1) = (k + i) - 1
        BY <1>0, <1>1
      <3>2. s[k + i].len > 0 /\ s[k + i].seq = Bound(s, una, (k + i) - 1) BY <3>1, <1>0 DEF Tiles
      <3>3. Bound(t, una2, i - 1) = Bound(s, una, k + (i - 1)) BY <3>1, <1>3
      <3>4. t[i] = s[k + i] BY <3>1, <1>1
      <3> QED BY <3>1, <3>2, <3>3, <3>4
    <2>2. end = Bound(s, una, Len(s)) BY <1>0 DEF Tiles
    <2>3. Len(t) \in 0 .. Len(t) /\ k + Len(t) = Len(s) BY <1>0, <1>1
    <2>4. end = Bound(t, una2, Len(t)) BY <2>2, <2>3, <1>3
    <2> QED BY <2>1, <2>4 DEF Tiles
  <1>5. Kinds(t)
    <2> SUFFICES ASSUME NEW j \in 1 .. Len(t)
                 PROVE  /\ t[j].ctl <=> t[j].seq < CtlLen
                        /\ t[j].ctl => t[j].seq + t[j].len <= CtlLen
      BY DEF Kinds
    <2>1. k + j \in 1 .. Len(s) /\ j \in 1 .. Len(s) - k BY <1>0, <1>1
    <2>2. /\ s[k + j].ctl <=> s[k + j].seq < CtlLen
          /\ s[k + j].ctl => s[k + j].seq + s[k + j].len <= CtlLen
      BY <2>1 DEF Tiling, Kinds
    <2> QED BY <2>1, <2>2, <1>1
  <1>6. nxt = Bound(t, una2, m - k)
    <2>1. m - k \in 0 .. Len(t) /\ k + (m - k) = m BY <1>0, <1>1
    <2> QED BY <2>1, <1>3 DEF Tiling
  <1>7. ASSUME NEW i \in 1 .. Len(t) PROVE t[i].xmit > 0 <=> i <= m - k
    <2>1. k + i \in 1 .. Len(s) /\ i \in 1 .. Len(s) - k BY <1>0, <1>1
    <2>2. s[k + i].xmit > 0 <=> k + i <= m BY <2>1 DEF Tiling
    <2> QED BY <2>1, <2>2, <1>0, <1>1
  <1>8. m - k \in 0 .. Len(t) BY <1>0, <1>1
  <1>9. Tiling(t, una2, nxt, end, m - k) BY <1>4, <1>5, <1>6, <1>7, <1>8 DEF Tiling
  <1>10. ASSUME NEW c \in Cuts(s, una) PROVE c \in Cuts(t, una2)
    <2>0. una2 \in Nat /\ una2 >= una /\ c \in Nat BY <1>0, <1>2 DEF una2, Cuts
    <2>1. CASE c <= una
      <3>1. c <= una2 BY <2>0, <2>1
      <3> QED BY <3>1, <2>0 DEF Cuts
    <2>2. CASE \E j \in 1 .. Len(s) : s[j].xmit > 0 /\ c = s[j].seq + s[j].len
      <3>1. PICK j \in 1 .. Len(s) : s[j].xmit > 0 /\ c = s[j].seq + s[j].len BY <2>2
      <3>2. CASE j <= k
        <4>1. c = Bound(s, una, j) BY <3>1 DEF Bound
        <4>2. j \in 0 .. Len(s) BY <1>0
        <4>3. c <= una2
          <5>1. CASE j = k BY <5>1, <4>1, <2>0 DEF una2
          <5>2. CASE j < k
            <6>1. Bound(s, una, j) < una2 BY <5>2, <4>2, <1>0, <1>2 DEF una2
            <6> QED BY <6>1, <4>1, <2>0
          <5> QED BY <3>2, <5>1, <5>2
        <4> QED BY <4>3, <2>0 DEF Cuts
      <3>3. CASE j > k
        <4>1. j - k \in 1 .. Len(t) /\ j - k \in 1 .. Len(s) - k /\ k + (j - k) = j
          BY <3>3, <1>0, <1>1
        <4>2. t[j - k] = s[j] BY <4>1, <1>1
        <4> QED BY <4>1, <4>2, <3>1, <2>0 DEF Cuts
      <3> QED BY <3>2, <3>3, <1>0
    <2> QED BY <2>1, <2>2 DEF Cuts
  <1> QED BY <1>1, <1>9, <1>10 DEF t, una2

\* What queue makes of the list for n more bytes behind end.
Joins(s, ctl) == Len(s) > 0 /\ s[Len(s)].ctl = ctl /\ s[Len(s)].xmit = 0
Longer(s, n) == [s EXCEPT ![Len(s)].len = @ + n]
NewSegment(end, n, ctl) == [seq |-> end, len |-> n, xmit |-> 0, ctl |-> ctl]
Added(s, end, n, ctl) == Append(s, NewSegment(end, n, ctl))

LEMMA JoinTiling ==
    ASSUME NEW s \in Seq(SSegment), NEW una \in Nat, NEW nxt, NEW end, NEW m,
           Tiling(s, una, nxt, end, m), NEW n \in Nat \ {0}, NEW ctl \in BOOLEAN,
           ctl => end + n <= CtlLen, Joins(s, ctl),
           NEW t, t = Longer(s, n)
    PROVE  /\ t \in Seq(SSegment) /\ Tiling(t, una, nxt, end + n, m)
           /\ Cuts(s, una) \subseteq Cuts(t, una)
  <1> DEFINE k == Len(s)
             l == s[k].len + n
             g == [s[k] EXCEPT !.len = l]
  <1>0. k \in Nat /\ k > 0 /\ k \in 1 .. k /\ m \in 0 .. k BY DEF Tiling, Joins
  <1>1. /\ s[k] \in SSegment /\ s[k].seq \in Nat /\ s[k].len \in Nat /\ s[k].xmit = 0
        /\ s[k].ctl = ctl /\ s[k].len > 0
    <2>1. s[k] \in SSegment BY <1>0
    <2>2. s[k].len > 0 BY <1>0 DEF Tiling, Tiles
    <2> QED BY <2>1, <2>2, SegFields DEF Joins
  <1>2. l \in Nat /\ l > 0 BY <1>1
  <1>3. t = [s EXCEPT ![k] = g] BY DEF Longer
  <1>4. end = s[k].seq + s[k].len /\ end + n = s[k].seq + l
    <2>1. end = s[k].seq + s[k].len BY <1>0 DEF Tiling, Tiles, Bound
    <2> DEFINE q == s[k].seq
               p == s[k].len
    <2>2. q \in Nat /\ p \in Nat /\ end = q + p /\ l = p + n BY <1>1, <2>1
    <2> SUFFICES end = q + p /\ end + n = q + l OBVIOUS
    <2> HIDE DEF q, p, l
    <2> QED BY <2>2
  <1> HIDE DEF l
  <1>5. g \in SSegment /\ g.seq = s[k].seq /\ g.len = l /\ g.xmit = 0 /\ g.ctl = ctl
    BY <1>1, <1>2 DEF SSegment
  <1> HIDE DEF g
  <1>17. Len(s) = k /\ k \in 1 .. Len(s) BY <1>0
  <1> HIDE DEF k
  <1>6. t \in Seq(SSegment) /\ Len(t) = k
    <2>1. g \in SSegment BY <1>5
    <2> QED BY <1>17, <1>3, <2>1
  <1>7. t[k] = g /\ \A j \in 1 .. k : j # k => t[j] = s[j] BY <1>17, <1>3
  <1>8. \A j \in 0 .. k - 1 : Bound(t, una, j) = Bound(s, una, j)
    <2> TAKE j \in 0 .. k - 1
    <2>1. j # 0 => j \in 1 .. k /\ j # k BY <1>0
    <2> QED BY <2>1, <1>7 DEF Bound
  <1>9. Tiles(t, una, end + n)
    <2>1. ASSUME NEW j \in 1 .. Len(t)
          PROVE  t[j].len > 0 /\ t[j].seq = Bound(t, una, j - 1)
      <3>1. j \in 1 .. k /\ j - 1 \in 0 .. k - 1 BY <1>0, <1>6
      <3>2. s[j].len > 0 /\ s[j].seq = Bound(s, una, j - 1) BY <3>1 DEF Tiling, Tiles, k
      <3>3. CASE j = k BY <3>1, <3>2, <3>3, <1>2, <1>5, <1>7, <1>8
      <3>4. CASE j # k BY <3>1, <3>2, <3>4, <1>7, <1>8
      <3> QED BY <3>3, <3>4
    <2>2. Bound(t, una, Len(t)) = end + n BY <1>0, <1>4, <1>5, <1>6, <1>7 DEF Bound
    <2> QED BY <2>1, <2>2 DEF Tiles
  <1>10. Kinds(t)
    <2> SUFFICES ASSUME NEW j \in 1 .. Len(t)
                 PROVE  /\ t[j].ctl <=> t[j].seq < CtlLen
                        /\ t[j].ctl => t[j].seq + t[j].len <= CtlLen
      BY DEF Kinds
    <2>1. j \in 1 .. k BY <1>6
    <2>2. /\ s[j].ctl <=> s[j].seq < CtlLen
          /\ s[j].ctl => s[j].seq + s[j].len <= CtlLen
      BY <2>1 DEF Tiling, Kinds, k
    <2>3. CASE j = k
      <3>1. g.ctl <=> g.seq < CtlLen BY <2>2, <2>3, <1>1, <1>5
      <3>2. g.ctl => g.seq + g.len <= CtlLen BY <1>4, <1>5
      <3> QED BY <3>1, <3>2, <2>3, <1>7
    <2>4. CASE j # k BY <2>1, <2>2, <2>4, <1>7
    <2> QED BY <2>3, <2>4
  <1>11. m < k
    <2>1. k \in 1 .. Len(s) BY <1>0 DEF k
    <2>2. s[k].xmit > 0 <=> k <= m BY <2>1 DEF Tiling
    <2>3. ~(0 > 0) OBVIOUS
    <2> QED BY <2>2, <2>3, <1>0, <1>1
  <1>12. nxt = Bound(t, una, m)
    <2>1. m \in 0 .. k - 1 BY <1>0, <1>11
    <2> QED BY <2>1, <1>8 DEF Tiling
  <1>13. \A j \in 1 .. Len(t) : t[j].xmit = s[j].xmit
    <2> TAKE j \in 1 .. Len(t)
    <2>1. CASE j = k BY <2>1, <1>1, <1>5, <1>7
    <2>2. CASE j # k BY <2>2, <1>6, <1>7
    <2> QED BY <2>1, <2>2
  <1>14. \A j \in 1 .. Len(t) : t[j].xmit > 0 <=> j <= m
    <2> TAKE j \in 1 .. Len(t)
    <2>1. s[j].xmit > 0 <=> j <= m BY <1>6 DEF Tiling, k
    <2> QED BY <2>1, <1>13
  <1>15. Tiling(t, una, nxt, end + n, m) BY <1>0, <1>6, <1>9, <1>10, <1>12, <1>14 DEF Tiling
  <1>16. ASSUME NEW c \in Cuts(s, una) PROVE c \in Cuts(t, una)
    <2>1. CASE c <= una BY <2>1 DEF Cuts
    <2>2. CASE \E j \in 1 .. Len(s) : s[j].xmit > 0 /\ c = s[j].seq + s[j].len
      <3>1. PICK j \in 1 .. Len(s) : s[j].xmit > 0 /\ c = s[j].seq + s[j].len BY <2>2
      <3>2. j <= m BY <3>1 DEF Tiling
      <3>3. j \in 1 .. k /\ j # k BY <3>2, <1>0, <1>11 DEF k
      <3>4. t[j] = s[j] /\ j \in 1 .. Len(t) BY <3>3, <1>6, <1>7
      <3> QED BY <3>1, <3>4 DEF Cuts
    <2> QED BY <2>1, <2>2 DEF Cuts
  <1> QED BY <1>6, <1>15, <1>16

LEMMA AppendTiling ==
    ASSUME NEW s \in Seq(SSegment), NEW una \in Nat, NEW nxt, NEW end, NEW m,
           Tiling(s, una, nxt, end, m), NEW n \in Nat \ {0}, NEW ctl \in BOOLEAN,
           ctl => end + n <= CtlLen, ~ctl => CtlLen <= end,
           NEW t, t = Added(s, end, n, ctl)
    PROVE  /\ t \in Seq(SSegment) /\ Tiling(t, una, nxt, end + n, m)
           /\ Cuts(s, una) \subseteq Cuts(t, una)
  <1> DEFINE k == Len(s)
             g == NewSegment(end, n, ctl)
  <1>0. k \in Nat /\ m \in 0 .. k /\ CtlLen \in Nat BY SizeAssumption DEF Tiling
  <1>1. end \in Nat /\ end = Bound(s, una, k)
    <2>1. Tiles(s, una, end) BY DEF Tiling
    <2>2. end \in Nat BY <2>1, BoundsGrow
    <2> QED BY <2>1, <2>2 DEF Tiles
  <1>2. g \in SSegment /\ g.seq = end /\ g.len = n /\ g.xmit = 0 /\ g.ctl = ctl
    BY <1>1 DEF NewSegment, SSegment
  <1> HIDE DEF g
  <1>21. t = Append(s, g) BY DEF Added, g
  <1>3. t \in Seq(SSegment) /\ Len(t) = k + 1 BY <1>2, <1>21
  <1>4. t[k + 1] = g /\ \A j \in 1 .. k : t[j] = s[j] BY <1>2, <1>21
  <1>5. \A j \in 0 .. k : Bound(t, una, j) = Bound(s, una, j)
    <2> TAKE j \in 0 .. k
    <2>1. j # 0 => j \in 1 .. k BY <1>0
    <2> QED BY <2>1, <1>4 DEF Bound
  <1>6. Tiles(t, una, end + n)
    <2>1. ASSUME NEW j \in 1 .. Len(t)
          PROVE  t[j].len > 0 /\ t[j].seq = Bound(t, una, j - 1)
      <3>1. j - 1 \in 0 .. k BY <1>0, <1>3
      <3>2. CASE j = k + 1
        <4>1. j - 1 = k BY <3>2, <1>0
        <4> QED BY <3>1, <3>2, <4>1, <1>1, <1>2, <1>4, <1>5
      <3>3. CASE j # k + 1
        <4>1. j \in 1 .. k BY <3>3, <1>0, <1>3
        <4>2. s[j].len > 0 /\ s[j].seq = Bound(s, una, j - 1) BY <4>1 DEF Tiling, Tiles
        <4> QED BY <3>1, <4>1, <4>2, <1>4, <1>5
      <3> QED BY <3>2, <3>3
    <2>2. Bound(t, una, Len(t)) = end + n BY <1>0, <1>2, <1>3, <1>4 DEF Bound
    <2> QED BY <2>1, <2>2 DEF Tiles
  <1>7. Kinds(t)
    <2> SUFFICES ASSUME NEW j \in 1 .. Len(t)
                 PROVE  /\ t[j].ctl <=> t[j].seq < CtlLen
                        /\ t[j].ctl => t[j].seq + t[j].len <= CtlLen
      BY DEF Kinds
    <2>1. CASE j = k + 1
      <3>1. ctl <=> end < CtlLen BY <1>0, <1>1
      <3> QED BY <3>1, <2>1, <1>2, <1>4
    <2>2. CASE j # k + 1
      <3>1. j \in 1 .. k BY <2>2, <1>0, <1>3
      <3>2. /\ s[j].ctl <=> s[j].seq < CtlLen
            /\ s[j].ctl => s[j].seq + s[j].len <= CtlLen
        BY <3>1 DEF Tiling, Kinds
      <3> QED BY <3>1, <3>2, <1>4
    <2> QED BY <2>1, <2>2
  <1>8. nxt = Bound(t, una, m) BY <1>0, <1>5 DEF Tiling
  <1>9. \A j \in 1 .. Len(t) : t[j].xmit > 0 <=> j <= m
    <2> TAKE j \in 1 .. Len(t)
    <2>1. CASE j = k + 1 BY <2>1, <1>0, <1>2, <1>4
    <2>2. CASE j # k + 1
      <3>1. j \in 1 .. k BY <2>2, <1>0, <1>3
      <3>2. s[j].xmit > 0 <=> j <= m BY <3>1 DEF Tiling
      <3> QED BY <3>1, <3>2, <1>4
    <2> QED BY <2>1, <2>2
  <1>10. m \in 0 .. Len(t) BY <1>0, <1>3
  <1>11. Tiling(t, una, nxt, end + n, m) BY <1>6, <1>7, <1>8, <1>9, <1>10 DEF Tiling
  <1>12. ASSUME NEW c \in Cuts(s, una) PROVE c \in Cuts(t, una)
    <2>1. CASE c <= una BY <2>1 DEF Cuts
    <2>2. CASE \E j \in 1 .. Len(s) : s[j].xmit > 0 /\ c = s[j].seq + s[j].len
      <3>1. PICK j \in 1 .. Len(s) : s[j].xmit > 0 /\ c = s[j].seq + s[j].len BY <2>2
      <3>2. t[j] = s[j] /\ j \in 1 .. Len(t) BY <1>0, <1>3, <1>4
      <3> QED BY <3>1, <3>2 DEF Cuts
    <2> QED BY <2>1, <2>2 DEF Cuts
  <1> QED BY <1>3, <1>11, <1>12

-----------------------------------------------------------------------------
(* What an endpoint is, between and within the calls                       *)

\* The byte with sequence number s.
Content(s) == IF s < CtlLen THEN Ctl ELSE s - CtlLen + 1
\* The bytes d are the ones from sequence number s on.
Right(d, s) == \A i \in 1 .. Len(d) : d[i] = Content(s + i - 1)
\* The end of the window that has been announced.
Edge(x) == x.rcv_nxt + x.rcv_wnd
XCuts(x) == Cuts(x.slist, x.snd_una)
Total(x) == x.snd_una + Len(x.sbuf)

\* What the endpoint has to send, in its buffer and its list.
Tiled(x) ==
    /\ \E m : Tiling(x.slist, x.snd_una, x.snd_nxt, Total(x), m)
    /\ Len(x.sbuf) <= SndBuf /\ x.recover <= x.snd_nxt
    /\ Right(x.sbuf, x.snd_una)
Timed(x) == x.state # "CLOSED" => (x.rto_set <=> x.snd_una # x.snd_nxt)
\* L: how far the other end lets it go.
Limited(x, L) == x.snd_nxt <= L /\ x.snd_una + x.snd_wnd <= L
Counted(x) ==
    /\ \/ Total(x) = CtlLen + x.wrote
       \/ Total(x) = 0 /\ x.wrote = 0 /\ x.state \in {"LISTEN", "CLOSED"}
    /\ x.state = "LISTEN" => Total(x) = 0
\* C: where what the other end sends may be cut.
Received(x, C) ==
    /\ Len(x.readable) + Len(x.ahead) = RcvBuf
    /\ x.rcv_wnd <= Len(x.ahead) /\ RcvBuf <= Edge(x)
    /\ \A c \in C : c <= Edge(x)
    /\ x.rcv_nxt \in C
    /\ \A i \in 1 .. Len(x.rlist) : x.rlist[i].seq + x.rlist[i].len \in C
Tuned(x) ==
    /\ x.mss >= CtlLen /\ x.mtu_advise >= CtlLen /\ x.cwnd > 0 /\ x.ssthresh > 0
    /\ x.swnd_scale \in {1, Scale}

\* A packet that x has written.
Carries(x, p) ==
    /\ p.seq \in Nat /\ p.seq + Len(p.data) \in XCuts(x) /\ Right(p.data, p.seq)
    /\ p.ctl <=> p.seq < CtlLen
    /\ p.ctl => p.seq + Len(p.data) <= CtlLen
PacketOK(x, p, C) ==
    /\ p \in Packet
    /\ p.ack \in C /\ p.ack <= x.rcv_nxt /\ p.ack + p.wnd * Scale <= Edge(x)
    /\ p.data # <<>> => Carries(x, p)
    /\ p.data = <<>> => ~p.ctl
Written(x, C) == \A p \in x.out : PacketOK(x, p, C)

OK(x, L, C) ==
    /\ x \in Endpoint /\ Tiled(x) /\ Timed(x) /\ Limited(x, L) /\ Counted(x)
    /\ Received(x, C) /\ Tuned(x) /\ Written(x, C)

\* What a call never takes back.
Grows(x, y) ==
    /\ x.snd_una <= y.snd_una /\ x.rcv_nxt <= y.rcv_nxt /\ Edge(x) <= Edge(y)
    /\ XCuts(x) \subseteq XCuts(y)

\* The rest of the endpoint, which sending leaves alone.
Receiving(x, y) ==
    /\ y.rcv_nxt = x.rcv_nxt /\ y.rcv_wnd = x.rcv_wnd /\ y.rlist = x.rlist
    /\ y.readable = x.readable /\ y.ahead = x.ahead /\ y.got = x.got
    /\ y.bReadEnable = x.bReadEnable
Keeps(x, y) ==
    /\ y.shutdown = x.shutdown /\ y.deleted = x.deleted /\ y.wrote = x.wrote
    /\ y.swnd_scale = x.swnd_scale /\ y.mtu_advise = x.mtu_advise
Sends(x, y) ==
    /\ Receiving(x, y) /\ Keeps(x, y) /\ y.state = x.state
    /\ y.snd_una = x.snd_una /\ y.snd_wnd = x.snd_wnd /\ y.sbuf = x.sbuf
    /\ y.recover = x.recover /\ y.dup_acks = x.dup_acks

LEMMA SizesAre ==
    /\ SndBuf \in Nat /\ RcvBuf \in Nat /\ Mss \in Nat /\ CtlLen \in Nat /\ Scale \in Nat
    /\ SndBuf > 0 /\ RcvBuf > 0 /\ Mss > 0 /\ CtlLen > 0 /\ Scale > 0
    /\ CtlLen <= Mss /\ CtlLen <= SndBuf /\ CtlLen <= RcvBuf
    /\ MaxCwnd \in Nat /\ MaxCwnd >= RcvBuf + SndBuf + 4 * Mss
    /\ MinMss = CtlLen /\ MaxXmit \in Nat /\ MaxSynXmit \in Nat
  BY SizeAssumption DEF MinMss

LEMMA Fields ==
    ASSUME NEW x \in Endpoint
    PROVE  /\ x.state \in TcpState /\ x.shutdown \in {"NONE", "GRACEFUL", "FORCEFUL"}
           /\ x.deleted \in BOOLEAN /\ x.snd_una \in Nat /\ x.snd_nxt \in Nat
           /\ x.snd_wnd \in Nat /\ x.swnd_scale \in Nat /\ x.slist \in Seq(SSegment)
           /\ x.sbuf \in Seq(Byte) /\ x.rto_set \in BOOLEAN /\ x.cwnd \in Nat
           /\ x.ssthresh \in Nat /\ x.mss \in Nat /\ x.mtu_advise \in Nat
           /\ x.dup_acks \in Nat /\ x.recover \in Nat /\ x.rcv_nxt \in Nat
           /\ x.rcv_wnd \in Nat /\ x.rlist \in Seq(RSegment) /\ x.readable \in Seq(Byte)
           /\ x.ahead \in Seq(Byte) /\ x.ack_set \in BOOLEAN /\ x.bReadEnable \in BOOLEAN
           /\ x.bWriteEnable \in BOOLEAN /\ x.wrote \in Nat /\ x.got \in Nat
           /\ x.writing \in BOOLEAN /\ x.reading \in BOOLEAN /\ x.out \in SUBSET Packet
  BY DEF Endpoint

\* What transmit writes, field by field.
SentPacket(x, seg, n) ==
    [seq |-> seg.seq, ack |-> x.rcv_nxt, wnd |-> x.rcv_wnd \div Scale, ctl |-> seg.ctl,
     data |-> SubSeq(x.sbuf, (seg.seq - x.snd_una) + 1, (seg.seq - x.snd_una) + n)]
TransmitsTo(x, i, n, y) ==
    /\ y \in Endpoint /\ Sends(x, y)
    /\ y.cwnd = x.cwnd /\ y.ssthresh = x.ssthresh /\ y.mss = x.mss
    /\ y.slist = SentList(x.slist, i, n)
    /\ y.snd_nxt = IF x.slist[i].xmit = 0 THEN x.snd_nxt + n ELSE x.snd_nxt
    /\ y.rto_set = TRUE
    /\ y.out = x.out \cup {SentPacket(x, x.slist[i], n)}

LEMMA TransmittedIs ==
    ASSUME NEW x \in Endpoint, NEW i \in 1 .. Len(x.slist), NEW n \in Nat,
           SentList(x.slist, i, n) \in Seq(SSegment),
           SentPacket(x, x.slist[i], n) \in Packet
    PROVE  TransmitsTo(x, i, n, Transmitted(x, i, n))
  <1> DEFINE p == SentPacket(x, x.slist[i], n)
             l == SentList(x.slist, i, n)
             z == IF x.slist[i].xmit = 0 THEN x.snd_nxt + n ELSE x.snd_nxt
             q == packet(x, x.slist[i].seq, x.slist[i].ctl, x.slist[i].seq - x.snd_una, n)
             y == Transmitted(x, i, n)
             w == x.out \cup {p}
  <1>1. q = [x EXCEPT !.ack_set = FALSE, !.out = w] BY Zenon DEF packet, SentPacket
  <1>2. y = [q EXCEPT !.slist = l, !.snd_nxt = z, !.rto_set = TRUE]
    <2>1. q.slist = x.slist /\ q.snd_nxt = x.snd_nxt
      <3> HIDE DEF q, w
      <3> QED BY <1>1 DEF Endpoint
    <2> QED BY <2>1 DEF Transmitted
  <1>3. z \in Nat BY Fields
  <1>4. w \in SUBSET Packet BY Fields
  <1> SUFFICES TransmitsTo(x, i, n, y) OBVIOUS
  <1>5. y.slist = l /\ y.snd_nxt = z /\ y.out = w
        => /\ y.slist = SentList(x.slist, i, n)
           /\ y.snd_nxt = IF x.slist[i].xmit = 0 THEN x.snd_nxt + n ELSE x.snd_nxt
           /\ y.out = x.out \cup {SentPacket(x, x.slist[i], n)}
    OBVIOUS
  <1>6. l \in Seq(SSegment) OBVIOUS
  <1> HIDE DEF p, l, z, q, y, w
  <1>7. y.slist = l /\ y.snd_nxt = z /\ y.out = w /\ y.rto_set = TRUE
    BY <1>1, <1>2 DEF Endpoint
  <1>8. y \in Endpoint
    <2>1. q \in Endpoint BY <1>1, <1>4, Zenon DEF Endpoint
    <2> QED BY <1>2, <1>3, <1>6, <2>1, Zenon DEF Endpoint
  <1>9. Sends(x, y) BY <1>1, <1>2 DEF Endpoint, Sends, Receiving, Keeps
  <1>10. y.cwnd = x.cwnd /\ y.ssthresh = x.ssthresh /\ y.mss = x.mss BY <1>1, <1>2 DEF Endpoint
  <1> QED BY <1>5, <1>7, <1>8, <1>9, <1>10 DEF TransmitsTo

LEMMA PacketFields ==
    ASSUME NEW p \in Packet
    PROVE  /\ p.seq \in Int /\ p.ack \in Nat /\ p.wnd \in Nat /\ p.ctl \in BOOLEAN
           /\ p.data \in Seq(Byte) /\ Len(p.data) \in Nat
           /\ p.data # <<>> => Len(p.data) > 0
  BY DEF Packet

LEMMA PacketKept ==
    ASSUME NEW x \in Endpoint, NEW y \in Endpoint, NEW C, NEW p, PacketOK(x, p, C), Grows(x, y)
    PROVE  PacketOK(y, p, C)
  <1>1. p \in Packet /\ p.ack \in C /\ (p.data = <<>> => ~p.ctl) BY DEF PacketOK
  <1>2. p.ack <= y.rcv_nxt
    <2>1. p.ack \in Nat /\ x.rcv_nxt \in Nat /\ y.rcv_nxt \in Nat BY <1>1, PacketFields, Fields
    <2>2. p.ack <= x.rcv_nxt /\ x.rcv_nxt <= y.rcv_nxt BY DEF PacketOK, Grows
    <2> DEFINE a == p.ack
               b == x.rcv_nxt
               c == y.rcv_nxt
    <2> HIDE DEF a, b, c
    <2> QED BY <2>1, <2>2 DEF a, b, c
  <1>3. p.ack + p.wnd * Scale <= Edge(y)
    <2> DEFINE a == p.ack + p.wnd * Scale
               b == Edge(x)
               c == Edge(y)
    <2>1. a <= b /\ b <= c BY DEF PacketOK, Grows
    <2>2. a \in Nat
      <3>1. p.ack \in Nat /\ p.wnd \in Nat /\ Scale \in Nat BY <1>1, PacketFields, SizesAre
      <3> QED BY <3>1
    <2>3. b \in Nat /\ c \in Nat BY Fields DEF Edge
    <2> SUFFICES a <= c OBVIOUS
    <2> HIDE DEF a, b, c
    <2> QED BY <2>1, <2>2, <2>3
  <1>4. ASSUME p.data # <<>> PROVE Carries(y, p)
    <2>1. Carries(x, p) BY <1>4 DEF PacketOK
    <2>2. XCuts(x) \subseteq XCuts(y) BY DEF Grows
    <2> QED BY <2>1, <2>2 DEF Carries
  <1> QED BY <1>1, <1>2, <1>3, <1>4 DEF PacketOK

LEMMA GrowsTrans ==
    ASSUME NEW x \in Endpoint, NEW y \in Endpoint, NEW z \in Endpoint, Grows(x, y), Grows(y, z)
    PROVE  Grows(x, z)
  <1>1. \A a, b, c \in Nat : a <= b /\ b <= c => a <= c OBVIOUS
  <1>2. x.snd_una <= z.snd_una
    <2>1. x.snd_una \in Nat /\ y.snd_una \in Nat /\ z.snd_una \in Nat BY Fields
    <2>2. x.snd_una <= y.snd_una /\ y.snd_una <= z.snd_una BY DEF Grows
    <2> QED BY <1>1, <2>1, <2>2
  <1>3. x.rcv_nxt <= z.rcv_nxt
    <2>1. x.rcv_nxt \in Nat /\ y.rcv_nxt \in Nat /\ z.rcv_nxt \in Nat BY Fields
    <2>2. x.rcv_nxt <= y.rcv_nxt /\ y.rcv_nxt <= z.rcv_nxt BY DEF Grows
    <2> QED BY <1>1, <2>1, <2>2
  <1>4. Edge(x) <= Edge(z)
    <2>1. Edge(x) \in Nat /\ Edge(y) \in Nat /\ Edge(z) \in Nat BY Fields DEF Edge
    <2>2. Edge(x) <= Edge(y) /\ Edge(y) <= Edge(z) BY DEF Grows
    <2> QED BY <1>1, <2>1, <2>2
  <1>5. XCuts(x) \subseteq XCuts(z) BY DEF Grows
  <1> QED BY <1>2, <1>3, <1>4, <1>5 DEF Grows

\* Equal windows and cuts that are kept.
LEMMA GrowsSame ==
    ASSUME NEW x \in Endpoint, NEW y \in Endpoint,
           y.snd_una = x.snd_una, y.rcv_nxt = x.rcv_nxt, y.rcv_wnd = x.rcv_wnd,
           Cuts(x.slist, x.snd_una) \subseteq Cuts(y.slist, x.snd_una)
    PROVE  Grows(x, y)
  <1>1. Edge(y) = Edge(x) /\ Edge(x) \in Nat BY Fields DEF Edge
  <1>2. \A a \in Nat : a <= a OBVIOUS
  <1>3. x.snd_una \in Nat /\ x.rcv_nxt \in Nat BY Fields
  <1> QED BY <1>1, <1>2, <1>3 DEF Grows, XCuts

LEMMA WrittenKept ==
    ASSUME NEW x \in Endpoint, NEW y \in Endpoint, NEW C, Written(x, C), Grows(x, y),
           \A p \in y.out : p \in x.out \/ PacketOK(y, p, C)
    PROVE  Written(y, C)
  <1> SUFFICES ASSUME NEW p \in y.out PROVE PacketOK(y, p, C) BY DEF Written
  <1>1. CASE p \in x.out
    <2>1. PacketOK(x, p, C) BY <1>1 DEF Written
    <2> QED BY <2>1, PacketKept
  <1>2. CASE PacketOK(y, p, C) BY <1>2
  <1> QED BY <1>1, <1>2

\* Every packet acknowledges what has been received and announces the window.
LEMMA Announces ==
    ASSUME NEW x \in Endpoint
    PROVE  /\ x.rcv_wnd \div Scale \in Nat
           /\ x.rcv_nxt + (x.rcv_wnd \div Scale) * Scale <= Edge(x)
           /\ x.rcv_nxt <= x.rcv_nxt
  <1> DEFINE w == x.rcv_wnd
             r == x.rcv_nxt
  <1>1. w \in Nat /\ r \in Nat /\ Scale \in Nat \ {0} BY Fields, SizesAre
  <1> SUFFICES w \div Scale \in Nat /\ r + (w \div Scale) * Scale <= r + w /\ r <= r
    BY DEF Edge
  <1> HIDE DEF w, r
  <1>2. w \div Scale \in Nat BY <1>1
  <1>3. (w \div Scale) * Scale <= w /\ (w \div Scale) * Scale \in Nat BY <1>1, <1>2
  <1> DEFINE v == (w \div Scale) * Scale
  <1> HIDE DEF v
  <1>4. r + v <= r + w BY <1>1, <1>3 DEF v
  <1> QED BY <1>1, <1>2, <1>4 DEF v

\* A window update, an acknowledgement or a probe.
EmptyPacket(x, seq) ==
    [seq |-> seq, ack |-> x.rcv_nxt, wnd |-> x.rcv_wnd \div Scale, ctl |-> FALSE,
     data |-> SubSeq(x.sbuf, 0 + 1, 0 + 0)]

LEMMA EmptyPacketOK ==
    ASSUME NEW x \in Endpoint, NEW C, x.rcv_nxt \in C, NEW seq \in Int
    PROVE  PacketOK(x, EmptyPacket(x, seq), C)
  <1> DEFINE p == EmptyPacket(x, seq)
             w == x.rcv_wnd \div Scale
             d == SubSeq(x.sbuf, 0 + 1, 0 + 0)
  <1>1. w \in Nat /\ x.rcv_nxt + w * Scale <= Edge(x) /\ x.rcv_nxt <= x.rcv_nxt
        /\ x.rcv_nxt \in Nat
    BY Announces, Fields
  <1>2. d = <<>> /\ d \in Seq(Byte)
    <2>1. x.sbuf \in Seq(Byte) BY Fields
    <2> QED BY <2>1
  <1>3. p.seq = seq /\ p.ack = x.rcv_nxt /\ p.wnd = w /\ p.ctl = FALSE /\ p.data = d
    BY DEF EmptyPacket
  <1>4. p = [seq |-> seq, ack |-> x.rcv_nxt, wnd |-> w, ctl |-> FALSE, data |-> d]
    BY DEF EmptyPacket
  <1> HIDE DEF w, d
  <1>5. p \in Packet BY <1>1, <1>2, <1>4 DEF Packet
  <1> HIDE DEF p
  <1> QED BY <1>1, <1>2, <1>3, <1>5 DEF PacketOK, p

\* The bytes of the send buffer, by sequence number.
LEMMA BufferSlice ==
    ASSUME NEW b \in Seq(Byte), NEW una \in Nat, NEW o \in Nat, NEW n \in Nat \ {0},
           o + n <= Len(b), Right(b, una)
    PROVE  /\ SubSeq(b, o + 1, o + n) \in Seq(Byte) /\ Len(SubSeq(b, o + 1, o + n)) = n
           /\ SubSeq(b, o + 1, o + n) # <<>> /\ Right(SubSeq(b, o + 1, o + n), una + o)
  <1> DEFINE p == o + 1
             e == o + n
             d == SubSeq(b, p, e)
  <1>1. p \in Nat /\ e \in Nat /\ p <= e /\ p > 0 /\ e <= Len(b) /\ Len(b) \in Nat
        /\ (e - p) + 1 = n /\ p = o + 1 OBVIOUS
  <1> SUFFICES d \in Seq(Byte) /\ Len(d) = n /\ d # <<>> /\ Right(d, una + o) OBVIOUS
  <1> HIDE DEF p, e
  <1>2. /\ d \in Seq(Byte) /\ Len(d) = (e - p) + 1
        /\ \A j \in 1 .. (e - p) + 1 : d[j] = b[(p + j) - 1] BY <1>1
  <1> HIDE DEF d
  <1>3. ASSUME NEW j \in 1 .. Len(d) PROVE d[j] = Content((una + o) + j - 1)
    <2>1. d[j] = b[(p + j) - 1] BY <1>2
    <2>2. (p + j) - 1 = o + j /\ o + j \in 1 .. Len(b) BY <1>1, <1>2
    <2>3. una + (o + j) - 1 = (una + o) + j - 1 OBVIOUS
    <2>4. b[o + j] = Content(una + (o + j) - 1) BY <2>2 DEF Right
    <2> QED BY <2>1, <2>2, <2>3, <2>4
  <1>5. d # <<>> BY <1>1, <1>2
  <1>6. Right(d, una + o) BY <1>3 DEF Right
  <1> QED BY <1>1, <1>2, <1>5, <1>6

\* A segment within its list: where its bytes are.
LEMMA SegmentPlace ==
    ASSUME NEW s \in Seq(SSegment), NEW una \in Nat, NEW end, Tiles(s, una, end),
           NEW i \in 1 .. Len(s)
    PROVE  /\ s[i].seq \in Nat /\ s[i].len \in Nat /\ s[i].len > 0 /\ end \in Nat
           /\ una <= s[i].seq /\ s[i].seq + s[i].len <= end
  <1>0. Len(s) \in Nat /\ i \in 0 .. Len(s) /\ i - 1 \in 0 .. Len(s) /\ i # 0
        /\ Len(s) \in 0 .. Len(s) OBVIOUS
  <1>1. /\ \A j \in 0 .. Len(s) : Bound(s, una, j) \in Nat /\ Bound(s, una, j) >= una
        /\ \A j, k \in 0 .. Len(s) : j < k => Bound(s, una, j) < Bound(s, una, k)
        /\ end \in Nat
    BY BoundsGrow
  <1>2. s[i].seq = Bound(s, una, i - 1) /\ s[i].len > 0 /\ end = Bound(s, una, Len(s))
    BY DEF Tiles
  <1>3. s[i].seq \in Nat /\ s[i].len \in Nat BY SegFields
  <1>4. una <= s[i].seq BY <1>0, <1>1, <1>2, <1>3
  <1>5. s[i].seq + s[i].len = Bound(s, una, i) BY <1>0 DEF Bound
  <1>6. Bound(s, una, i) <= Bound(s, una, Len(s))
    <2>1. CASE i = Len(s) BY <2>1, <1>0, <1>1
    <2>2. CASE i < Len(s)
      <3>1. Bound(s, una, i) < Bound(s, una, Len(s)) BY <2>2, <1>0, <1>1
      <3>2. Bound(s, una, i) \in Nat /\ Bound(s, una, Len(s)) \in Nat BY <1>0, <1>1
      <3> QED BY <3>1, <3>2
    <2> QED BY <2>1, <2>2
  <1> QED BY <1>1, <1>2, <1>3, <1>4, <1>5, <1>6

LEMMA SentPacketOK ==
    ASSUME NEW x \in Endpoint, Tiled(x),
           NEW i \in 1 .. Len(x.slist), NEW n \in 1 .. x.slist[i].len
    PROVE  /\ SentPacket(x, x.slist[i], n) \in Packet
           /\ Len(SentPacket(x, x.slist[i], n).data) = n
           /\ \A y \in Endpoint : \A C :
                 /\ x.rcv_nxt \in C /\ y.rcv_nxt = x.rcv_nxt
                 /\ y.rcv_wnd = x.rcv_wnd /\ x.slist[i].seq + n \in XCuts(y)
                 => PacketOK(y, SentPacket(x, x.slist[i], n), C)
  <1> DEFINE g == x.slist[i]
             p == SentPacket(x, g, n)
             w == x.rcv_wnd \div Scale
             d == SubSeq(x.sbuf, (g.seq - x.snd_una) + 1, (g.seq - x.snd_una) + n)
  <1>0. PICK k : Tiling(x.slist, x.snd_una, x.snd_nxt, Total(x), k) BY DEF Tiled
  <1>1. x.slist \in Seq(SSegment) /\ x.snd_una \in Nat /\ x.sbuf \in Seq(Byte) /\ x.rcv_nxt \in Nat
    BY Fields
  <1>2. Tiles(x.slist, x.snd_una, Total(x)) BY <1>0 DEF Tiling
  <1>3. /\ g.seq \in Nat /\ g.len \in Nat /\ g.len > 0 /\ Total(x) \in Nat
        /\ x.snd_una <= g.seq /\ g.seq + g.len <= Total(x)
    BY <1>1, <1>2, SegmentPlace
  <1>4. g.ctl \in BOOLEAN /\ (g.ctl <=> g.seq < CtlLen) /\ (g.ctl => g.seq + g.len <= CtlLen)
    BY <1>0, <1>1, SegFields DEF Tiling, Kinds
  <1>5. w \in Nat /\ x.rcv_nxt + w * Scale <= Edge(x) /\ x.rcv_nxt <= x.rcv_nxt BY Announces
  <1>6. d \in Seq(Byte) /\ Len(d) = n /\ d # <<>> /\ Right(d, g.seq)
    <2> DEFINE q == g.seq
               b == x.sbuf
               u == x.snd_una
               o == q - u
    <2>1. n \in Nat \ {0} /\ o \in Nat /\ o + n <= Len(b) /\ u + o = q
      <3> DEFINE l == g.len
                 t == Total(x)
      <3>1. q \in Nat /\ l \in Nat /\ t \in Nat /\ q + l <= t /\ n \in 1 .. l
            /\ u \in Nat /\ u <= q /\ b \in Seq(Byte) BY <1>1, <1>3
      <3>2. t = u + Len(b) BY DEF Total
      <3> HIDE DEF q, b, u, l, t
      <3>3. Len(b) \in Nat BY <3>1
      <3> QED BY <3>1, <3>2, <3>3
    <2>2. d = SubSeq(b, o + 1, o + n) OBVIOUS
    <2>3. u \in Nat /\ b \in Seq(Byte) BY <1>1
    <2>4. Right(b, u) BY DEF Tiled
    <2> SUFFICES d \in Seq(Byte) /\ Len(d) = n /\ d # <<>> /\ Right(d, q) OBVIOUS
    <2> HIDE DEF d, q, b, u, o
    <2>5. /\ SubSeq(b, o + 1, o + n) \in Seq(Byte) /\ Len(SubSeq(b, o + 1, o + n)) = n
          /\ SubSeq(b, o + 1, o + n) # <<>> /\ Right(SubSeq(b, o + 1, o + n), u + o)
      BY <2>1, <2>3, <2>4, BufferSlice
    <2> QED BY <2>1, <2>2, <2>5
  <1>7. p = [seq |-> g.seq, ack |-> x.rcv_nxt, wnd |-> w, ctl |-> g.ctl, data |-> d]
    BY DEF SentPacket
  <1> SUFFICES /\ p \in Packet /\ Len(p.data) = n
               /\ \A y \in Endpoint : \A C :
                     /\ x.rcv_nxt \in C /\ y.rcv_nxt = x.rcv_nxt
                     /\ y.rcv_wnd = x.rcv_wnd /\ g.seq + n \in XCuts(y)
                     => PacketOK(y, p, C)
    OBVIOUS
  <1> HIDE DEF w, d, p, g
  <1>8. p.seq = g.seq /\ p.ack = x.rcv_nxt /\ p.wnd = w /\ p.ctl = g.ctl /\ p.data = d
    BY <1>7
  <1>9. p \in Packet BY <1>1, <1>3, <1>4, <1>5, <1>6, <1>7 DEF Packet
  <1>10. ASSUME NEW y \in Endpoint, NEW C, x.rcv_nxt \in C, y.rcv_nxt = x.rcv_nxt,
                y.rcv_wnd = x.rcv_wnd, g.seq + n \in XCuts(y)
         PROVE  PacketOK(y, p, C)
    <2>1. Edge(y) = Edge(x) BY <1>10 DEF Edge
    <2>2. g.ctl => g.seq + n <= CtlLen
      <3> DEFINE q == g.seq
                 l == g.len
      <3>1. q \in Nat /\ l \in Nat /\ n \in 1 .. l /\ (g.ctl => q + l <= CtlLen)
        BY <1>3, <1>4 DEF g
      <3>2. CtlLen \in Nat BY SizesAre
      <3> SUFFICES g.ctl => q + n <= CtlLen OBVIOUS
      <3> HIDE DEF q, l
      <3> QED BY <3>1, <3>2
    <2>3. Carries(y, p) BY <2>2, <1>3, <1>4, <1>6, <1>8, <1>10 DEF Carries
    <2> QED BY <2>1, <2>3, <1>5, <1>6, <1>8, <1>9, <1>10 DEF PacketOK
  <1> QED BY <1>6, <1>8, <1>9, <1>10

\* The network takes n bytes of a segment that has been sent, or of the next one.
LEMMA TransmittedOK ==
    ASSUME NEW L \in Nat, NEW C, NEW x, OK(x, L, C), NEW m,
           Tiling(x.slist, x.snd_una, x.snd_nxt, Total(x), m),
           NEW i \in 1 .. Len(x.slist), i <= m + 1, NEW n \in 1 .. x.slist[i].len,
           x.slist[i].xmit = 0 => x.snd_nxt + n <= L
    PROVE  /\ OK(Transmitted(x, i, n), L, C) /\ Grows(x, Transmitted(x, i, n))
           /\ TransmitsTo(x, i, n, Transmitted(x, i, n))
  <1> DEFINE y == Transmitted(x, i, n)
             s == SentList(x.slist, i, n)
             z == IF x.slist[i].xmit = 0 THEN x.snd_nxt + n ELSE x.snd_nxt
  <1>0. x \in Endpoint /\ Tiled(x) BY DEF OK
  <1>1. x.slist \in Seq(SSegment) /\ x.snd_una \in Nat /\ x.snd_nxt \in Nat /\ x.recover \in Nat
        /\ n \in Nat
    <2>1. x.slist[i].len \in Nat BY <1>0, Fields, SegFields
    <2> QED BY <2>1, <1>0, Fields
  <1>2. /\ s \in Seq(SSegment)
        /\ \E k \in Nat \ {0} : Tiling(s, x.snd_una, z, Total(x), k)
        /\ Cuts(x.slist, x.snd_una) \subseteq Cuts(s, x.snd_una)
        /\ x.slist[i].seq + n \in Cuts(s, x.snd_una)
    BY <1>1, SegmentSent
  <1>3. SentPacket(x, x.slist[i], n) \in Packet BY <1>0, SentPacketOK
  <1>4. TransmitsTo(x, i, n, y) BY <1>0, <1>1, <1>2, <1>3, TransmittedIs
  <1> SUFFICES OK(y, L, C) /\ Grows(x, y) BY <1>4
  <1> HIDE DEF y
  <1>5. /\ y \in Endpoint /\ Sends(x, y) /\ y.slist = s /\ y.snd_nxt = z /\ y.rto_set = TRUE
        /\ y.cwnd = x.cwnd /\ y.ssthresh = x.ssthresh /\ y.mss = x.mss
        /\ y.out = x.out \cup {SentPacket(x, x.slist[i], n)}
    BY <1>4 DEF TransmitsTo
  <1>6. z \in Nat /\ x.snd_nxt <= z /\ z <= L
    <2> DEFINE a == x.snd_nxt
    <2>1. a \in Nat /\ a <= L BY <1>1 DEF OK, Limited
    <2>2. (z = a + n /\ a + n <= L) \/ z = a OBVIOUS
    <2> SUFFICES z \in Nat /\ a <= z /\ z <= L OBVIOUS
    <2> HIDE DEF a, z
    <2> QED BY <2>1, <2>2, <1>1
  <1> HIDE DEF z, s
  <1>7. /\ y.snd_una = x.snd_una /\ y.rcv_nxt = x.rcv_nxt /\ y.rcv_wnd = x.rcv_wnd
        /\ y.sbuf = x.sbuf /\ y.recover = x.recover /\ y.state = x.state
    BY <1>5 DEF Sends, Receiving
  <1>8. Grows(x, y) BY <1>0, <1>2, <1>5, <1>7, GrowsSame
  <1>9. Total(y) = Total(x) BY <1>7 DEF Total
  <1>10. PICK k \in Nat \ {0} : Tiling(s, x.snd_una, z, Total(x), k) BY <1>2
  <1>11. Tiled(y)
    <2>1. y.recover <= y.snd_nxt
      <3>1. x.recover <= x.snd_nxt BY <1>0 DEF Tiled
      <3>2. x.recover <= z BY <3>1, <1>1, <1>6
      <3> QED BY <3>2, <1>5, <1>7
    <2>2. Tiling(y.slist, y.snd_una, y.snd_nxt, Total(y), k) BY <1>5, <1>7, <1>9, <1>10
    <2> QED BY <2>1, <2>2, <1>0, <1>7 DEF Tiled
  <1>12. x.snd_una # z BY <1>1, <1>2, <1>10, CutsBelow
  <1>13. Timed(y) BY <1>5, <1>7, <1>12 DEF Timed
  <1>14. Limited(y, L)
    <2>1. x.snd_una + x.snd_wnd <= L BY DEF OK, Limited
    <2> QED BY <2>1, <1>5, <1>6 DEF Limited, Sends
  <1>15. Counted(y) BY <1>5, <1>9 DEF OK, Counted, Sends, Keeps
  <1>16. Received(y, C) /\ y.rcv_nxt \in C
    <2>1. Edge(y) = Edge(x) BY <1>7 DEF Edge
    <2> QED BY <2>1, <1>5 DEF OK, Received, Sends, Receiving
  <1>17. Tuned(y) BY <1>5 DEF OK, Tuned, Sends, Keeps
  <1>18. Written(y, C)
    <2>1. x.slist[i].seq + n \in XCuts(y) BY <1>2, <1>5, <1>7 DEF XCuts
    <2>2. PacketOK(y, SentPacket(x, x.slist[i], n), C)
      BY <1>0, <1>5, <1>7, <1>16, <2>1, SentPacketOK
    <2>3. Written(x, C) BY DEF OK
    <2> QED BY <1>0, <1>5, <1>8, <2>2, <2>3, WrittenKept
  <1> QED BY <1>5, <1>8, <1>11, <1>13, <1>14, <1>15, <1>16, <1>17, <1>18 DEF OK

\* Where the segments of the list come from.
LEMMA SentListElems ==
    ASSUME NEW s \in Seq(SSegment), NEW una \in Nat, NEW nxt, NEW end, NEW m,
           Tiling(s, una, nxt, end, m), NEW i \in 1 .. Len(s), i <= m + 1,
           NEW n \in 1 .. s[i].len, NEW j \in 1 .. Len(SentList(s, i, n))
    PROVE  \E k \in 1 .. Len(s) :
              /\ SentList(s, i, n)[j].ctl = s[k].ctl
              /\ (k # i \/ n = s[i].len) => /\ SentList(s, i, n)[j].seq = s[k].seq
                                            /\ SentList(s, i, n)[j].len = s[k].len
              /\ (s[k].xmit > 0 => SentList(s, i, n)[j].xmit > 0)
              /\ (k = i /\ n = s[i].len => SentList(s, i, n)[j].xmit > 0)
  <1> DEFINE t == Split(s, i, n)
             u == SentList(s, i, n)
  <1>0. /\ Len(s) \in Nat /\ m \in 0 .. Len(s) /\ s[i].len \in Nat /\ n \in Nat \ {0}
    <2>1. s[i].len \in Nat BY SegFields
    <2> QED BY <2>1 DEF Tiling
  <1>1. /\ t \in Seq(SSegment) /\ i \in 1 .. Len(t)
        /\ i <= m => \E k \in Nat : k >= m /\ Tiling(t, una, nxt, end, k)
        /\ i > m => Tiling(t, una, nxt, end, m)
        /\ t[i].xmit = s[i].xmit
    <2> HIDE DEF t
    <2>1. t = Split(s, i, n) BY DEF t
    <2> QED BY <1>0, <2>1, SplitAny
  <1>2. u = Mark(t, i) BY DEF SentList, Mark
  <1>3. n = s[i].len => t = s BY <1>0 DEF Split
  <1>4. n # s[i].len => Cuts2(t, s, i, n) BY <1>0, SplitIs
  <1> SUFFICES \E k \in 1 .. Len(s) :
                  /\ u[j].ctl = s[k].ctl
                  /\ (k # i \/ n = s[i].len) => u[j].seq = s[k].seq /\ u[j].len = s[k].len
                  /\ (s[k].xmit > 0 => u[j].xmit > 0)
                  /\ (k = i /\ n = s[i].len => u[j].xmit > 0)
    OBVIOUS
  <1>5. j \in 1 .. Len(u) OBVIOUS
  <1> HIDE DEF t, u
  <1>6. \E k \in Nat : i <= k + 1 /\ Tiling(t, una, nxt, end, k)
    <2>1. CASE i <= m
      <3>1. PICK k \in Nat : k >= m /\ Tiling(t, una, nxt, end, k) BY <1>1, <2>1
      <3>2. i <= k + 1 BY <2>1, <3>1, <1>0
      <3> QED BY <3>1, <3>2
    <2>2. CASE i > m BY <1>0, <1>1, <2>2
    <2> QED BY <2>1, <2>2, <1>0
  <1>7. PICK k \in Nat : i <= k + 1 /\ Tiling(t, una, nxt, end, k) BY <1>6
  <1>8. /\ Len(u) = Len(t)
        /\ \A l \in 1 .. Len(t) : u[l].ctl = t[l].ctl /\ u[l].seq = t[l].seq /\ u[l].len = t[l].len
        /\ \A l \in 1 .. Len(t) : u[l].xmit > 0 <=> (t[l].xmit > 0 \/ l = i)
    BY <1>1, <1>2, <1>7, MarkTiling
  <1>9. j \in 1 .. Len(t) BY <1>5, <1>8
  <1>10. /\ u[j].ctl = t[j].ctl /\ u[j].seq = t[j].seq /\ u[j].len = t[j].len
         /\ (t[j].xmit > 0 => u[j].xmit > 0) /\ (j = i => u[j].xmit > 0)
    BY <1>8, <1>9
  <1>11. CASE n = s[i].len
    <2>1. t = s /\ j \in 1 .. Len(s) BY <1>3, <1>9, <1>11
    <2> QED BY <2>1, <1>10, <1>11
  <1>12. CASE n # s[i].len
    <2>0. Cuts2(t, s, i, n) BY <1>4, <1>12
    <2>1. Len(t) = Len(s) + 1 BY <2>0 DEF Cuts2
    <2>2. CASE j < i
      <3>1. j \in 1 .. i - 1 /\ j \in 1 .. Len(s) BY <2>2, <1>0, <1>9
      <3>2. t[j] = s[j] BY <3>1, <2>0 DEF Cuts2
      <3> QED BY <3>1, <3>2, <1>10, <1>12, <2>2
    <2>3. CASE j = i
      <3>1. t[i] = [s[i] EXCEPT !.len = n] BY <2>0 DEF Cuts2
      <3>2. t[i].ctl = s[i].ctl BY <3>1, SegFields DEF SSegment
      <3> QED BY <2>3, <3>2, <1>10, <1>12
    <2>4. CASE j = i + 1
      <3>1. t[j] = [s[i] EXCEPT !.seq = @ + n, !.len = @ - n] BY <2>0, <2>4 DEF Cuts2
      <3>2. t[j].ctl = s[i].ctl /\ t[j].xmit = s[i].xmit BY <3>1, SegFields DEF SSegment
      <3> QED BY <3>2, <1>10, <1>12
    <2>5. CASE j > i + 1
      <3>1. j \in i + 2 .. Len(s) + 1 /\ j - 1 \in 1 .. Len(s) /\ j - 1 # i
        BY <2>5, <2>1, <1>0, <1>9
      <3>2. t[j] = s[j - 1] BY <3>1, <2>0 DEF Cuts2
      <3> QED BY <3>1, <3>2, <1>10, <1>12
    <2> QED BY <2>2, <2>3, <2>4, <2>5, <1>0, <1>9
  <1> QED BY <1>11, <1>12

\* The connect message has gone out in one piece.
WholeSeg(g) == g.ctl => g.seq = 0 /\ g.len = CtlLen /\ g.xmit > 0
WholePacket(p) == p.ctl => p.seq = 0 /\ Len(p.data) = CtlLen
Unsplit(x) ==
    /\ \A i \in 1 .. Len(x.slist) : WholeSeg(x.slist[i])
    /\ \A p \in x.out : WholePacket(p)

LEMMA UnsplitSent ==
    ASSUME NEW x \in Endpoint, Tiled(x), NEW m,
           Tiling(x.slist, x.snd_una, x.snd_nxt, Total(x), m),
           NEW i \in 1 .. Len(x.slist), i <= m + 1, NEW n \in 1 .. x.slist[i].len,
           \A j \in 1 .. Len(x.slist) : j # i => WholeSeg(x.slist[j]),
           \A p \in x.out : WholePacket(p),
           x.slist[i].ctl => x.slist[i].seq = 0 /\ x.slist[i].len = CtlLen /\ n = CtlLen,
           NEW y, TransmitsTo(x, i, n, y)
    PROVE  Unsplit(y)
  <1> DEFINE s == x.slist
             u == SentList(x.slist, i, n)
             p == SentPacket(x, x.slist[i], n)
  <1>1. y.slist = u /\ y.out = x.out \cup {p} BY DEF TransmitsTo
  <1>2. x.slist \in Seq(SSegment) /\ x.snd_una \in Nat BY Fields
  <1>3. ASSUME NEW j \in 1 .. Len(u) PROVE WholeSeg(u[j])
    <2>1. PICK k \in 1 .. Len(s) :
              /\ u[j].ctl = s[k].ctl
              /\ (k # i \/ n = s[i].len) => u[j].seq = s[k].seq /\ u[j].len = s[k].len
              /\ (s[k].xmit > 0 => u[j].xmit > 0)
              /\ (k = i /\ n = s[i].len => u[j].xmit > 0)
      BY <1>2, SentListElems
    <2> HIDE DEF u
    <2>2. CASE k = i
      <3> SUFFICES ASSUME s[i].ctl PROVE WholeSeg(u[j]) BY <2>1, <2>2 DEF WholeSeg
      <3>1. n = s[i].len /\ s[i].seq = 0 /\ s[i].len = CtlLen OBVIOUS
      <3> QED BY <2>1, <2>2, <3>1 DEF WholeSeg
    <2>3. CASE k # i
      <3>1. WholeSeg(s[k]) BY <2>3
      <3> QED BY <2>1, <2>3, <3>1 DEF WholeSeg
    <2> QED BY <2>2, <2>3
  <1>4. WholePacket(p)
    <2>1. Len(p.data) = n BY SentPacketOK
    <2>2. p.ctl = x.slist[i].ctl /\ p.seq = x.slist[i].seq BY DEF SentPacket
    <2> HIDE DEF p
    <2> QED BY <2>1, <2>2 DEF WholePacket
  <1> HIDE DEF u, p
  <1> QED BY <1>1, <1>3, <1>4 DEF Unsplit

\* What only the timers, the congestion window and the application's flags tell
\* apart.
Steady(x, y) ==
    /\ y.snd_una = x.snd_una /\ y.snd_nxt = x.snd_nxt /\ y.snd_wnd = x.snd_wnd
    /\ y.slist = x.slist /\ y.sbuf = x.sbuf /\ y.rto_set = x.rto_set
    /\ y.recover = x.recover /\ y.wrote = x.wrote /\ y.out = x.out
    /\ y.rcv_nxt = x.rcv_nxt /\ y.rcv_wnd = x.rcv_wnd /\ y.rlist = x.rlist
    /\ y.readable = x.readable /\ y.ahead = x.ahead
StateMoves(x, y) ==
    \/ y.state = x.state \/ y.state = "CLOSED"
    \/ y.state \notin {"LISTEN", "CLOSED"} /\ x.state \notin {"LISTEN", "CLOSED"}

LEMMA Retuned ==
    ASSUME NEW L, NEW C, NEW x, OK(x, L, C), NEW y \in Endpoint,
           Steady(x, y), StateMoves(x, y), Tuned(y)
    PROVE  OK(y, L, C) /\ Grows(x, y)
  <1>1. x \in Endpoint BY DEF OK
  <1>2. Edge(y) = Edge(x) /\ Total(y) = Total(x) /\ XCuts(y) = XCuts(x)
    BY DEF Steady, Edge, Total, XCuts
  <1>3. Grows(x, y)
    <2>1. x.snd_una <= x.snd_una /\ x.rcv_nxt <= x.rcv_nxt BY <1>1, Fields
    <2>2. Edge(x) \in Nat BY <1>1, Fields DEF Edge
    <2> QED BY <1>2, <2>1, <2>2 DEF Grows, Steady
  <1>4. Tiled(y) BY <1>2 DEF Tiled, OK, Steady
  <1>5. Timed(y) BY DEF Timed, OK, Steady, StateMoves
  <1>6. Limited(y, L) BY DEF Limited, OK, Steady
  <1>7. Counted(y) BY <1>2 DEF Counted, OK, Steady, StateMoves
  <1>8. Received(y, C) BY <1>2 DEF Received, OK, Steady
  <1>9. Written(y, C)
    <2>1. ASSUME NEW p \in x.out PROVE PacketOK(y, p, C)
      <3>1. PacketOK(x, p, C) BY DEF OK, Written
      <3> QED BY <3>1, <1>1, <1>3, PacketKept
    <2> QED BY <2>1 DEF Written, Steady
  <1> QED BY <1>3, <1>4, <1>5, <1>6, <1>7, <1>8, <1>9 DEF OK

\* ... and only the congestion control.
Tunes(x, y) ==
    /\ Steady(x, y) /\ y.state = x.state /\ y.shutdown = x.shutdown
    /\ y.deleted = x.deleted /\ y.got = x.got /\ y.swnd_scale = x.swnd_scale
    /\ y.mtu_advise = x.mtu_advise /\ y.ack_set = x.ack_set
    /\ y.bReadEnable = x.bReadEnable /\ y.bWriteEnable = x.bWriteEnable
    /\ y.writing = x.writing /\ y.reading = x.reading

LEMMA TunesTrans ==
    ASSUME NEW x, NEW y, NEW z, Tunes(x, y), Tunes(y, z)
    PROVE  Tunes(x, z)
  BY DEF Tunes, Steady

LEMMA TunesSame == \A x : Tunes(x, x) BY DEF Tunes, Steady

LEMMA WithCwnd ==
    ASSUME NEW x \in Endpoint, NEW c \in Nat
    PROVE  /\ [x EXCEPT !.cwnd = c] \in Endpoint /\ Tunes(x, [x EXCEPT !.cwnd = c])
           /\ [x EXCEPT !.cwnd = c].cwnd = c /\ [x EXCEPT !.cwnd = c].mss = x.mss
           /\ [x EXCEPT !.cwnd = c].ssthresh = x.ssthresh
           /\ [x EXCEPT !.cwnd = c].dup_acks = x.dup_acks
  <1> DEFINE y == [x EXCEPT !.cwnd = c]
  <1>1. y \in Endpoint BY Zenon DEF Endpoint
  <1>2. Tunes(x, y) BY DEF Endpoint, Tunes, Steady
  <1> QED BY <1>1, <1>2 DEF Endpoint

LEMMA WithThresh ==
    ASSUME NEW x \in Endpoint, NEW c \in Nat
    PROVE  /\ [x EXCEPT !.ssthresh = c] \in Endpoint /\ Tunes(x, [x EXCEPT !.ssthresh = c])
           /\ [x EXCEPT !.ssthresh = c].ssthresh = c /\ [x EXCEPT !.ssthresh = c].mss = x.mss
           /\ [x EXCEPT !.ssthresh = c].cwnd = x.cwnd
           /\ [x EXCEPT !.ssthresh = c].dup_acks = x.dup_acks
  <1> DEFINE y == [x EXCEPT !.ssthresh = c]
  <1>1. y \in Endpoint BY Zenon DEF Endpoint
  <1>2. Tunes(x, y) BY DEF Endpoint, Tunes, Steady
  <1> QED BY <1>1, <1>2 DEF Endpoint

LEMMA WithMss ==
    ASSUME NEW x \in Endpoint, NEW c \in Nat
    PROVE  /\ [x EXCEPT !.mss = c] \in Endpoint /\ Tunes(x, [x EXCEPT !.mss = c])
           /\ [x EXCEPT !.mss = c].mss = c /\ [x EXCEPT !.mss = c].ssthresh = x.ssthresh
           /\ [x EXCEPT !.mss = c].cwnd = x.cwnd
           /\ [x EXCEPT !.mss = c].dup_acks = x.dup_acks
  <1> DEFINE y == [x EXCEPT !.mss = c]
  <1>1. y \in Endpoint BY Zenon DEF Endpoint
  <1>2. Tunes(x, y) BY DEF Endpoint, Tunes, Steady
  <1> QED BY <1>1, <1>2 DEF Endpoint

LEMMA WithDups ==
    ASSUME NEW x \in Endpoint, NEW c \in Nat
    PROVE  /\ [x EXCEPT !.dup_acks = c] \in Endpoint /\ Tunes(x, [x EXCEPT !.dup_acks = c])
           /\ [x EXCEPT !.dup_acks = c].mss = x.mss
           /\ [x EXCEPT !.dup_acks = c].ssthresh = x.ssthresh
           /\ [x EXCEPT !.dup_acks = c].cwnd = x.cwnd /\ [x EXCEPT !.dup_acks = c].dup_acks = c
  <1> DEFINE y == [x EXCEPT !.dup_acks = c]
  <1>1. y \in Endpoint BY Zenon DEF Endpoint
  <1>2. Tunes(x, y) BY DEF Endpoint, Tunes, Steady
  <1> QED BY <1>1, <1>2 DEF Endpoint

LEMMA TunesOK ==
    ASSUME NEW L, NEW C, NEW x, OK(x, L, C), NEW y \in Endpoint, Tunes(x, y),
           y.mss >= CtlLen, y.cwnd > 0, y.ssthresh > 0
    PROVE  OK(y, L, C) /\ Grows(x, y)
  <1>1. Tuned(y) BY DEF OK, Tuned, Tunes
  <1>2. Steady(x, y) /\ StateMoves(x, y) BY DEF Tunes, StateMoves
  <1> QED BY <1>1, <1>2, Retuned

\* The congestion window is never zero.
LEMMA SetCwndIs ==
    ASSUME NEW x \in Endpoint, NEW n \in Nat, n > 0
    PROVE  /\ SetCwnd(x, n) \in Endpoint /\ Tunes(x, SetCwnd(x, n)) /\ SetCwnd(x, n).cwnd > 0
           /\ SetCwnd(x, n).mss = x.mss /\ SetCwnd(x, n).ssthresh = x.ssthresh
           /\ SetCwnd(x, n).dup_acks = x.dup_acks
           /\ \A k \in Nat : k <= CtlLen /\ k <= n => k <= SetCwnd(x, n).cwnd
  <1> DEFINE c == Least(n, MaxCwnd)
  <1>1. c \in Nat /\ c > 0 /\ \A k \in Nat : k <= CtlLen /\ k <= n => k <= c
    BY SizesAre DEF Least
  <1>2. SetCwnd(x, n) = [x EXCEPT !.cwnd = c] BY DEF SetCwnd
  <1> HIDE DEF c
  <1>3. /\ [x EXCEPT !.cwnd = c] \in Endpoint /\ Tunes(x, [x EXCEPT !.cwnd = c])
        /\ [x EXCEPT !.cwnd = c].cwnd = c /\ [x EXCEPT !.cwnd = c].mss = x.mss
        /\ [x EXCEPT !.cwnd = c].ssthresh = x.ssthresh
        /\ [x EXCEPT !.cwnd = c].dup_acks = x.dup_acks
    BY <1>1, WithCwnd
  <1> DEFINE y == [x EXCEPT !.cwnd = c]
  <1> HIDE DEF y
  <1> QED BY <1>1, <1>2, <1>3 DEF y

LEMMA StepDownIs ==
    ASSUME NEW x \in Endpoint, NEW n \in Nat, n >= CtlLen
    PROVE  /\ StepDown(x, n) \in Endpoint /\ Tunes(x, StepDown(x, n))
           /\ StepDown(x, n).cwnd > 0 /\ StepDown(x, n).cwnd >= CtlLen
           /\ StepDown(x, n).mss = n /\ StepDown(x, n).ssthresh = x.ssthresh
           /\ StepDown(x, n).dup_acks = x.dup_acks
  <1> DEFINE y == [x EXCEPT !.mss = n]
             z == SetCwnd(y, 2 * n)
  <1>1. /\ y \in Endpoint /\ Tunes(x, y) /\ y.mss = n /\ y.ssthresh = x.ssthresh
        /\ y.dup_acks = x.dup_acks
    BY WithMss
  <1>2. StepDown(x, n) = z BY DEF StepDown
  <1> HIDE DEF y
  <1>3. 2 * n \in Nat /\ 2 * n > 0 /\ CtlLen <= 2 * n /\ CtlLen \in Nat /\ CtlLen <= CtlLen BY SizesAre
  <1>4. /\ z \in Endpoint /\ Tunes(y, z) /\ z.cwnd > 0 /\ z.mss = y.mss
        /\ z.ssthresh = y.ssthresh /\ z.dup_acks = y.dup_acks
        /\ \A k \in Nat : k <= CtlLen /\ k <= 2 * n => k <= z.cwnd
    <2> DEFINE k2 == 2 * n
    <2> HIDE DEF k2
    <2> QED BY <1>1, <1>3, SetCwndIs DEF k2
  <1> HIDE DEF z
  <1>5. Tunes(x, z) BY <1>1, <1>4, TunesTrans
  <1>6. z.cwnd >= CtlLen
    <2>1. CtlLen <= z.cwnd BY <1>3, <1>4
    <2> QED BY <2>1, <1>4, <1>3, Fields
  <1> QED BY <1>1, <1>2, <1>4, <1>5, <1>6

LEMMA TunesTiling ==
    ASSUME NEW x, NEW y, Tunes(x, y), NEW m, Tiling(x.slist, x.snd_una, x.snd_nxt, Total(x), m)
    PROVE  /\ Tiling(y.slist, y.snd_una, y.snd_nxt, Total(y), m)
           /\ y.slist = x.slist /\ y.snd_nxt = x.snd_nxt /\ y.out = x.out
  BY DEF Tunes, Steady, Total

\* Every other segment is whole, and so is everything that was written.
OthersWhole(x, i) ==
    /\ \A j \in 1 .. Len(x.slist) : j # i => WholeSeg(x.slist[j])
    /\ \A p \in x.out : WholePacket(p)
    /\ x.slist[i].ctl => x.slist[i].seq = 0 /\ x.slist[i].len = CtlLen

\* What transmit leaves when the network takes the packet.
Transmits(x, L, C, i, z) ==
    /\ OK(z, L, C) /\ Grows(x, z) /\ Sends(x, z) /\ z.rto_set = TRUE
    /\ x.snd_nxt <= z.snd_nxt /\ z.out # {}
    /\ x.slist[i].xmit = 0 => x.snd_nxt < z.snd_nxt
    /\ OthersWhole(x, i) => Unsplit(z)
MayGo(x, i, L) == x.slist[i].xmit = 0 => x.snd_nxt + x.slist[i].len <= L

LEMMA TransmitOK ==
    ASSUME NEW L \in Nat, NEW C, NEW x, OK(x, L, C), NEW m,
           Tiling(x.slist, x.snd_una, x.snd_nxt, Total(x), m),
           NEW i \in 1 .. Len(x.slist), i <= m + 1, NEW result,
           ~FailsToTransmit(x, i, result),
           MayGo(x, i, L)
    PROVE  Transmits(x, L, C, i, transmit(x, i, result))
  <1> DEFINE len == x.slist[i].len
             mss == x.mss
             n == Least(len, mss)
             z == transmit(x, i, result)
  <1>0. x \in Endpoint /\ x.slist \in Seq(SSegment) /\ x.snd_una \in Nat /\ x.snd_nxt \in Nat
        /\ x.state \in TcpState
    <2>1. x \in Endpoint BY DEF OK
    <2> QED BY <2>1, Fields
  <1>1. len \in Nat /\ len > 0 /\ mss \in Nat /\ mss >= CtlLen /\ CtlLen \in Nat /\ CtlLen > 0
    <2>1. Tiles(x.slist, x.snd_una, Total(x)) BY DEF Tiling
    <2>2. len \in Nat /\ len > 0 BY <1>0, <2>1, SegmentPlace
    <2>3. mss \in Nat /\ mss >= CtlLen BY <1>0, Fields DEF OK, Tuned
    <2> QED BY <2>2, <2>3, SizesAre
  <1>2. result = "too_large" => n > CtlLen
    <2>1. result = "too_large" => ~(n <= CtlLen) BY SizesAre DEF FailsToTransmit
    <2>2. n \in Nat /\ CtlLen \in Nat BY <1>1 DEF Least
    <2> HIDE DEF n
    <2> QED BY <2>1, <2>2
  <1>3. OthersWhole(x, i) /\ x.slist[i].ctl
        => x.slist[i].seq = 0 /\ len = CtlLen
    BY DEF OthersWhole
  <1>4. n \in Nat /\ n > 0 /\ n <= len /\ n <= mss /\ (n = len \/ n = mss) BY <1>1 DEF Least
  <1>5. ASSUME NEW w, OK(w, L, C), Tunes(x, w), NEW k \in 1 .. len, len = CtlLen => k = CtlLen,
               Grows(x, w), w.dup_acks = x.dup_acks, z = Transmitted(w, i, k)
        PROVE  /\ OK(z, L, C) /\ Grows(x, z) /\ Sends(x, z) /\ z.rto_set = TRUE
               /\ x.snd_nxt <= z.snd_nxt /\ z.out # {}
               /\ x.slist[i].xmit = 0 => x.snd_nxt < z.snd_nxt
               /\ OthersWhole(x, i) => Unsplit(z)
    <2> HIDE DEF z
    <2>1. w \in Endpoint /\ Tiled(w) BY <1>5 DEF OK
    <2>2. /\ Tiling(w.slist, w.snd_una, w.snd_nxt, Total(w), m)
          /\ w.slist = x.slist /\ w.snd_nxt = x.snd_nxt /\ w.out = x.out
      BY <1>5, TunesTiling
    <2>3. k \in Nat /\ k <= len BY <1>1
    <2>4. w.slist[i].xmit = 0 => w.snd_nxt + k <= L
      <3> DEFINE q == x.snd_nxt
      <3> SUFFICES x.slist[i].xmit = 0 => q + k <= L BY <2>2
      <3>1. x.slist[i].xmit = 0 => q + len <= L BY DEF MayGo
      <3>2. q \in Nat BY <1>0
      <3> HIDE DEF q, len
      <3> QED BY <3>1, <3>2, <2>3, <1>1
    <2>5. i \in 1 .. Len(w.slist) /\ k \in 1 .. w.slist[i].len BY <2>2
    <2>6. OK(z, L, C) /\ Grows(w, z) /\ TransmitsTo(w, i, k, z)
      BY <1>5, <2>2, <2>4, <2>5, TransmittedOK
    <2>7. z \in Endpoint /\ Grows(x, z)
      <3>1. z \in Endpoint BY <2>6 DEF OK
      <3> QED BY <3>1, <1>0, <2>1, <2>6, <1>5, GrowsTrans
    <2>8. Sends(x, z)
      <3>1. Sends(w, z) BY <2>6 DEF TransmitsTo
      <3> QED BY <3>1, <1>5 DEF Sends, Receiving, Keeps, Tunes, Steady
    <2>9. /\ z.rto_set = TRUE /\ z.out # {} /\ x.snd_nxt <= z.snd_nxt
          /\ x.slist[i].xmit = 0 => x.snd_nxt < z.snd_nxt
      <3>1. /\ z.rto_set = TRUE /\ z.out # {}
            /\ z.snd_nxt = IF w.slist[i].xmit = 0 THEN w.snd_nxt + k ELSE w.snd_nxt
        BY <2>6 DEF TransmitsTo
      <3>2. x.snd_nxt <= z.snd_nxt BY <3>1, <2>2, <2>3, <1>0
      <3>3. x.slist[i].xmit = 0 => x.snd_nxt < z.snd_nxt
        <4> DEFINE a == x.snd_nxt
        <4>1. a \in Nat /\ k \in Nat /\ k > 0 BY <2>3, <1>0
        <4>2. x.slist[i].xmit = 0 => z.snd_nxt = a + k BY <3>1, <2>2
        <4>3. a < a + k
          <5> HIDE DEF a
          <5> QED BY <4>1
        <4> QED BY <4>2, <4>3
      <3> QED BY <3>1, <3>2, <3>3
    <2>10. ASSUME OthersWhole(x, i) PROVE Unsplit(z)
      <3>1. \A j \in 1 .. Len(w.slist) : j # i => WholeSeg(w.slist[j])
        BY <2>2, <2>10 DEF OthersWhole
      <3>2. \A p \in w.out : WholePacket(p) BY <2>2, <2>10 DEF OthersWhole
      <3>3. w.slist[i].ctl => w.slist[i].seq = 0 /\ w.slist[i].len = CtlLen /\ k = CtlLen
        BY <1>3, <1>5, <2>2, <2>10
      <3> QED BY <2>1, <2>2, <2>5, <2>6, <3>1, <3>2, <3>3, UnsplitSent
    <2> QED BY <2>6, <2>7, <2>8, <2>9, <2>10
  <1> SUFFICES /\ OK(z, L, C) /\ Grows(x, z) /\ Sends(x, z) /\ z.rto_set = TRUE
               /\ x.snd_nxt <= z.snd_nxt /\ z.out # {}
               /\ x.slist[i].xmit = 0 => x.snd_nxt < z.snd_nxt
               /\ OthersWhole(x, i) => Unsplit(z)
    BY DEF Transmits
  <1>6. CASE result = "too_large"
    <2> DEFINE k == n - 1
               w == StepDown(x, k)
    <2>1. k \in Nat /\ k >= CtlLen /\ k \in 1 .. len /\ (len = CtlLen => k = CtlLen)
      BY <1>1, <1>2, <1>4, <1>6
    <2>2. z = Transmitted(w, i, k) BY <1>6 DEF transmit
    <2> HIDE DEF k, n, z
    <2>3. /\ w \in Endpoint /\ Tunes(x, w) /\ w.cwnd > 0 /\ w.mss = k
          /\ w.ssthresh = x.ssthresh /\ w.dup_acks = x.dup_acks
      BY <1>0, <2>1, StepDownIs
    <2>4. OK(w, L, C) /\ Grows(x, w)
      <3>1. w.ssthresh > 0 BY <2>3 DEF OK, Tuned
      <3> HIDE DEF w
      <3> QED BY <2>1, <2>3, <3>1, TunesOK
    <2> QED BY <1>5, <2>1, <2>2, <2>3, <2>4
  <1>7. CASE result # "too_large"
    <2>1. z = Transmitted(x, i, n) BY <1>7 DEF transmit
    <2>2. n \in 1 .. len /\ (len = CtlLen => n = CtlLen) BY <1>1, <1>4
    <2>3. Tunes(x, x) BY TunesSame
    <2>4. Grows(x, x) BY <1>0, GrowsSame
    <2> HIDE DEF n, z
    <2> QED BY <1>5, <2>1, <2>2, <2>3, <2>4
  <1> QED BY <1>6, <1>7

LEMMA NotTransmittedIs ==
    ASSUME NEW x \in Endpoint, NEW i, NEW result, x.mss >= CtlLen, x.cwnd > 0
    PROVE  /\ NotTransmitted(x, i, result) \in Endpoint /\ Tunes(x, NotTransmitted(x, i, result))
           /\ NotTransmitted(x, i, result).mss >= CtlLen
           /\ NotTransmitted(x, i, result).cwnd > 0
           /\ x.cwnd >= CtlLen => NotTransmitted(x, i, result).cwnd >= CtlLen
           /\ NotTransmitted(x, i, result).ssthresh = x.ssthresh
           /\ NotTransmitted(x, i, result).dup_acks = x.dup_acks
  <1> DEFINE z == NotTransmitted(x, i, result)
             w == StepDown(x, MinMss)
  <1>1. MinMss \in Nat /\ MinMss >= CtlLen /\ MinMss = CtlLen BY SizesAre
  <1>2. /\ w \in Endpoint /\ Tunes(x, w) /\ w.cwnd > 0 /\ w.cwnd >= CtlLen /\ w.mss = MinMss
        /\ w.ssthresh = x.ssthresh /\ w.dup_acks = x.dup_acks
    BY <1>1, StepDownIs
  <1>3. Tunes(x, x) BY TunesSame
  <1>4. z = w \/ z = x BY DEF NotTransmitted
  <1> HIDE DEF z, w
  <1>5. /\ z \in Endpoint /\ Tunes(x, z) /\ z.mss >= CtlLen /\ z.cwnd > 0
        /\ x.cwnd >= CtlLen => z.cwnd >= CtlLen
        /\ z.ssthresh = x.ssthresh /\ z.dup_acks = x.dup_acks
    BY <1>1, <1>2, <1>3, <1>4
  <1> QED BY <1>5 DEF z

\* The window is respected, and what may be sent is there.
LEMMA AvailableIs ==
    ASSUME NEW L \in Nat, NEW C, NEW x, OK(x, L, C)
    PROVE  /\ Available(x) \in Nat /\ Available(x) <= x.mss
           /\ x.snd_nxt + Available(x) <= Total(x)
           /\ Available(x) > 0 => x.snd_nxt + Available(x) <= L
  <1> DEFINE u == x.snd_una
             v == x.snd_nxt
             b == Len(x.sbuf)
             w == Window(x)
             s == x.snd_wnd
             m == x.mss
             f == v - u
             use == IF f < w THEN w - f ELSE 0
             n == Least(b - f, m)
             a == Available(x)
  <1>0. x \in Endpoint /\ Tiled(x) BY DEF OK
  <1>1. u \in Nat /\ v \in Nat /\ b \in Nat /\ s \in Nat /\ m \in Nat
    BY <1>0, Fields
  <1>2. u <= v /\ v <= u + b
    <2>1. PICK k : Tiling(x.slist, x.snd_una, x.snd_nxt, Total(x), k) BY <1>0 DEF Tiled
    <2>2. x.slist \in Seq(SSegment) BY <1>0, Fields
    <2>3. x.snd_una <= x.snd_nxt /\ x.snd_nxt <= Total(x) BY <1>1, <2>1, <2>2, CutsBelow
    <2> QED BY <2>3 DEF Total
  <1>3. w \in Nat /\ w <= s
    <2> DEFINE c == IF x.dup_acks \in {1, 2} THEN x.cwnd + x.dup_acks * x.mss ELSE x.cwnd
    <2>1. c \in Nat
      <3>1. x.cwnd \in Nat /\ x.dup_acks \in Nat /\ x.mss \in Nat BY <1>0, Fields
      <3>2. CASE x.dup_acks = 1 BY <3>1, <3>2
      <3>3. CASE x.dup_acks = 2 BY <3>1, <3>3
      <3>4. CASE x.dup_acks \notin {1, 2} BY <3>1, <3>4
      <3> QED BY <3>2, <3>3, <3>4
    <2>2. w = Least(s, c) BY DEF Window
    <2> HIDE DEF w, s, c
    <2> QED BY <1>1, <2>1, <2>2 DEF Least
  <1>4. u + s <= L BY DEF OK, Limited
  <1>5. a = IF n <= use THEN n ELSE IF use * 4 < w THEN 0 ELSE use
    BY DEF Available, InFlight
  <1> SUFFICES /\ a \in Nat /\ a <= m /\ v + a <= u + b /\ (a > 0 => v + a <= L)
    BY DEF Total
  <1> HIDE DEF u, v, b, w, s, m, a
  <1>6. f \in Nat /\ b - f \in Nat /\ f + u = v BY <1>1, <1>2
  <1>7. n \in Nat /\ n <= b - f /\ n <= m BY <1>1, <1>6 DEF Least
  <1>8. use \in Nat /\ (use > 0 => f + use = w) BY <1>3, <1>6
  <1> HIDE DEF n, use
  <1>9. (a = n /\ n <= use) \/ a = 0 \/ (a = use /\ ~(n <= use)) BY <1>5
  <1>10. a \in Nat /\ a <= use /\ a <= n BY <1>9, <1>7, <1>8
  <1> HIDE DEF f
  <1> QED BY <1>1, <1>2, <1>3, <1>4, <1>6, <1>7, <1>8, <1>10

LEMMA FirstUnsentIs ==
    ASSUME NEW s \in Seq(SSegment), NEW una \in Nat, NEW nxt, NEW end, NEW m,
           Tiling(s, una, nxt, end, m), nxt < end
    PROVE  /\ FirstUnsent(s) = m + 1 /\ m + 1 \in 1 .. Len(s) /\ m \in Nat
           /\ s[m + 1].xmit = 0 /\ s[m + 1].seq = nxt
  <1>0. Len(s) \in Nat /\ m \in 0 .. Len(s) BY DEF Tiling
  <1>1. m # Len(s)
    <2> SUFFICES ASSUME m = Len(s) PROVE FALSE OBVIOUS
    <2>1. nxt = end BY DEF Tiling, Tiles
    <2>2. end \in Nat BY CutsBelow
    <2> QED BY <2>1, <2>2
  <1>2. m + 1 \in 1 .. Len(s) /\ m \in Nat BY <1>0, <1>1
  <1>3. \A j \in 1 .. Len(s) : s[j].xmit \in Nat BY SegFields
  <1>4. \A j \in 1 .. Len(s) : s[j].xmit > 0 <=> j <= m BY DEF Tiling
  <1>5. s[m + 1].xmit = 0 BY <1>2, <1>3, <1>4
  <1>6. ASSUME NEW j \in 1 .. m PROVE s[j].xmit > 0 BY <1>0, <1>4
  <1> DEFINE P(i) == s[i].xmit = 0 /\ \A j \in 1 .. i - 1 : s[j].xmit > 0
  <1>7. P(m + 1)
    <2>1. (m + 1) - 1 = m BY <1>0
    <2> QED BY <2>1, <1>5, <1>6
  <1>8. ASSUME NEW i \in 1 .. Len(s), P(i) PROVE i = m + 1
    <2>1. ~(0 > 0) OBVIOUS
    <2>2. ~(i <= m) BY <1>4, <1>8, <2>1
    <2>3. ~(m + 1 < i)
      <3> SUFFICES ASSUME m + 1 < i PROVE FALSE OBVIOUS
      <3>1. m + 1 \in 1 .. i - 1 BY <1>0
      <3>2. s[m + 1].xmit > 0 BY <1>8, <3>1
      <3> QED BY <3>2, <1>5, <2>1
    <2> QED BY <2>2, <2>3, <1>0
  <1>9. FirstUnsent(s) = CHOOSE i \in 1 .. Len(s) : P(i) BY DEF FirstUnsent
  <1> HIDE DEF P
  <1>10. FirstUnsent(s) = m + 1 BY <1>2, <1>7, <1>8, <1>9
  <1>11. s[m + 1].seq = nxt
    <2>1. (m + 1) - 1 = m BY <1>0
    <2>2. s[m + 1].seq = Bound(s, una, m) BY <1>2, <2>1 DEF Tiling, Tiles
    <2> QED BY <2>2 DEF Tiling
  <1> QED BY <1>2, <1>5, <1>10, <1>11

\* The connect message is all that the endpoint has to send, and has not been sent.
Fresh(x) ==
    /\ Len(x.slist) = 1 /\ x.slist[1].ctl /\ x.slist[1].seq = 0
    /\ x.slist[1].len = CtlLen /\ x.slist[1].xmit = 0
    /\ x.snd_una = 0 /\ x.snd_nxt = 0 /\ x.snd_wnd = CtlLen /\ x.cwnd >= CtlLen
    /\ x.dup_acks = 0 /\ x.out = {}

Relisted(x, t) == [x EXCEPT !.slist = t]

LEMMA WithList ==
    ASSUME NEW x \in Endpoint, NEW t \in Seq(SSegment), NEW z, z = Relisted(x, t)
    PROVE  /\ z \in Endpoint /\ z.slist = t /\ Sends(x, z)
           /\ z.snd_nxt = x.snd_nxt /\ z.out = x.out /\ z.ack_set = x.ack_set
           /\ z.mss = x.mss /\ z.cwnd = x.cwnd /\ z.ssthresh = x.ssthresh
           /\ z.rto_set = x.rto_set
  <1>0. z = [x EXCEPT !.slist = t] BY DEF Relisted
  <1>1. z \in Endpoint
    <2>1. [x EXCEPT !.slist = t] \in Endpoint BY Zenon DEF Endpoint
    <2> QED BY <2>1, <1>0
  <1>2. z.slist = t /\ z.snd_nxt = x.snd_nxt /\ z.out = x.out /\ z.ack_set = x.ack_set
    BY <1>0 DEF Endpoint
  <1>3. z.mss = x.mss /\ z.cwnd = x.cwnd /\ z.ssthresh = x.ssthresh /\ z.rto_set = x.rto_set
    BY <1>0 DEF Endpoint
  <1>4. Receiving(x, z) BY <1>0 DEF Endpoint, Receiving
  <1>5. Keeps(x, z) BY <1>0 DEF Endpoint, Keeps
  <1>6. /\ z.state = x.state /\ z.snd_una = x.snd_una /\ z.snd_wnd = x.snd_wnd
        /\ z.sbuf = x.sbuf /\ z.recover = x.recover /\ z.dup_acks = x.dup_acks
    BY <1>0 DEF Endpoint
  <1> QED BY <1>1, <1>2, <1>3, <1>4, <1>5, <1>6 DEF Sends

\* z: x with its next segment, i, cut to the n bytes to send.
Resplits(x, L, C, i, n, z) ==
    /\ OK(z, L, C) /\ Grows(x, z) /\ Sends(x, z)
    /\ Tiling(z.slist, z.snd_una, z.snd_nxt, Total(z), i - 1)
    /\ i \in 1 .. Len(z.slist) /\ z.slist[i].xmit = 0
    /\ z.slist[i].len <= n
    /\ z.snd_nxt = x.snd_nxt /\ z.out = x.out /\ z.ack_set = x.ack_set
    /\ z.mss = x.mss /\ z.cwnd = x.cwnd /\ z.ssthresh = x.ssthresh
    /\ Unsplit(x) => OthersWhole(z, i) /\ Unsplit(z)
    /\ Fresh(x) /\ n = CtlLen => OthersWhole(z, i) /\ Fresh(z)

LEMMA Resplit ==
    ASSUME NEW L \in Nat, NEW C, NEW x, OK(x, L, C), NEW m,
           Tiling(x.slist, x.snd_una, x.snd_nxt, Total(x), m), x.snd_nxt < Total(x),
           NEW n \in Nat \ {0}
    PROVE  Resplits(x, L, C, FirstUnsent(x.slist), n,
                    Relisted(x, Split(x.slist, FirstUnsent(x.slist), n)))
  <1> DEFINE s == x.slist
             i == m + 1
             t == Split(s, i, n)
             z == Relisted(x, t)
  <1>0. x \in Endpoint /\ s \in Seq(SSegment) /\ x.snd_una \in Nat /\ x.snd_nxt \in Nat
    <2>1. x \in Endpoint BY DEF OK
    <2> QED BY <2>1, Fields
  <1>1. /\ FirstUnsent(s) = i /\ i \in 1 .. Len(s) /\ m \in Nat
        /\ s[i].xmit = 0 /\ s[i].seq = x.snd_nxt
    BY <1>0, FirstUnsentIs
  <1>2. /\ t \in Seq(SSegment) /\ i \in 1 .. Len(t)
        /\ i > m => Tiling(t, x.snd_una, x.snd_nxt, Total(x), m)
        /\ Cuts(s, x.snd_una) \subseteq Cuts(t, x.snd_una)
        /\ t[i].seq = s[i].seq /\ t[i].xmit = s[i].xmit /\ t[i].ctl = s[i].ctl
        /\ t[i].len = Least(n, s[i].len)
    <2> DEFINE r == t
    <2> HIDE DEF t
    <2>1. r = Split(s, i, n) BY DEF t
    <2> HIDE DEF i
    <2> HIDE DEF r
    <2> QED BY <1>0, <1>1, <2>1, SplitAny DEF r
  <1>3. i > m /\ s[i].len \in Nat
    <2>1. s[i].len \in Nat BY <1>0, <1>1, SegFields
    <2> QED BY <2>1, <1>1
  <1>4. z = Relisted(x, t) OBVIOUS
  <1> SUFFICES Resplits(x, L, C, i, n, z) BY <1>1
  <1> HIDE DEF z
  <1>5. n >= s[i].len => t = s BY DEF Split
  <1>6. n < s[i].len => Cuts2(t, s, i, n)
    <2> HIDE DEF i
    <2> QED BY <1>0, <1>1, SplitIs
  <1> HIDE DEF t
  <1>7. /\ z \in Endpoint /\ z.slist = t /\ Sends(x, z)
        /\ z.snd_nxt = x.snd_nxt /\ z.out = x.out /\ z.ack_set = x.ack_set
        /\ z.mss = x.mss /\ z.cwnd = x.cwnd /\ z.ssthresh = x.ssthresh
        /\ z.rto_set = x.rto_set
    <2>1. x \in Endpoint /\ t \in Seq(SSegment) BY <1>0, <1>2
    <2> QED BY <2>1, <1>4, WithList
  <1>8. z.slist = t BY <1>7
  <1>9. /\ z.snd_nxt = x.snd_nxt /\ z.out = x.out /\ z.ack_set = x.ack_set
        /\ z.mss = x.mss /\ z.cwnd = x.cwnd /\ z.ssthresh = x.ssthresh /\ z.rto_set = x.rto_set
    BY <1>7
  <1>10. Sends(x, z) BY <1>7
  <1>11. /\ z.snd_una = x.snd_una /\ z.rcv_nxt = x.rcv_nxt /\ z.rcv_wnd = x.rcv_wnd
         /\ z.sbuf = x.sbuf /\ z.recover = x.recover /\ z.state = x.state
         /\ z.snd_wnd = x.snd_wnd
    BY <1>10 DEF Sends, Receiving
  <1> HIDE DEF s
  <1>12. Grows(x, z) BY <1>0, <1>2, <1>7, <1>8, <1>11, GrowsSame DEF s
  <1>13. Total(z) = Total(x) /\ Edge(z) = Edge(x) BY <1>11 DEF Total, Edge
  <1>14. Tiling(z.slist, z.snd_una, z.snd_nxt, Total(z), m)
    BY <1>2, <1>3, <1>8, <1>9, <1>11, <1>13
  <1>15. Tiled(z) BY <1>14, <1>9, <1>11 DEF OK, Tiled
  <1>16. Timed(z) BY <1>9, <1>11 DEF OK, Timed
  <1>17. Limited(z, L) BY <1>9, <1>11 DEF OK, Limited
  <1>18. Counted(z) BY <1>10, <1>13 DEF OK, Counted, Sends, Keeps
  <1>19. Received(z, C) BY <1>10, <1>13 DEF OK, Received, Sends, Receiving
  <1>20. Tuned(z) BY <1>9, <1>10 DEF OK, Tuned, Sends, Keeps
  <1>21. Written(z, C)
    <2>1. Written(x, C) BY DEF OK
    <2> QED BY <2>1, <1>0, <1>7, <1>9, <1>12, WrittenKept
  <1>22. OK(z, L, C) BY <1>7, <1>15, <1>16, <1>17, <1>18, <1>19, <1>20, <1>21 DEF OK
  <1>23. ASSUME Unsplit(x) PROVE OthersWhole(z, i) /\ Unsplit(z)
    <2>1. \A j \in 1 .. Len(s) : WholeSeg(s[j]) BY <1>23 DEF Unsplit, s
    <2>2. ~s[i].ctl
      <3>1. ~(0 > 0) OBVIOUS
      <3> QED BY <3>1, <2>1, <1>1 DEF WholeSeg
    <2>3. ASSUME NEW j \in 1 .. Len(t) PROVE WholeSeg(t[j])
      <3>1. CASE n >= s[i].len BY <3>1, <2>1, <1>5
      <3>2. CASE n < s[i].len
        <4>0. Cuts2(t, s, i, n) BY <3>2, <1>6
        <4>1. Len(t) = Len(s) + 1 /\ Len(s) \in Nat /\ i \in Nat BY <4>0, <1>0, <1>1 DEF Cuts2, s
        <4>2. CASE j < i
          <5>1. j \in 1 .. i - 1 /\ j \in 1 .. Len(s) BY <4>2, <4>1, <1>1
          <5>2. t[j] = s[j] BY <5>1, <4>0 DEF Cuts2
          <5> QED BY <5>1, <5>2, <2>1
        <4>3. CASE j = i
          <5>1. ~t[j].ctl BY <4>3, <1>2, <2>2
          <5> QED BY <5>1 DEF WholeSeg
        <4>4. CASE j = i + 1
          <5>1. t[j] = [s[i] EXCEPT !.seq = @ + n, !.len = @ - n] BY <4>0, <4>4 DEF Cuts2
          <5>2. s[i] \in SSegment BY <1>0, <1>1 DEF s
          <5>3. t[j].ctl = s[i].ctl BY <5>1, <5>2 DEF SSegment
          <5> QED BY <5>3, <2>2 DEF WholeSeg
        <4>5. CASE j > i + 1
          <5>1. j \in i + 2 .. Len(s) + 1 /\ j - 1 \in 1 .. Len(s) BY <4>1, <4>5, <1>1
          <5>2. t[j] = s[j - 1] BY <5>1, <4>0 DEF Cuts2
          <5> QED BY <5>1, <5>2, <2>1
        <4>6. j \in Nat BY <4>1
        <4> QED BY <4>1, <4>2, <4>3, <4>4, <4>5, <4>6
      <3>3. n >= s[i].len \/ n < s[i].len BY <1>3
      <3> QED BY <3>1, <3>2, <3>3
    <2>4. \A p \in z.out : WholePacket(p) BY <1>23, <1>9 DEF Unsplit
    <2>5. ~t[i].ctl BY <1>2, <2>2
    <2> QED BY <2>3, <2>4, <2>5, <1>8 DEF OthersWhole, Unsplit
  <1>24. ASSUME Fresh(x), n = CtlLen PROVE OthersWhole(z, i) /\ Fresh(z)
    <2>1. Len(s) = 1 /\ s[1].ctl /\ s[1].seq = 0 /\ s[1].len = CtlLen /\ s[1].xmit = 0
          /\ x.out = {} /\ x.dup_acks = 0
      BY <1>24 DEF Fresh, s
    <2>2. i = 1 BY <2>1, <1>1
    <2>3. t = s BY <1>24, <2>1, <2>2, <1>3, <1>5
    <2>4. z.dup_acks = x.dup_acks BY <1>10 DEF Sends
    <2>5. Fresh(z) BY <1>24, <2>3, <2>4, <1>8, <1>9, <1>11 DEF Fresh, s
    <2>6. OthersWhole(z, i)
      <3>0. Len(t) = 1 /\ \A j \in 1 .. 1 : j = 1 BY <2>1, <2>3
      <3>1. \A j \in 1 .. Len(t) : j = i BY <3>0, <2>2, Zenon
      <3> QED BY <3>1, <2>1, <2>2, <2>3, <1>8, <1>9 DEF OthersWhole
    <2> QED BY <2>5, <2>6
  <1>25. z.slist[i].len <= n
    <2> DEFINE l == s[i].len
    <2>1. l \in Nat /\ z.slist[i].len = Least(n, l) BY <1>2, <1>3, <1>8
    <2>2. Least(n, l) <= n
      <3> HIDE DEF l
      <3> QED BY <2>1 DEF Least
    <2> QED BY <2>1, <2>2
  <1>26. Tiling(z.slist, z.snd_una, z.snd_nxt, Total(z), i - 1)
    <2>1. i - 1 = m BY <1>1
    <2> QED BY <2>1, <1>14
  <1> HIDE DEF i
  <1> QED BY <1>1, <1>2, <1>8, <1>9, <1>10, <1>12, <1>22, <1>23, <1>24, <1>25, <1>26 DEF Resplits


\* An acknowledgement or a probe.
Outs(x, o) == [x EXCEPT !.ack_set = FALSE, !.out = o]
Emits(x, o, z) ==
    /\ z \in Endpoint /\ Sends(x, z) /\ z.out = o /\ z.ack_set = FALSE
    /\ z.snd_nxt = x.snd_nxt /\ z.slist = x.slist /\ z.rto_set = x.rto_set
    /\ z.mss = x.mss /\ z.cwnd = x.cwnd /\ z.ssthresh = x.ssthresh

LEMMA WithOut ==
    ASSUME NEW x \in Endpoint, NEW o, \A p \in o : p \in Packet
    PROVE  Emits(x, o, Outs(x, o))
  <1> DEFINE y == [x EXCEPT !.ack_set = FALSE]
             w == [y EXCEPT !.out = o]
  <1>0. o \in SUBSET Packet OBVIOUS
  <1>1. y \in Endpoint BY Zenon DEF Endpoint
  <1>2. /\ y.snd_nxt = x.snd_nxt /\ y.slist = x.slist /\ y.rto_set = x.rto_set
        /\ y.mss = x.mss /\ y.cwnd = x.cwnd /\ y.ssthresh = x.ssthresh /\ y.ack_set = FALSE
    BY DEF Endpoint
  <1>3. Sends(x, y) BY DEF Endpoint, Sends, Receiving, Keeps
  <1> HIDE DEF y
  <1>4. w \in Endpoint BY <1>0, <1>1, Zenon DEF Endpoint
  <1>5. /\ w.snd_nxt = y.snd_nxt /\ w.slist = y.slist /\ w.rto_set = y.rto_set
        /\ w.mss = y.mss /\ w.cwnd = y.cwnd /\ w.ssthresh = y.ssthresh
        /\ w.ack_set = y.ack_set /\ w.out = o
    BY <1>1 DEF Endpoint
  <1>6. Sends(y, w) BY <1>1 DEF Endpoint, Sends, Receiving, Keeps
  <1>7. Outs(x, o) = w BY DEF Outs, y
  <1> HIDE DEF w
  <1>8. Sends(x, w) BY <1>3, <1>6 DEF Sends, Receiving, Keeps
  <1> QED BY <1>2, <1>4, <1>5, <1>7, <1>8 DEF Emits

Acks(x, L, C, z) ==
    /\ OK(z, L, C) /\ Grows(x, z) /\ Sends(x, z) /\ z.ack_set = FALSE
    /\ z.snd_nxt = x.snd_nxt /\ z.slist = x.slist /\ z.rto_set = x.rto_set
    /\ z.mss = x.mss /\ z.cwnd = x.cwnd /\ z.ssthresh = x.ssthresh
    /\ Unsplit(x) => Unsplit(z)

LEMMA EmptiesOK ==
    ASSUME NEW L, NEW C, NEW x, OK(x, L, C), NEW seq \in Int
    PROVE  /\ Acks(x, L, C, packet(x, seq, FALSE, 0, 0))
           /\ packet(x, seq, FALSE, 0, 0).out = x.out \cup {EmptyPacket(x, seq)}
  <1> DEFINE z == packet(x, seq, FALSE, 0, 0)
  <1>0. x \in Endpoint BY DEF OK
  <1> DEFINE p == EmptyPacket(x, seq)
             o == x.out \cup {p}
  <1>1. z = Outs(x, o) BY Zenon DEF packet, EmptyPacket, Outs
  <1> SUFFICES Acks(x, L, C, z) /\ z.out = o OBVIOUS
  <1> HIDE DEF z
  <1>2. PacketOK(x, p, C)
    <2>1. x.rcv_nxt \in C BY DEF OK, Received
    <2> QED BY <1>0, <2>1, EmptyPacketOK
  <1>3. \A q \in o : q \in Packet
    <2>1. p \in Packet BY <1>2 DEF PacketOK
    <2> HIDE DEF p
    <2> QED BY <2>1, <1>0, Fields
  <1>4. ~p.ctl BY DEF EmptyPacket
  <1> HIDE DEF o, p
  <1>5. /\ z \in Endpoint /\ Sends(x, z) /\ z.out = o /\ z.ack_set = FALSE
        /\ z.snd_nxt = x.snd_nxt /\ z.slist = x.slist /\ z.rto_set = x.rto_set
        /\ z.mss = x.mss /\ z.cwnd = x.cwnd /\ z.ssthresh = x.ssthresh
    <2>1. Emits(x, o, Outs(x, o)) BY <1>0, <1>3, WithOut
    <2> QED BY <2>1, <1>1 DEF Emits
  <1>6. z \in Endpoint BY <1>5
  <1>7. z.ack_set = FALSE /\ z.snd_nxt = x.snd_nxt /\ z.slist = x.slist /\ z.rto_set = x.rto_set
    BY <1>5
  <1>8. z.mss = x.mss /\ z.cwnd = x.cwnd /\ z.ssthresh = x.ssthresh BY <1>5
  <1>9. Receiving(x, z) BY <1>5 DEF Sends
  <1>10. Keeps(x, z) BY <1>5 DEF Sends
  <1>11. /\ z.state = x.state /\ z.snd_una = x.snd_una /\ z.snd_wnd = x.snd_wnd
         /\ z.sbuf = x.sbuf /\ z.recover = x.recover /\ z.dup_acks = x.dup_acks
    BY <1>5 DEF Sends
  <1>12. Sends(x, z) BY <1>5
  <1>13. /\ z.rcv_nxt = x.rcv_nxt /\ z.rcv_wnd = x.rcv_wnd /\ z.rlist = x.rlist
         /\ z.readable = x.readable /\ z.ahead = x.ahead
    BY <1>9 DEF Receiving
  <1>14. Total(z) = Total(x) /\ Edge(z) = Edge(x) BY <1>11, <1>13 DEF Total, Edge
  <1>15. Grows(x, z)
    <2>1. Cuts(x.slist, x.snd_una) \subseteq Cuts(z.slist, x.snd_una) BY <1>7
    <2> QED BY <2>1, <1>0, <1>6, <1>11, <1>13, GrowsSame
  <1>16. Tiled(z) BY <1>7, <1>11, <1>14 DEF OK, Tiled
  <1>17. Timed(z) BY <1>7, <1>11 DEF OK, Timed
  <1>18. Limited(z, L) BY <1>7, <1>11 DEF OK, Limited
  <1>19. Counted(z) BY <1>10, <1>11, <1>14 DEF OK, Counted, Keeps
  <1>20. Received(z, C) BY <1>13, <1>14 DEF OK, Received
  <1>21. Tuned(z) BY <1>8, <1>10 DEF OK, Tuned, Keeps
  <1>22. Written(z, C)
    <2>1. Written(x, C) BY DEF OK
    <2>2. PacketOK(z, p, C) BY <1>0, <1>2, <1>6, <1>15, PacketKept
    <2>3. \A q \in z.out : q \in x.out \/ PacketOK(z, q, C) BY <1>5, <2>2 DEF o
    <2> QED BY <2>1, <2>3, <1>0, <1>6, <1>15, WrittenKept
  <1>23. OK(z, L, C) BY <1>6, <1>16, <1>17, <1>18, <1>19, <1>20, <1>21, <1>22 DEF OK
  <1>24. Unsplit(x) => Unsplit(z) BY <1>4, <1>5, <1>7 DEF Unsplit, WholePacket, o
  <1> QED BY <1>5, <1>7, <1>8, <1>12, <1>15, <1>23, <1>24 DEF Acks

-----------------------------------------------------------------------------
(* attemptSend                                                             *)

\* x: what sending has made of x0.
Progress(x0, L, C, x) ==
    /\ OK(x, L, C) /\ Grows(x0, x) /\ Sends(x0, x) /\ x0.snd_nxt <= x.snd_nxt
    /\ Unsplit(x0) => Unsplit(x)
    /\ Fresh(x0) => Fresh(x) \/ Unsplit(x)
\* Nothing is written without a byte of the stream.
Quiet(x0, x) == x.snd_nxt = x0.snd_nxt => x.out = x0.out /\ (x.ack_set => x0.ack_set)

LEMMA ProgressTrans ==
    ASSUME NEW L, NEW C, NEW x0 \in Endpoint, NEW x, NEW y,
           Progress(x0, L, C, x), Progress(x, L, C, y)
    PROVE  Progress(x0, L, C, y) /\ (Quiet(x0, x) /\ Quiet(x, y) => Quiet(x0, y))
  <1>1. x \in Endpoint /\ y \in Endpoint BY DEF Progress, OK
  <1>2. Grows(x0, y) BY <1>1, GrowsTrans DEF Progress
  <1>3. Sends(x0, y) BY DEF Progress, Sends, Receiving, Keeps
  <1> DEFINE a == x0.snd_nxt
             b == x.snd_nxt
             c == y.snd_nxt
  <1>4. a \in Nat /\ b \in Nat /\ c \in Nat BY <1>1, Fields
  <1>5. a <= b /\ b <= c BY DEF Progress
  <1>6. a <= c /\ (c = a => b = a /\ c = b)
    <2> HIDE DEF a, b, c
    <2> QED BY <1>4, <1>5
  <1>7. Progress(x0, L, C, y) BY <1>2, <1>3, <1>6 DEF Progress
  <1>8. Quiet(x0, x) /\ Quiet(x, y) => Quiet(x0, y) BY <1>6 DEF Quiet
  <1> QED BY <1>7, <1>8

LEMMA ProgressSame ==
    ASSUME NEW L, NEW C, NEW x, OK(x, L, C)
    PROVE  Progress(x, L, C, x) /\ Quiet(x, x)
  <1>1. x \in Endpoint BY DEF OK
  <1>2. Grows(x, x) BY <1>1, GrowsSame
  <1>3. x.snd_nxt <= x.snd_nxt BY <1>1, Fields
  <1>4. Sends(x, x) BY DEF Sends, Receiving, Keeps
  <1> QED BY <1>2, <1>3, <1>4 DEF Progress, Quiet

\* A change of the congestion control on the way.
LEMMA ProgressTunes ==
    ASSUME NEW L, NEW C, NEW x, OK(x, L, C), NEW y \in Endpoint, Tunes(x, y),
           y.mss >= CtlLen, y.cwnd > 0, y.ssthresh > 0, y.dup_acks = x.dup_acks,
           x.cwnd >= CtlLen => y.cwnd >= CtlLen
    PROVE  Progress(x, L, C, y) /\ Quiet(x, y)
  <1>1. x \in Endpoint BY DEF OK
  <1>2. OK(y, L, C) /\ Grows(x, y) BY TunesOK
  <1>3. x.snd_nxt <= y.snd_nxt /\ y.out = x.out /\ y.slist = x.slist /\ y.ack_set = x.ack_set
        /\ y.snd_una = x.snd_una /\ y.snd_nxt = x.snd_nxt /\ y.snd_wnd = x.snd_wnd
    <2>1. x.snd_nxt <= x.snd_nxt BY <1>1, Fields
    <2> QED BY <2>1 DEF Tunes, Steady
  <1>4. Sends(x, y) BY DEF Tunes, Steady, Sends, Receiving, Keeps
  <1>5. Unsplit(x) => Unsplit(y) BY <1>3 DEF Unsplit
  <1>6. Fresh(x) => Fresh(y) BY <1>3 DEF Fresh
  <1> QED BY <1>2, <1>3, <1>4, <1>5, <1>6 DEF Progress, Quiet

\* The connect message fits the window and a packet.
LEMMA FreshAvailable ==
    ASSUME NEW L, NEW C, NEW x, OK(x, L, C), Fresh(x)
    PROVE  Available(x) = CtlLen
  <1>0. x \in Endpoint /\ CtlLen \in Nat /\ CtlLen > 0
    <2>1. x \in Endpoint BY DEF OK
    <2> QED BY <2>1, SizesAre
  <1> DEFINE b == Len(x.sbuf)
             c == x.cwnd
             m == x.mss
             s == x.slist
  <1>1. b \in Nat /\ c \in Nat /\ m \in Nat /\ c >= CtlLen /\ m >= CtlLen
    BY <1>0, Fields DEF Fresh, OK, Tuned
  <1>2. b = CtlLen
    <2>1. PICK k : Tiling(s, x.snd_una, x.snd_nxt, Total(x), k) BY DEF OK, Tiled
    <2>2. Total(x) = Bound(s, x.snd_una, Len(s)) BY <2>1 DEF Tiling, Tiles
    <2>3. Len(s) = 1 /\ s[1].seq = 0 /\ s[1].len = CtlLen /\ x.snd_una = 0 BY DEF Fresh
    <2>4. Total(x) = 0 + CtlLen BY <2>2, <2>3 DEF Bound
    <2>5. Total(x) = 0 + b BY <2>3 DEF Total
    <2> HIDE DEF b
    <2> QED BY <2>4, <2>5, <1>0, <1>1
  <1>3. InFlight(x) = 0 BY DEF Fresh, InFlight
  <1>4. Window(x) = CtlLen
    <2>1. x.dup_acks \notin {1, 2} /\ x.snd_wnd = CtlLen BY DEF Fresh
    <2>2. Window(x) = Least(CtlLen, c) BY <2>1 DEF Window
    <2> HIDE DEF c
    <2> QED BY <2>2, <1>0, <1>1 DEF Least
  <1>5. Least(b - 0, m) = CtlLen
    <2> HIDE DEF b, m
    <2> QED BY <1>0, <1>1, <1>2 DEF Least
  <1> DEFINE use == IF InFlight(x) < Window(x) THEN Window(x) - InFlight(x) ELSE 0
  <1>6. use = CtlLen BY <1>0, <1>3, <1>4
  <1>7. Available(x) = IF Least(b - InFlight(x), m) <= use THEN Least(b - InFlight(x), m)
                       ELSE IF use * 4 < Window(x) THEN 0 ELSE use
    BY DEF Available
  <1> HIDE DEF use, b, m
  <1> QED BY <1>0, <1>3, <1>5, <1>6, <1>7

TurnType == [x : Endpoint, ack : {"none", "now", "delayed"},
             result : {"success", "fail", "too_large"}, more : BOOLEAN]
\* z: what one turn makes of y.
Turned(L, C, y, z) ==
    /\ z \in TurnType /\ Progress(y.x, L, C, z.x)
    /\ y.ack = "none" => z.ack = "none" /\ Quiet(y.x, z.x)

\* The loop ends with the endpoint e.
LEMMA TurnEnds ==
    ASSUME NEW L, NEW C, NEW y \in TurnType, NEW e, Progress(y.x, L, C, e),
           y.ack = "none" => Quiet(y.x, e),
           NEW z, z = [y EXCEPT !.x = e, !.more = FALSE]
    PROVE  Turned(L, C, y, z)
  <1>1. e \in Endpoint BY DEF Progress, OK
  <1>2. z \in TurnType BY <1>1, Zenon DEF TurnType
  <1>3. z.x = e /\ z.ack = y.ack BY DEF TurnType
  <1> QED BY <1>2, <1>3 DEF Turned

LEMMA AckSetOK ==
    ASSUME NEW L, NEW C, NEW x, OK(x, L, C), NEW e, e = [x EXCEPT !.ack_set = TRUE]
    PROVE  /\ OK(e, L, C) /\ Grows(x, e) /\ Sends(x, e) /\ e.snd_nxt = x.snd_nxt
           /\ e.slist = x.slist /\ e.out = x.out
  <1>0. x \in Endpoint BY DEF OK
  <1>1. e \in Endpoint
    <2>1. [x EXCEPT !.ack_set = TRUE] \in Endpoint BY <1>0, Zenon DEF Endpoint
    <2> QED BY <2>1
  <1>2. Steady(x, e) BY <1>0 DEF Endpoint, Steady
  <1>3. Sends(x, e) BY <1>0 DEF Endpoint, Sends, Receiving, Keeps
  <1>4. e.mss = x.mss /\ e.cwnd = x.cwnd /\ e.ssthresh = x.ssthresh BY <1>0 DEF Endpoint
  <1>5. Tuned(e) /\ StateMoves(x, e) BY <1>3, <1>4 DEF OK, Tuned, Sends, Keeps, StateMoves
  <1>6. OK(e, L, C) /\ Grows(x, e) BY <1>1, <1>2, <1>5, Retuned
  <1> QED BY <1>2, <1>3, <1>6 DEF Steady

\* Nothing may be sent: an acknowledgement that is owed goes out on its own.
LEMMA NothingSent ==
    ASSUME NEW L \in Nat, NEW C, NEW y \in TurnType, NEW x, y.x = x, OK(x, L, C),
           Available(x) = 0
    PROVE  Turned(L, C, y, SendBytes(y, x, 0))
  <1> DEFINE e == IF y.ack = "none" THEN x
                  ELSE IF y.ack = "now" \/ x.ack_set THEN SendAck(x)
                  ELSE [x EXCEPT !.ack_set = TRUE]
             z == SendBytes(y, x, 0)
  <1>0. x \in Endpoint /\ ~Fresh(x)
    <2>1. x \in Endpoint BY DEF OK
    <2>2. CtlLen # 0 BY SizesAre
    <2> QED BY <2>1, <2>2, FreshAvailable
  <1>8. x.snd_nxt \in Int /\ x.snd_nxt <= x.snd_nxt BY <1>0, Fields
  <1>1. z = [y EXCEPT !.x = e, !.more = FALSE]
    <2>1. z = [y EXCEPT !.more = FALSE, !.x = e] BY DEF SendBytes
    <2> HIDE DEF z, e
    <2> QED BY <2>1 DEF TurnType
  <1>2. Progress(x, L, C, e) /\ (y.ack = "none" => Quiet(x, e))
    <2>1. CASE y.ack = "none" BY <2>1, ProgressSame
    <2>2. CASE y.ack # "none" /\ (y.ack = "now" \/ x.ack_set)
      <3>0. e = packet(x, x.snd_nxt, FALSE, 0, 0) BY <2>2, Zenon DEF SendAck
      <3> HIDE DEF e
      <3>1. /\ OK(e, L, C) /\ Grows(x, e) /\ Sends(x, e) /\ e.snd_nxt = x.snd_nxt
            /\ Unsplit(x) => Unsplit(e)
        <4>1. Acks(x, L, C, e) BY <1>8, <3>0, EmptiesOK
        <4> QED BY <4>1 DEF Acks
      <3> QED BY <2>2, <3>1, <1>8, <1>0 DEF Progress
    <2>3. CASE y.ack # "none" /\ ~(y.ack = "now" \/ x.ack_set)
      <3>0. e = [x EXCEPT !.ack_set = TRUE] BY <2>3, Zenon
      <3> HIDE DEF e
      <3>1. /\ OK(e, L, C) /\ Grows(x, e) /\ Sends(x, e) /\ e.snd_nxt = x.snd_nxt
            /\ e.slist = x.slist /\ e.out = x.out
        BY <3>0, AckSetOK
      <3> QED BY <2>3, <3>1, <1>8, <1>0 DEF Progress, Unsplit
    <2> QED BY <2>1, <2>2, <2>3
  <1> SUFFICES Turned(L, C, y, z) OBVIOUS
  <1> HIDE DEF z, e
  <1>3. Progress(y.x, L, C, e) /\ (y.ack = "none" => Quiet(y.x, e)) BY <1>2
  <1> QED BY <1>1, <1>3, TurnEnds

\* The next n bytes go out, or cannot.
LEMMA SegmentSends ==
    ASSUME NEW L \in Nat, NEW C, NEW y \in TurnType, NEW x, y.x = x, OK(x, L, C),
           NEW n \in Nat \ {0}, n <= x.mss, x.snd_nxt + n <= Total(x), x.snd_nxt + n <= L,
           Fresh(x) => n = CtlLen
    PROVE  Turned(L, C, y, SendSegment(y, Relisted(x, Split(x.slist, FirstUnsent(x.slist), n)),
                                       FirstUnsent(x.slist)))
  <1>0. x \in Endpoint /\ Tiled(x) BY DEF OK
  <1>1. x.slist \in Seq(SSegment) /\ x.snd_una \in Nat /\ x.snd_nxt \in Nat BY <1>0, Fields
  <1>2. PICK m : Tiling(x.slist, x.snd_una, x.snd_nxt, Total(x), m) BY <1>0 DEF Tiled
  <1>3. x.snd_nxt < Total(x) /\ Total(x) \in Nat
    <2> DEFINE a == x.snd_nxt
               b == Total(x)
    <2>1. a \in Nat /\ b \in Nat /\ a + n <= b BY <1>1, <1>2, CutsBelow
    <2> SUFFICES a < b /\ b \in Nat OBVIOUS
    <2> HIDE DEF a, b
    <2> QED BY <2>1
  <1> DEFINE i == m + 1
             w == Relisted(x, Split(x.slist, i, n))
             z == SendSegment(y, w, i)
  <1>4. FirstUnsent(x.slist) = i /\ m \in Nat BY <1>1, <1>2, <1>3, FirstUnsentIs
  <1>5. /\ OK(w, L, C) /\ Grows(x, w) /\ Sends(x, w)
        /\ Tiling(w.slist, w.snd_una, w.snd_nxt, Total(w), m)
        /\ i \in 1 .. Len(w.slist) /\ w.slist[i].xmit = 0 /\ w.slist[i].len <= n
        /\ w.snd_nxt = x.snd_nxt /\ w.out = x.out /\ w.ack_set = x.ack_set
        /\ w.mss = x.mss /\ w.cwnd = x.cwnd /\ w.ssthresh = x.ssthresh
        /\ Unsplit(x) => OthersWhole(w, i) /\ Unsplit(w)
        /\ Fresh(x) /\ n = CtlLen => OthersWhole(w, i) /\ Fresh(w)
    <2>1. i - 1 = m BY <1>4
    <2>2. Resplits(x, L, C, i, n, w) BY <1>2, <1>3, <1>4, Resplit
    <2> HIDE DEF w, i
    <2> QED BY <2>1, <2>2 DEF Resplits
  <1> SUFFICES Turned(L, C, y, z) BY <1>4
  <1>6. z = IF FailsToTransmit(w, i, y.result)
            THEN [y EXCEPT !.x = NotTransmitted(w, i, y.result), !.more = FALSE]
            ELSE [x |-> transmit(w, i, y.result), ack |-> "none",
                  result |-> "success", more |-> TRUE]
    BY DEF SendSegment
  <1> HIDE DEF w, z
  <1>7. w \in Endpoint BY <1>5 DEF OK
  <1>8. Progress(x, L, C, w) /\ Quiet(x, w)
    <2>1. x.snd_nxt <= w.snd_nxt BY <1>1, <1>5
    <2> QED BY <2>1, <1>5 DEF Progress, Quiet
  <1>9. CASE FailsToTransmit(w, i, y.result)
    <2> DEFINE e == NotTransmitted(w, i, y.result)
    <2>1. w.mss >= CtlLen /\ w.cwnd > 0 /\ w.ssthresh > 0 BY <1>5 DEF OK, Tuned
    <2>2. /\ e \in Endpoint /\ Tunes(w, e) /\ e.mss >= CtlLen /\ e.cwnd > 0
          /\ w.cwnd >= CtlLen => e.cwnd >= CtlLen
          /\ e.ssthresh = w.ssthresh /\ e.dup_acks = w.dup_acks
      <3> DEFINE r == y.result
      <3> HIDE DEF r, i
      <3> QED BY <1>7, <2>1, NotTransmittedIs DEF r
    <2>3. z = [y EXCEPT !.x = e, !.more = FALSE] BY <1>6, <1>9
    <2> HIDE DEF e
    <2>4. Progress(w, L, C, e) /\ Quiet(w, e) BY <1>5, <2>1, <2>2, ProgressTunes
    <2>5. Progress(x, L, C, e) /\ Quiet(x, e) BY <1>0, <1>8, <2>4, ProgressTrans
    <2> QED BY <2>3, <2>5, TurnEnds
  <1>10. CASE ~FailsToTransmit(w, i, y.result)
    <2> DEFINE e == transmit(w, i, y.result)
    <2>1. w.slist[i].xmit = 0 => w.snd_nxt + w.slist[i].len <= L
      <3> DEFINE a == x.snd_nxt
                 l == w.slist[i].len
      <3>1. l \in Nat BY <1>5, <1>7, Fields, SegFields
      <3>2. a \in Nat /\ l <= n /\ a + n <= L /\ w.snd_nxt = a BY <1>1, <1>5
      <3> SUFFICES a + l <= L BY <3>2
      <3> HIDE DEF a, l
      <3> QED BY <3>1, <3>2
    <2>2. i <= m + 1 BY <1>4
    <2>3. /\ OK(e, L, C) /\ Grows(w, e) /\ Sends(w, e) /\ e.rto_set = TRUE
          /\ w.snd_nxt <= e.snd_nxt
          /\ w.slist[i].xmit = 0 => w.snd_nxt < e.snd_nxt
          /\ e.out # {}
          /\ OthersWhole(w, i) => Unsplit(e)
      <3> DEFINE r == y.result
      <3>1. ~FailsToTransmit(w, i, r) BY <1>10
      <3>2. MayGo(w, i, L) BY <2>1 DEF MayGo
      <3>3. OK(w, L, C) /\ Tiling(w.slist, w.snd_una, w.snd_nxt, Total(w), m)
            /\ i \in 1 .. Len(w.slist) BY <1>5
      <3> HIDE DEF r, i
      <3>4. Transmits(w, L, C, i, transmit(w, i, r)) BY <2>2, <3>1, <3>2, <3>3, TransmitOK
      <3> QED BY <3>4 DEF r, Transmits
    <2>4. z = [x |-> e, ack |-> "none", result |-> "success", more |-> TRUE] BY <1>6, <1>10
    <2> HIDE DEF e, i
    <2>5. e \in Endpoint BY <2>3 DEF OK
    <2>6. z \in TurnType /\ z.x = e /\ z.ack = "none" BY <2>4, <2>5 DEF TurnType
    <2>7. x.snd_nxt <= e.snd_nxt /\ e.snd_nxt # x.snd_nxt
      <3> DEFINE a == x.snd_nxt
                 b == e.snd_nxt
      <3>1. a \in Nat /\ b \in Nat /\ a < b BY <1>1, <1>5, <2>3, <2>5, Fields
      <3> HIDE DEF a, b
      <3>2. a <= b /\ b # a BY <3>1
      <3> QED BY <3>2 DEF a, b
    <2>8. Grows(x, e) BY <1>0, <1>5, <1>7, <2>3, <2>5, GrowsTrans
    <2>9. Sends(x, e) BY <1>5, <2>3 DEF Sends, Receiving, Keeps
    <2>10. Progress(x, L, C, e) BY <1>5, <2>3, <2>7, <2>8, <2>9 DEF Progress
    <2>11. Quiet(x, e) BY <2>7 DEF Quiet
    <2> QED BY <2>6, <2>10, <2>11 DEF Turned
  <1> QED BY <1>9, <1>10

LEMMA TurnOK ==
    ASSUME NEW L \in Nat, NEW C, NEW y \in TurnType, OK(y.x, L, C)
    PROVE  Turned(L, C, y, SendOnce(y))
  <1> DEFINE n == Available(y.x)
  <1>0. Progress(y.x, L, C, y.x) /\ Quiet(y.x, y.x) BY ProgressSame
  <1>1. CASE ~y.more
    <2>1. SendOnce(y) = y BY <1>1 DEF SendOnce
    <2> QED BY <2>1, <1>0 DEF Turned
  <1>2. CASE y.more
    <2>0. SendOnce(y) = SendBytes(y, y.x, n) BY <1>2 DEF SendOnce
    <2> DEFINE x == y.x
    <2>1. OK(x, L, C) /\ y.x = x OBVIOUS
    <2>2. /\ n \in Nat /\ n <= x.mss /\ x.snd_nxt + n <= Total(x)
          /\ n > 0 => x.snd_nxt + n <= L
      <3> HIDE DEF x
      <3> QED BY <2>1, AvailableIs DEF x
    <2>3. CASE n = 0
      <3> HIDE DEF x
      <3>1. Turned(L, C, y, SendBytes(y, x, 0)) BY <2>1, <2>3, NothingSent
      <3> QED BY <2>0, <2>3, <3>1 DEF x
    <2>4. CASE n # 0 /\ Nagling /\ x.snd_nxt > x.snd_una /\ n < x.mss
      <3> DEFINE z == SendBytes(y, y.x, n)
      <3>1. z = [y EXCEPT !.more = FALSE] BY <2>4 DEF SendBytes
      <3> HIDE DEF z
      <3>2. z \in TurnType /\ z.x = y.x /\ z.ack = y.ack BY <3>1 DEF TurnType
      <3>3. Turned(L, C, y, z) BY <1>0, <3>2 DEF Turned
      <3> QED BY <3>3, <2>0 DEF z
    <2>5. CASE n # 0 /\ ~(Nagling /\ x.snd_nxt > x.snd_una /\ n < x.mss)
      <3>1. SendBytes(y, x, n)
            = SendSegment(y, [x EXCEPT !.slist = Split(@, FirstUnsent(@), n)],
                          FirstUnsent(x.slist))
        BY <2>5 DEF SendBytes
      <3>2. [x EXCEPT !.slist = Split(@, FirstUnsent(@), n)]
            = Relisted(x, Split(x.slist, FirstUnsent(x.slist), n))
        BY DEF Relisted
      <3>3. Fresh(x) => n = CtlLen BY FreshAvailable
      <3>4. n \in Nat \ {0} /\ n <= x.mss /\ x.snd_nxt + n <= Total(x) /\ x.snd_nxt + n <= L
        BY <2>2, <2>5
      <3> HIDE DEF n, x
      <3>5. Turned(L, C, y, SendSegment(y, Relisted(x, Split(x.slist, FirstUnsent(x.slist), n)),
                                        FirstUnsent(x.slist)))
        BY <2>1, <3>3, <3>4, SegmentSends
      <3> QED BY <2>0, <3>1, <3>2, <3>5 DEF x
    <2> QED BY <2>3, <2>4, <2>5
  <1> QED BY <1>1, <1>2

LEMMA AttemptOK ==
    ASSUME NEW L \in Nat, NEW C, NEW x, OK(x, L, C), NEW ack \in {"none", "now", "delayed"},
           NEW idle \in BOOLEAN, NEW result \in {"success", "fail", "too_large"}
    PROVE  /\ Progress(x, L, C, attemptSend(x, ack, idle, result))
           /\ ack = "none" => Quiet(x, attemptSend(x, ack, idle, result))
  <1> DEFINE e == IF idle THEN [x EXCEPT !.cwnd = x.mss] ELSE x
             start == [x |-> e, ack |-> ack, result |-> result, more |-> TRUE]
             N == SndBuf + 1
             E(f) == [k \in 0 .. N |-> IF k = 0 THEN start ELSE SendOnce(f[k - 1])]
             turn == CHOOSE f : f = E(f)
             K == {y \in TurnType : /\ Progress(x, L, C, y.x)
                                    /\ ack = "none" => y.ack = "none" /\ Quiet(x, y.x)}
             F == [y \in K |-> SendOnce(y)]
  <1>0. x \in Endpoint /\ N \in Nat /\ N \in 0 .. N
    <2>1. N \in Nat BY SizesAre
    <2>2. x \in Endpoint BY DEF OK
    <2> HIDE DEF N
    <2> QED BY <2>1, <2>2
  <1>1. attemptSend(x, ack, idle, result) = turn[N].x BY Zenon DEF attemptSend
  <1>2. Progress(x, L, C, e) /\ Quiet(x, e)
    <2>1. CASE ~idle BY <2>1, ProgressSame
    <2>2. CASE idle
      <3> DEFINE c == x.mss
                 d == [x EXCEPT !.cwnd = c]
      <3>1. c \in Nat /\ c >= CtlLen /\ x.ssthresh > 0 /\ c > 0
        <4>1. c \in Nat /\ c >= CtlLen /\ x.ssthresh > 0 BY <1>0, Fields DEF OK, Tuned
        <4> HIDE DEF c
        <4> QED BY <4>1, SizesAre
      <3>2. e = d BY <2>2
      <3> HIDE DEF c
      <3>3. /\ d \in Endpoint /\ Tunes(x, d) /\ d.cwnd = c /\ d.mss = x.mss
            /\ d.ssthresh = x.ssthresh /\ d.dup_acks = x.dup_acks
        BY <1>0, <3>1, WithCwnd
      <3> HIDE DEF d
      <3>4. Progress(x, L, C, d) /\ Quiet(x, d)
        <4>1. d.mss >= CtlLen /\ d.cwnd > 0 /\ d.ssthresh > 0 /\ d.cwnd >= CtlLen
          BY <3>1, <3>3 DEF c
        <4> QED BY <3>3, <4>1, ProgressTunes
      <3> QED BY <3>2, <3>4
    <2> QED BY <2>1, <2>2
  <1>3. start \in K
    <2>1. e \in Endpoint BY <1>2 DEF Progress, OK
    <2> HIDE DEF e
    <2>2. start \in TurnType BY <2>1 DEF TurnType
    <2> QED BY <2>2, <1>2
  <1>4. ASSUME NEW y \in K PROVE SendOnce(y) \in K
    <2> DEFINE z == SendOnce(y)
    <2>1. y \in TurnType /\ Progress(x, L, C, y.x) OBVIOUS
    <2>2. OK(y.x, L, C) BY <2>1 DEF Progress
    <2>3. Turned(L, C, y, z) BY <2>1, <2>2, TurnOK
    <2> HIDE DEF z
    <2>4. z \in TurnType /\ Progress(y.x, L, C, z.x)
          /\ (y.ack = "none" => z.ack = "none" /\ Quiet(y.x, z.x))
      BY <2>3 DEF Turned
    <2>5. /\ Progress(x, L, C, z.x)
          /\ Quiet(x, y.x) /\ Quiet(y.x, z.x) => Quiet(x, z.x)
      BY <1>0, <2>1, <2>4, ProgressTrans
    <2>6. ack = "none" => y.ack = "none" /\ Quiet(x, y.x) OBVIOUS
    <2> QED BY <2>4, <2>5, <2>6 DEF z
  <1> HIDE DEF start, K, N
  <1>5. F \in [K -> K] BY <1>4
  <1>6. \E g : g = E(g)
    <2>1. PICK g \in [0 .. N -> K] : g[0] = start /\ \A k \in 1 .. N : g[k] = F[g[k - 1]]
      <3>1. Stays(K, F) BY <1>5 DEF Stays
      <3> HIDE DEF F
      <3>2. Loops(K, start, F, N) BY <1>0, <1>3, <3>1, Iterates
      <3> QED BY <3>2 DEF Loops
    <2>2. ASSUME NEW k \in 0 .. N
          PROVE  g[k] = IF k = 0 THEN start ELSE SendOnce(g[k - 1])
      <3>1. CASE k = 0 BY <2>1, <3>1
      <3>2. CASE k # 0
        <4>1. k \in 1 .. N /\ k - 1 \in 0 .. N BY <1>0, <3>2
        <4>2. g[k] = F[g[k - 1]] /\ g[k - 1] \in K BY <2>1, <4>1
        <4>3. F[g[k - 1]] = SendOnce(g[k - 1]) BY <4>2
        <4> QED BY <3>2, <4>2, <4>3
      <3> QED BY <3>1, <3>2
    <2>3. g = [k \in 0 .. N |-> g[k]] OBVIOUS
    <2>4. g = E(g) BY <2>2, <2>3
    <2> QED BY <2>4
  <1>7. turn = E(turn)
    <2> HIDE DEF E
    <2> QED BY <1>6
  <1>8. \A k \in 0 .. N : turn[k] = IF k = 0 THEN start ELSE SendOnce(turn[k - 1])
    <2> HIDE DEF turn
    <2> QED BY <1>7
  <1> HIDE DEF turn
  <1> DEFINE P == {k \in Nat : k <= N => turn[k] \in K}
  <1>9. 0 \in P BY <1>0, <1>3, <1>8
  <1>10. ASSUME NEW k \in Nat, k \in P PROVE k + 1 \in P
    <2> SUFFICES ASSUME k + 1 <= N PROVE turn[k + 1] \in K OBVIOUS
    <2>1. k + 1 \in 0 .. N /\ k <= N /\ k + 1 # 0 /\ (k + 1) - 1 = k BY <1>0
    <2>2. turn[k] \in K BY <1>10, <2>1
    <2>3. turn[k + 1] = SendOnce(turn[k]) BY <1>8, <2>1
    <2> QED BY <1>4, <2>2, <2>3
  <1>11. Nat \subseteq P
    <2> HIDE DEF P
    <2> QED BY <1>9, <1>10, SetInduction
  <1>12. turn[N] \in K
    <2>1. N \in P /\ N <= N BY <1>0, <1>11
    <2> QED BY <2>1
  <1> QED BY <1>1, <1>12 DEF K

-----------------------------------------------------------------------------
(* queue                                                                   *)

\* The list for the bytes that queue takes.
QueuedList(x, n, ctl) ==
    IF Joins(x.slist, ctl) THEN Longer(x.slist, n)
    ELSE Append(x.slist, NewSegment(Total(x), n, ctl))
\* y: x with d queued.
Queued(x, d, ctl, y) ==
    /\ y \in Endpoint /\ y.sbuf = x.sbuf \o d /\ y.slist = QueuedList(x, Len(d), ctl)
    /\ Receiving(x, y) /\ Keeps(x, y) /\ y.state = x.state
    /\ y.snd_una = x.snd_una /\ y.snd_nxt = x.snd_nxt /\ y.snd_wnd = x.snd_wnd
    /\ y.recover = x.recover /\ y.dup_acks = x.dup_acks /\ y.rto_set = x.rto_set
    /\ y.cwnd = x.cwnd /\ y.mss = x.mss /\ y.ssthresh = x.ssthresh
    /\ y.out = x.out /\ y.ack_set = x.ack_set

LEMMA QueueIs ==
    ASSUME NEW x \in Endpoint, NEW data, NEW ctl, NEW d \in Seq(Byte),
           d = Take(data, Least(Len(data), SndBuf - Len(x.sbuf))),
           QueuedList(x, Len(d), ctl) \in Seq(SSegment)
    PROVE  Queued(x, d, ctl, queue(x, data, ctl))
  <1> DEFINE y == queue(x, data, ctl)
             b == x.sbuf \o d
             s == QueuedList(x, Len(d), ctl)
             v == [x EXCEPT !.sbuf = b]
             w == [v EXCEPT !.slist = s]
  <1>1. y = w
    <2>1. y = [x EXCEPT !.sbuf = b, !.slist = s]
      BY Zenon DEF queue, QueuedList, Joins, Longer, NewSegment, Total
    <2> QED BY <2>1
  <1>2. b \in Seq(Byte) BY Fields, ConcatIs
  <1>3. s \in Seq(SSegment) OBVIOUS
  <1>4. y.sbuf = b /\ y.slist = s => y.sbuf = x.sbuf \o d /\ y.slist = QueuedList(x, Len(d), ctl)
    OBVIOUS
  <1> SUFFICES Queued(x, d, ctl, y) OBVIOUS
  <1> HIDE DEF b, s, y
  <1>5. v \in Endpoint BY <1>2, Zenon DEF Endpoint
  <1>6. /\ v.state = x.state /\ v.snd_una = x.snd_una /\ v.snd_nxt = x.snd_nxt
        /\ v.snd_wnd = x.snd_wnd /\ v.recover = x.recover /\ v.dup_acks = x.dup_acks
        /\ v.rto_set = x.rto_set /\ v.cwnd = x.cwnd /\ v.mss = x.mss
        /\ v.ssthresh = x.ssthresh /\ v.out = x.out /\ v.ack_set = x.ack_set /\ v.sbuf = b
    BY DEF Endpoint
  <1>7. Receiving(x, v) /\ Keeps(x, v) BY DEF Endpoint, Receiving, Keeps
  <1> HIDE DEF v
  <1>8. w \in Endpoint BY <1>3, <1>5, Zenon DEF Endpoint
  <1>9. /\ w.state = v.state /\ w.snd_una = v.snd_una /\ w.snd_nxt = v.snd_nxt
        /\ w.snd_wnd = v.snd_wnd /\ w.recover = v.recover /\ w.dup_acks = v.dup_acks
        /\ w.rto_set = v.rto_set /\ w.cwnd = v.cwnd /\ w.mss = v.mss
        /\ w.ssthresh = v.ssthresh /\ w.out = v.out /\ w.ack_set = v.ack_set
        /\ w.sbuf = v.sbuf /\ w.slist = s
    BY <1>5 DEF Endpoint
  <1>10. Receiving(v, w) /\ Keeps(v, w) BY <1>5 DEF Endpoint, Receiving, Keeps
  <1> HIDE DEF w
  <1>11. Receiving(x, w) /\ Keeps(x, w) BY <1>7, <1>10 DEF Receiving, Keeps
  <1>12. y.sbuf = x.sbuf \o d /\ y.slist = QueuedList(x, Len(d), ctl) BY <1>1, <1>4, <1>6, <1>9
  <1> QED BY <1>1, <1>6, <1>8, <1>9, <1>11, <1>12 DEF Queued

\* The buffer with the bytes d behind it.
LEMMA RightConcat ==
    ASSUME NEW b \in Seq(Byte), NEW d \in Seq(Byte), NEW una \in Nat,
           Right(b, una), Right(d, una + Len(b))
    PROVE  Right(b \o d, una) /\ b \o d \in Seq(Byte) /\ Len(b \o d) = Len(b) + Len(d)
  <1> DEFINE c == b \o d
  <1>1. /\ c \in Seq(Byte) /\ Len(c) = Len(b) + Len(d)
        /\ \A i \in 1 .. Len(b) : c[i] = b[i]
        /\ \A i \in 1 .. Len(d) : c[Len(b) + i] = d[i]
    BY ConcatIs
  <1>2. Len(b) \in Nat /\ Len(d) \in Nat OBVIOUS
  <1> SUFFICES Right(c, una) BY <1>1
  <1> HIDE DEF c
  <1> SUFFICES ASSUME NEW i \in 1 .. Len(c) PROVE c[i] = Content(una + i - 1) BY DEF Right
  <1>3. CASE i <= Len(b)
    <2>1. i \in 1 .. Len(b) BY <1>3, <1>2
    <2> QED BY <2>1, <1>1 DEF Right
  <1>4. CASE i > Len(b)
    <2> DEFINE j == i - Len(b)
    <2>1. j \in 1 .. Len(d) /\ Len(b) + j = i BY <1>1, <1>2, <1>4
    <2>2. (una + Len(b)) + j - 1 = una + i - 1 BY <1>2, <2>1
    <2> HIDE DEF j
    <2>3. c[i] = d[j] BY <1>1, <2>1
    <2>4. d[j] = Content((una + Len(b)) + j - 1) BY <2>1 DEF Right
    <2> QED BY <2>2, <2>3, <2>4
  <1>5. i \in Nat BY <1>1, <1>2
  <1> QED BY <1>2, <1>3, <1>4, <1>5

LEMMA QueuedTiling ==
    ASSUME NEW x \in Endpoint, Tiled(x), NEW ctl \in BOOLEAN, NEW n \in Nat \ {0},
           ctl => Total(x) + n <= CtlLen, ~ctl => CtlLen <= Total(x)
    PROVE  /\ QueuedList(x, n, ctl) \in Seq(SSegment)
           /\ \E m : Tiling(QueuedList(x, n, ctl), x.snd_una, x.snd_nxt, Total(x) + n, m)
           /\ XCuts(x) \subseteq Cuts(QueuedList(x, n, ctl), x.snd_una)
  <1> DEFINE s == x.slist
             t == QueuedList(x, n, ctl)
  <1>0. s \in Seq(SSegment) /\ x.snd_una \in Nat BY Fields
  <1>1. PICK m : Tiling(s, x.snd_una, x.snd_nxt, Total(x), m) BY DEF Tiled
  <1>2. /\ t \in Seq(SSegment) /\ Tiling(t, x.snd_una, x.snd_nxt, Total(x) + n, m)
        /\ Cuts(s, x.snd_una) \subseteq Cuts(t, x.snd_una)
    <2>1. CASE Joins(s, ctl)
      <3>1. t = Longer(s, n) BY <2>1 DEF QueuedList
      <3> HIDE DEF t, s
      <3> QED BY <1>0, <1>1, <2>1, <3>1, JoinTiling
    <2>2. CASE ~Joins(s, ctl)
      <3>1. t = Added(s, Total(x), n, ctl) BY <2>2 DEF QueuedList, Added
      <3> HIDE DEF t, s
      <3> QED BY <1>0, <1>1, <3>1, AppendTiling
    <2> QED BY <2>1, <2>2
  <1> HIDE DEF t
  <1> QED BY <1>2 DEF XCuts, t

\* d is part of the connect message, or comes after it.
OfKind(x, d, ctl) ==
    /\ ctl \in BOOLEAN
    /\ ctl => Total(x) + Len(d) <= CtlLen
    /\ ~ctl => CtlLen <= Total(x)
Lengthens(x, d, ctl, y) ==
    /\ Tiled(y) /\ Total(y) = Total(x) + Len(d) /\ Grows(x, y)
    /\ ~ctl /\ Unsplit(x) => Unsplit(y)
LEMMA QueuedOK ==
    ASSUME NEW x \in Endpoint, Tiled(x), NEW ctl, NEW d \in Seq(Byte),
           d # <<>>, Right(d, Total(x)), Len(x.sbuf) + Len(d) <= SndBuf,
           OfKind(x, d, ctl), NEW y, Queued(x, d, ctl, y)
    PROVE  Lengthens(x, d, ctl, y)
  <1>0. /\ y \in Endpoint /\ y.sbuf = x.sbuf \o d /\ y.slist = QueuedList(x, Len(d), ctl)
        /\ y.snd_una = x.snd_una /\ y.snd_nxt = x.snd_nxt /\ y.recover = x.recover
        /\ y.out = x.out /\ y.rcv_nxt = x.rcv_nxt /\ y.rcv_wnd = x.rcv_wnd
    BY DEF Queued, Receiving
  <1>1. x.slist \in Seq(SSegment) /\ x.snd_una \in Nat /\ x.sbuf \in Seq(Byte) BY Fields
  <1>2. Len(d) \in Nat \ {0} OBVIOUS
  <1> DEFINE n == Len(d)
             t == QueuedList(x, n, ctl)
  <1>3. /\ t \in Seq(SSegment) /\ XCuts(x) \subseteq Cuts(t, x.snd_una)
        /\ \E m : Tiling(t, x.snd_una, x.snd_nxt, Total(x) + n, m)
    <2>1. ctl \in BOOLEAN /\ (ctl => Total(x) + n <= CtlLen) /\ (~ctl => CtlLen <= Total(x))
      BY DEF OfKind
    <2> HIDE DEF n
    <2> QED BY <1>2, <2>1, QueuedTiling DEF n
  <1>4. /\ Right(x.sbuf \o d, x.snd_una) /\ Len(x.sbuf \o d) = Len(x.sbuf) + n
    <2>1. Right(x.sbuf, x.snd_una) /\ Right(d, x.snd_una + Len(x.sbuf)) BY DEF Tiled, Total
    <2> DEFINE b == x.sbuf
    <2> HIDE DEF b, n
    <2> QED BY <1>1, <2>1, RightConcat DEF b, n
  <1>5. Total(y) = Total(x) + n
    <2> DEFINE u == x.snd_una
               k == Len(x.sbuf)
    <2>1. u \in Nat /\ k \in Nat BY <1>1
    <2>2. Total(y) = u + Len(x.sbuf \o d) /\ Total(x) = u + k BY <1>0 DEF Total
    <2>3. Total(y) = u + (k + n) BY <2>2, <1>4
    <2> HIDE DEF u, k, n
    <2> QED BY <2>1, <2>2, <2>3, <1>2 DEF n
  <1> HIDE DEF n
  <1>6. Tiled(y)
    <2>1. \E m : Tiling(y.slist, y.snd_una, y.snd_nxt, Total(y), m) BY <1>0, <1>3, <1>5 DEF n
    <2>2. Len(y.sbuf) <= SndBuf BY <1>0, <1>4 DEF n
    <2>3. y.recover <= y.snd_nxt BY <1>0 DEF Tiled
    <2>4. Right(y.sbuf, y.snd_una) BY <1>0, <1>4
    <2> QED BY <2>1, <2>2, <2>3, <2>4 DEF Tiled
  <1>7. Grows(x, y)
    <2>1. Cuts(x.slist, x.snd_una) \subseteq Cuts(y.slist, x.snd_una) BY <1>0, <1>3 DEF XCuts, n
    <2> QED BY <1>0, <2>1, GrowsSame
  <1>8. ASSUME ~ctl, Unsplit(x) PROVE Unsplit(y)
    <2> DEFINE s == x.slist
    <2>0. Len(s) \in Nat /\ \A j \in 1 .. Len(s) : WholeSeg(s[j]) BY <1>1, <1>8 DEF Unsplit
    <2>1. ASSUME NEW j \in 1 .. Len(t) PROVE WholeSeg(t[j])
      <3>1. CASE Joins(s, ctl)
        <4>1. t = [s EXCEPT ![Len(s)].len = @ + n] BY <3>1 DEF QueuedList, Longer
        <4>2. Len(s) > 0 /\ ~s[Len(s)].ctl BY <3>1, <1>8 DEF Joins
        <4> HIDE DEF t, s
        <4>3. s \in Seq(SSegment) BY <1>1 DEF s
        <4>4. Len(t) = Len(s) /\ j \in 1 .. Len(s) /\ Len(s) \in 1 .. Len(s)
          BY <4>1, <4>2, <4>3, <2>0
        <4>5. CASE j = Len(s)
          <5>1. t[j] = [s[j] EXCEPT !.len = @ + n] BY <4>1, <4>3, <4>4, <4>5
          <5>2. s[j] \in SSegment BY <4>3, <4>4
          <5>3. t[j].ctl = s[j].ctl BY <5>1, <5>2 DEF SSegment
          <5> QED BY <5>3, <4>2, <4>5 DEF WholeSeg
        <4>6. CASE j # Len(s)
          <5>1. t[j] = s[j] BY <4>1, <4>3, <4>4, <4>6
          <5> QED BY <5>1, <4>4, <2>0
        <4> QED BY <4>5, <4>6
      <3>2. CASE ~Joins(s, ctl)
        <4> DEFINE g == NewSegment(Total(x), n, ctl)
        <4>1. t = Append(s, g) BY <3>2 DEF QueuedList
        <4>2. ~g.ctl BY <1>8 DEF NewSegment
        <4> HIDE DEF t, s, g
        <4>3. s \in Seq(SSegment) BY <1>1 DEF s
        <4>4. Len(t) = Len(s) + 1 /\ t[Len(s) + 1] = g /\ \A k \in 1 .. Len(s) : t[k] = s[k]
          BY <4>1, <4>3
        <4>5. CASE j = Len(s) + 1 BY <4>2, <4>4, <4>5 DEF WholeSeg
        <4>6. CASE j # Len(s) + 1
          <5>1. j \in 1 .. Len(s) BY <4>4, <4>6, <2>0 DEF s
          <5> QED BY <5>1, <4>4, <2>0
        <4> QED BY <4>5, <4>6
      <3> QED BY <3>1, <3>2
    <2> QED BY <2>1, <1>0, <1>8 DEF Unsplit, n
  <1> QED BY <1>5, <1>6, <1>7, <1>8 DEF n, Lengthens

\* Only the connection's state, and the scale the peer has told, differ.
Alike(x, y) ==
    /\ Steady(x, y) /\ y.shutdown = x.shutdown /\ y.deleted = x.deleted /\ y.got = x.got
    /\ y.mtu_advise = x.mtu_advise /\ y.mss = x.mss /\ y.cwnd = x.cwnd
    /\ y.ssthresh = x.ssthresh /\ y.dup_acks = x.dup_acks /\ y.ack_set = x.ack_set
    /\ y.bReadEnable = x.bReadEnable

\* Nothing has been queued.
LEMMA NothingQueued ==
    ASSUME NEW L, NEW C, NEW x, OK(x, L, C), Total(x) = 0
    PROVE  /\ x.snd_una = 0 /\ x.snd_nxt = 0 /\ x.sbuf = <<>> /\ Len(x.slist) = 0
           /\ x.slist = <<>>
  <1>0. x \in Endpoint BY DEF OK
  <1>1. x.slist \in Seq(SSegment) /\ x.snd_una \in Nat /\ x.snd_nxt \in Nat /\ x.sbuf \in Seq(Byte)
    BY <1>0, Fields
  <1>2. x.snd_una = 0 /\ Len(x.sbuf) = 0
    <2> DEFINE u == x.snd_una
               k == Len(x.sbuf)
    <2>1. u \in Nat /\ k \in Nat /\ u + k = 0 BY <1>1 DEF Total
    <2> SUFFICES u = 0 /\ k = 0 OBVIOUS
    <2> HIDE DEF u, k
    <2> QED BY <2>1
  <1>3. PICK m : Tiling(x.slist, x.snd_una, x.snd_nxt, Total(x), m) BY DEF OK, Tiled
  <1>4. x.snd_nxt <= Total(x) BY <1>1, <1>3, CutsBelow
  <1>5. Tiles(x.slist, x.snd_una, 0) BY <1>3 DEF Tiling
  <1> DEFINE s == x.slist
             u == x.snd_una
  <1>6. Len(s) = 0
    <2>1. s \in Seq(SSegment) /\ u \in Nat /\ u = 0 /\ Tiles(s, u, 0) BY <1>1, <1>2, <1>5
    <2> HIDE DEF s, u
    <2> SUFFICES ASSUME Len(s) # 0 PROVE FALSE OBVIOUS
    <2>2. 0 \in 0 .. Len(s) /\ Len(s) \in 0 .. Len(s) /\ 0 < Len(s) BY <2>1
    <2>3. Bound(s, u, 0) < Bound(s, u, Len(s)) BY <2>1, <2>2, BoundsGrow
    <2>4. Bound(s, u, 0) = 0 /\ Bound(s, u, Len(s)) = 0 BY <2>1 DEF Bound, Tiles
    <2>5. ~(0 < 0) OBVIOUS
    <2> QED BY <2>3, <2>4, <2>5
  <1> QED BY <1>1, <1>2, <1>4, <1>6

LEMMA ConnectMessage ==
    \A d : d = Take([i \in 1 .. CtlLen |-> Ctl], Least(Len([i \in 1 .. CtlLen |-> Ctl]), SndBuf))
           => d \in Seq(Byte) /\ Len(d) = CtlLen /\ d # <<>> /\ Right(d, 0)
  <1> DEFINE c == [i \in 1 .. CtlLen |-> Ctl]
  <1>1. CtlLen \in Nat /\ CtlLen > 0 /\ SndBuf \in Nat /\ CtlLen <= SndBuf BY SizesAre
  <1>2. Ctl \in Byte BY DEF Ctl, Byte
  <1>3. c \in Seq(Byte) /\ Len(c) = CtlLen /\ \A i \in 1 .. CtlLen : c[i] = Ctl BY <1>1, <1>2
  <1> HIDE DEF c
  <1>4. Least(Len(c), SndBuf) = CtlLen BY <1>1, <1>3 DEF Least
  <1>5. CtlLen \in 0 .. Len(c) BY <1>1, <1>3
  <1> DEFINE t == Take(c, CtlLen)
  <1>6. t \in Seq(Byte) /\ Len(t) = CtlLen /\ \A i \in 1 .. CtlLen : t[i] = c[i]
    BY <1>3, <1>5, TakeIs
  <1> HIDE DEF t
  <1>7. Right(t, 0)
    <2> SUFFICES ASSUME NEW i \in 1 .. Len(t) PROVE t[i] = Content(0 + i - 1) BY DEF Right
    <2>1. i \in 1 .. CtlLen /\ 0 + i - 1 < CtlLen BY <1>1, <1>6
    <2>2. Content(0 + i - 1) = Ctl BY <2>1 DEF Content
    <2> QED BY <1>3, <1>6, <2>1, <2>2
  <1>8. t # <<>> BY <1>1, <1>6
  <1> QED BY <1>4, <1>6, <1>7, <1>8 DEF c, t

\* y: x with its connect message queued.
Connecting(x, L, C, y) ==
    /\ OK(y, L, C) /\ Grows(x, y) /\ Receiving(x, y)
    /\ y.shutdown = x.shutdown /\ y.deleted = x.deleted /\ y.wrote = x.wrote
    /\ y.out = x.out /\ y.ack_set = x.ack_set /\ y.dup_acks = x.dup_acks
    /\ y.snd_una = 0 /\ y.snd_nxt = 0 /\ y.snd_wnd = CtlLen
    /\ Total(y) = CtlLen
    /\ x.out = {} /\ x.dup_acks = 0 /\ x.cwnd >= CtlLen => Fresh(y)

LEMMA ConnectOK ==
    ASSUME NEW L \in Nat, CtlLen <= L, NEW C, NEW x, OK(x, L, C), x.state = "LISTEN",
           NEW y \in Endpoint, Alike(x, y), y.state \in {"SYN_SENT", "SYN_RECEIVED"},
           y.swnd_scale \in {1, Scale}
    PROVE  /\ Connecting(x, L, C, queueConnectMessage(y))
           /\ queueConnectMessage(y).state = y.state
           /\ queueConnectMessage(y).swnd_scale = y.swnd_scale
  <1> DEFINE data == [i \in 1 .. CtlLen |-> Ctl]
             q == [y EXCEPT !.snd_wnd = CtlLen]
             d == Take(data, Least(Len(data), SndBuf - Len(q.sbuf)))
             z == queueConnectMessage(y)
  <1>0. x \in Endpoint /\ Total(x) = 0 /\ CtlLen \in Nat /\ CtlLen > 0 /\ SndBuf \in Nat
        /\ CtlLen <= SndBuf
    <2>1. x \in Endpoint BY DEF OK
    <2>2. Total(x) = 0 BY DEF OK, Counted
    <2> QED BY <2>1, <2>2, SizesAre
  <1>1. x.snd_una = 0 /\ x.snd_nxt = 0 /\ x.sbuf = <<>> /\ Len(x.slist) = 0 /\ x.slist = <<>>
    BY <1>0, NothingQueued
  <1>2. z = queue(q, data, TRUE) BY DEF queueConnectMessage
  <1>3. q \in Endpoint BY <1>0, Zenon DEF Endpoint
  <1>4. /\ q.state = y.state /\ q.swnd_scale = y.swnd_scale /\ q.snd_wnd = CtlLen
        /\ q.snd_una = y.snd_una /\ q.snd_nxt = y.snd_nxt /\ q.slist = y.slist /\ q.sbuf = y.sbuf
        /\ q.rto_set = y.rto_set /\ q.recover = y.recover
    BY DEF Endpoint
  <1>5. Receiving(y, q) /\ Keeps(y, q) BY DEF Endpoint, Receiving, Keeps
  <1>6. /\ q.out = y.out /\ q.mss = y.mss /\ q.cwnd = y.cwnd /\ q.ssthresh = y.ssthresh
        /\ q.dup_acks = y.dup_acks /\ q.ack_set = y.ack_set
    BY DEF Endpoint
  <1> HIDE DEF q
  <1>7. /\ q.snd_una = 0 /\ q.snd_nxt = 0 /\ q.slist = <<>> /\ q.sbuf = <<>>
        /\ q.rto_set = x.rto_set /\ q.recover = x.recover
    BY <1>1, <1>4 DEF Alike, Steady
  <1>8. Total(q) = 0 /\ Total(q) = Total(x) /\ SndBuf - Len(q.sbuf) = SndBuf
    BY <1>0, <1>7 DEF Total
  <1>9. d \in Seq(Byte) /\ Len(d) = CtlLen /\ d # <<>> /\ Right(d, 0)
    BY <1>8, ConnectMessage
  <1> SUFFICES Connecting(x, L, C, z) /\ z.state = y.state /\ z.swnd_scale = y.swnd_scale OBVIOUS
  <1>10. d = Take(data, Least(Len(data), SndBuf - Len(q.sbuf))) OBVIOUS
  <1> HIDE DEF d, data, z
  <1>11. Tiled(q)
    <2>1. x.slist = q.slist /\ x.snd_una = q.snd_una /\ x.snd_nxt = q.snd_nxt /\ x.sbuf = q.sbuf
      BY <1>1, <1>7
    <2>2. \E m : Tiling(x.slist, x.snd_una, x.snd_nxt, Total(x), m) BY DEF OK, Tiled
    <2>3. Len(x.sbuf) <= SndBuf /\ x.recover <= x.snd_nxt /\ Right(x.sbuf, x.snd_una)
      BY DEF OK, Tiled
    <2> QED BY <2>1, <2>2, <2>3, <1>7, <1>8 DEF Tiled
  <1>12. QueuedList(q, Len(d), TRUE) \in Seq(SSegment)
    <2>1. Len(d) \in Nat \ {0} /\ Total(q) + Len(d) <= CtlLen BY <1>0, <1>8, <1>9
    <2> QED BY <2>1, <1>3, <1>11, QueuedTiling
  <1>13. Queued(q, d, TRUE, z) BY <1>2, <1>3, <1>9, <1>10, <1>12, QueueIs
  <1>14. Tiled(z) /\ Total(z) = CtlLen /\ Grows(q, z)
    <2>1. Total(q) + Len(d) = CtlLen /\ Total(q) + Len(d) <= CtlLen BY <1>0, <1>8, <1>9
    <2>2. Len(q.sbuf) + Len(d) <= SndBuf BY <1>0, <1>7, <1>9
    <2>3. Right(d, Total(q)) BY <1>8, <1>9
    <2>4. OfKind(q, d, TRUE) BY <2>1 DEF OfKind
    <2>5. Lengthens(q, d, TRUE, z) BY <2>2, <2>3, <2>4, <1>3, <1>9, <1>11, <1>13, QueuedOK
    <2> QED BY <2>1, <2>5 DEF Lengthens
  <1>15. /\ z \in Endpoint /\ z.slist = QueuedList(q, CtlLen, TRUE)
         /\ Receiving(q, z) /\ Keeps(q, z) /\ z.state = q.state
         /\ z.snd_una = q.snd_una /\ z.snd_nxt = q.snd_nxt /\ z.snd_wnd = q.snd_wnd
         /\ z.recover = q.recover /\ z.dup_acks = q.dup_acks /\ z.rto_set = q.rto_set
         /\ z.cwnd = q.cwnd /\ z.mss = q.mss /\ z.ssthresh = q.ssthresh
         /\ z.out = q.out /\ z.ack_set = q.ack_set
    BY <1>9, <1>13 DEF Queued
  <1>16. /\ Receiving(x, z) /\ z.shutdown = x.shutdown /\ z.deleted = x.deleted
         /\ z.wrote = x.wrote /\ z.mtu_advise = x.mtu_advise /\ z.swnd_scale = y.swnd_scale
    BY <1>5, <1>15 DEF Alike, Steady, Receiving, Keeps
  <1>17. /\ z.snd_una = 0 /\ z.snd_nxt = 0 /\ z.snd_wnd = CtlLen /\ z.state = y.state
         /\ z.out = x.out /\ z.ack_set = x.ack_set /\ z.dup_acks = x.dup_acks
         /\ z.cwnd = x.cwnd /\ z.mss = x.mss /\ z.ssthresh = x.ssthresh
         /\ z.rto_set = x.rto_set
    BY <1>4, <1>6, <1>7, <1>15 DEF Alike, Steady
  <1>18. Grows(x, z)
    <2>1. x.snd_una <= z.snd_una /\ x.rcv_nxt <= z.rcv_nxt
      <3>1. x.rcv_nxt <= x.rcv_nxt /\ 0 <= 0 BY <1>0, Fields
      <3> QED BY <3>1, <1>1, <1>16, <1>17 DEF Receiving
    <2>2. Edge(z) = Edge(x) /\ Edge(x) <= Edge(x)
      <3>1. Edge(z) = Edge(x) BY <1>16 DEF Receiving, Edge
      <3>2. Edge(x) \in Nat BY <1>0, Fields DEF Edge
      <3> QED BY <3>1, <3>2
    <2>3. XCuts(x) = XCuts(q) /\ XCuts(q) \subseteq XCuts(z)
      <3>1. XCuts(x) = XCuts(q) BY <1>1, <1>7 DEF XCuts
      <3> QED BY <3>1, <1>14 DEF Grows
    <2> QED BY <2>1, <2>2, <2>3 DEF Grows
  <1>19. OK(z, L, C)
    <2>1. Timed(z)
      <3>1. x.rto_set <=> x.snd_una # x.snd_nxt BY DEF OK, Timed
      <3> QED BY <3>1, <1>1, <1>17 DEF Timed
    <2>2. Limited(z, L) BY <1>0, <1>17 DEF Limited
    <2>3. Counted(z)
      <3>1. x.wrote = 0
        <4>1. Total(x) = CtlLen + x.wrote \/ x.wrote = 0 BY DEF OK, Counted
        <4>2. x.wrote \in Nat BY <1>0, Fields
        <4> QED BY <4>1, <4>2, <1>0
      <3>2. Total(z) = CtlLen + z.wrote BY <3>1, <1>0, <1>14, <1>16
      <3> QED BY <3>2, <1>17 DEF Counted
    <2>4. Received(z, C)
      <3>1. Edge(z) = Edge(x) BY <1>16 DEF Receiving, Edge
      <3> QED BY <3>1, <1>16 DEF Receiving, OK, Received
    <2>5. Tuned(z) BY <1>16, <1>17 DEF OK, Tuned
    <2>6. Written(z, C)
      <3>1. Written(x, C) BY DEF OK
      <3> QED BY <3>1, <1>0, <1>15, <1>17, <1>18, WrittenKept
    <2> QED BY <1>14, <1>15, <2>1, <2>2, <2>3, <2>4, <2>5, <2>6 DEF OK
  <1>20. ASSUME x.out = {}, x.dup_acks = 0, x.cwnd >= CtlLen PROVE Fresh(z)
    <2>1. z.slist = Append(<<>>, NewSegment(0, CtlLen, TRUE))
      <3>1. ~Joins(q.slist, TRUE) BY <1>7 DEF Joins
      <3> QED BY <3>1, <1>7, <1>8, <1>15 DEF QueuedList
    <2> DEFINE g == NewSegment(0, CtlLen, TRUE)
    <2>2. g.ctl = TRUE /\ g.seq = 0 /\ g.len = CtlLen /\ g.xmit = 0 BY DEF NewSegment
    <2> HIDE DEF g
    <2>3. Len(z.slist) = 1 /\ z.slist[1] = g BY <2>1 DEF g
    <2> QED BY <1>17, <1>20, <2>2, <2>3 DEF Fresh
  <1> QED BY <1>14, <1>16, <1>17, <1>18, <1>19, <1>20 DEF Connecting

-----------------------------------------------------------------------------
(* States and notifications                                                *)

Restated(x, y) ==
    /\ Steady(x, y) /\ y.shutdown = x.shutdown /\ y.deleted = x.deleted /\ y.got = x.got
    /\ y.swnd_scale = x.swnd_scale /\ y.mtu_advise = x.mtu_advise
    /\ y.ack_set = x.ack_set /\ y.dup_acks = x.dup_acks

LEMMA RestatedTrans ==
    ASSUME NEW x, NEW y, NEW z, Restated(x, y), Restated(y, z)
    PROVE  Restated(x, z)
  BY DEF Restated, Steady

LEMMA RestatedSame == \A x : Restated(x, x) BY DEF Restated, Steady

\* y: x with another state, flags and congestion control.
Settles(x, L, C, y) == OK(y, L, C) /\ Grows(x, y) /\ Restated(x, y)

LEMMA SettlesSame ==
    ASSUME NEW L, NEW C, NEW x, OK(x, L, C)
    PROVE  Settles(x, L, C, x)
  <1>1. x \in Endpoint BY DEF OK
  <1>2. Grows(x, x) BY <1>1, GrowsSame
  <1> QED BY <1>2, RestatedSame DEF Settles

LEMMA ClosedownOK ==
    ASSUME NEW L, NEW C, NEW x, OK(x, L, C)
    PROVE  Settles(x, L, C, closedown(x)) /\ closedown(x).state = "CLOSED"
  <1> DEFINE y == closedown(x)
  <1>0. x \in Endpoint BY DEF OK
  <1>1. y = [x EXCEPT !.state = "CLOSED", !.writing = FALSE, !.reading = FALSE]
    BY DEF closedown
  <1>2. y \in Endpoint
    <2>1. "CLOSED" \in TcpState BY DEF TcpState
    <2> QED BY <1>0, <2>1, Zenon DEF Endpoint, closedown
  <1> SUFFICES Settles(x, L, C, y) /\ y.state = "CLOSED" OBVIOUS
  <1> HIDE DEF y
  <1>3. Steady(x, y) BY <1>0, <1>1 DEF Endpoint, Steady
  <1>4. Restated(x, y) BY <1>0, <1>1, <1>3 DEF Endpoint, Restated
  <1>5. y.state = "CLOSED" /\ y.mss = x.mss /\ y.cwnd = x.cwnd /\ y.ssthresh = x.ssthresh
    BY <1>0, <1>1 DEF Endpoint
  <1>6. Tuned(y) BY <1>4, <1>5 DEF OK, Tuned, Restated
  <1>7. StateMoves(x, y) BY <1>5 DEF StateMoves
  <1> QED BY <1>2, <1>3, <1>4, <1>5, <1>6, <1>7, Retuned DEF Settles

\* The maximum segment size becomes what has been advised.
LEMMA AdjustMtuOK ==
    ASSUME NEW L, NEW C, NEW x, OK(x, L, C)
    PROVE  Settles(x, L, C, adjustMTU(x)) /\ adjustMTU(x).state = x.state
  <1> DEFINE y == adjustMTU(x)
             a == x.mtu_advise
             t == Most(x.ssthresh, 2 * a)
             c == Most(x.cwnd, a)
  <1>0. x \in Endpoint BY DEF OK
  <1>1. y = [x EXCEPT !.mss = a, !.ssthresh = t, !.cwnd = c] BY DEF adjustMTU
  <1>2. a \in Nat /\ a >= CtlLen /\ x.cwnd \in Nat /\ x.ssthresh \in Nat /\ CtlLen \in Nat
        /\ CtlLen > 0
    BY <1>0, Fields, SizesAre DEF OK, Tuned
  <1>3. t \in Nat /\ t > 0 /\ c \in Nat /\ c > 0
    <2> DEFINE p == x.ssthresh
               q == x.cwnd
    <2>1. p \in Nat /\ q \in Nat BY <1>2
    <2>2. t = Most(p, 2 * a) /\ c = Most(q, a) OBVIOUS
    <2> HIDE DEF p, q, a, t, c
    <2> QED BY <2>1, <2>2, <1>2 DEF Most
  <1> SUFFICES Settles(x, L, C, y) /\ y.state = x.state OBVIOUS
  <1> HIDE DEF a, t, c, y
  <1>4. y \in Endpoint
    <2>1. [x EXCEPT !.mss = a, !.ssthresh = t, !.cwnd = c] \in Endpoint
      BY <1>0, <1>2, <1>3, Zenon DEF Endpoint
    <2> QED BY <2>1, <1>1
  <1>5. Steady(x, y) BY <1>0, <1>1 DEF Endpoint, Steady
  <1>6. Restated(x, y) BY <1>0, <1>1, <1>5 DEF Endpoint, Restated
  <1>7. y.mss = a /\ y.cwnd = c /\ y.ssthresh = t /\ y.state = x.state BY <1>0, <1>1 DEF Endpoint
  <1>8. Tuned(y) BY <1>2, <1>3, <1>6, <1>7 DEF OK, Tuned, Restated
  <1>9. StateMoves(x, y) BY <1>7 DEF StateMoves
  <1> QED BY <1>4, <1>5, <1>6, <1>7, <1>8, <1>9, Retuned DEF Settles

LEMMA EstablishedOK ==
    ASSUME NEW L, NEW C, NEW x, OK(x, L, C), x.state \notin {"LISTEN", "CLOSED"}
    PROVE  Settles(x, L, C, Established(x)) /\ Established(x).state = "ESTABLISHED"
  <1> DEFINE w == adjustMTU(x)
             y == Established(x)
  <1>0. x \in Endpoint BY DEF OK
  <1>1. Settles(x, L, C, w) /\ w.state = x.state BY AdjustMtuOK
  <1>2. y = [w EXCEPT !.state = "ESTABLISHED", !.writing = TRUE, !.reading = TRUE]
    BY DEF Established
  <1> SUFFICES Settles(x, L, C, y) /\ y.state = "ESTABLISHED" OBVIOUS
  <1> HIDE DEF w, y
  <1>3. w \in Endpoint /\ OK(w, L, C) BY <1>1 DEF Settles, OK
  <1>4. y \in Endpoint
    <2>1. "ESTABLISHED" \in TcpState BY DEF TcpState
    <2>2. [w EXCEPT !.state = "ESTABLISHED", !.writing = TRUE, !.reading = TRUE] \in Endpoint
      BY <1>3, <2>1, Zenon DEF Endpoint
    <2> QED BY <2>2, <1>2
  <1>5. Steady(w, y) BY <1>3, <1>2 DEF Endpoint, Steady
  <1>6. Restated(w, y) BY <1>3, <1>2, <1>5 DEF Endpoint, Restated
  <1>7. y.state = "ESTABLISHED" /\ y.mss = w.mss /\ y.cwnd = w.cwnd /\ y.ssthresh = w.ssthresh
    BY <1>3, <1>2 DEF Endpoint
  <1>8. Tuned(y) BY <1>3, <1>6, <1>7 DEF OK, Tuned, Restated
  <1>9. StateMoves(w, y) BY <1>1, <1>7 DEF StateMoves
  <1>10. OK(y, L, C) /\ Grows(w, y) BY <1>3, <1>4, <1>5, <1>8, <1>9, Retuned
  <1>11. Grows(x, y) BY <1>0, <1>1, <1>3, <1>4, <1>10, GrowsTrans DEF Settles
  <1>12. Restated(x, y) BY <1>1, <1>6, RestatedTrans DEF Settles
  <1> QED BY <1>7, <1>10, <1>11, <1>12 DEF Settles

LEMMA NotifyWriteableOK ==
    ASSUME NEW L, NEW C, NEW x, OK(x, L, C)
    PROVE  /\ Settles(x, L, C, NotifyWriteable(x)) /\ NotifyWriteable(x).state = x.state
           /\ NotifyWriteable(x).cwnd = x.cwnd
  <1> DEFINE y == [x EXCEPT !.bWriteEnable = FALSE, !.writing = TRUE]
  <1>0. x \in Endpoint BY DEF OK
  <1>1. NotifyWriteable(x) = x \/ NotifyWriteable(x) = y BY DEF NotifyWriteable
  <1>2. y \in Endpoint BY <1>0, Zenon DEF Endpoint
  <1>3. Steady(x, y) BY <1>0 DEF Endpoint, Steady
  <1>4. Restated(x, y) BY <1>0, <1>3 DEF Endpoint, Restated
  <1>5. y.state = x.state /\ y.mss = x.mss /\ y.cwnd = x.cwnd /\ y.ssthresh = x.ssthresh
    BY <1>0 DEF Endpoint
  <1> HIDE DEF y
  <1>6. Tuned(y) /\ StateMoves(x, y) BY <1>4, <1>5 DEF OK, Tuned, Restated, StateMoves
  <1>7. Settles(x, L, C, y) BY <1>2, <1>3, <1>4, <1>6, Retuned DEF Settles
  <1> QED BY <1>1, <1>5, <1>7, SettlesSame

LEMMA NotifyReadableOK ==
    ASSUME NEW L, NEW C, NEW x, OK(x, L, C), NEW new
    PROVE  Settles(x, L, C, NotifyReadable(x, new)) /\ NotifyReadable(x, new).state = x.state
  <1> DEFINE y == [x EXCEPT !.bReadEnable = FALSE, !.reading = TRUE]
  <1>0. x \in Endpoint BY DEF OK
  <1>1. NotifyReadable(x, new) = x \/ NotifyReadable(x, new) = y BY DEF NotifyReadable
  <1>2. y \in Endpoint BY <1>0, Zenon DEF Endpoint
  <1>3. Steady(x, y) BY <1>0 DEF Endpoint, Steady
  <1>4. Restated(x, y) BY <1>0, <1>3 DEF Endpoint, Restated
  <1>5. y.state = x.state /\ y.mss = x.mss /\ y.cwnd = x.cwnd /\ y.ssthresh = x.ssthresh
    BY <1>0 DEF Endpoint
  <1> HIDE DEF y
  <1>6. Tuned(y) /\ StateMoves(x, y) BY <1>4, <1>5 DEF OK, Tuned, Restated, StateMoves
  <1>7. Settles(x, L, C, y) BY <1>2, <1>3, <1>4, <1>6, Retuned DEF Settles
  <1> QED BY <1>1, <1>5, <1>7, SettlesSame

\* A connect message moves the state on, and has an answer queued.
Connects(x, L, C, y) ==
    /\ OK(y, L, C) /\ Grows(x, y) /\ Receiving(x, y)
    /\ y.shutdown = x.shutdown /\ y.deleted = x.deleted /\ y.wrote = x.wrote
    /\ y.out = x.out /\ y.ack_set = x.ack_set /\ y.dup_acks = x.dup_acks
    /\ y.snd_nxt = x.snd_nxt /\ y.swnd_scale = Scale
    /\ y.state # "LISTEN" /\ (y.state = "CLOSED" <=> x.state = "CLOSED")
    /\ x.state # "LISTEN" => Steady(x, y)
    /\ x.state = "LISTEN" => y.state = "SYN_RECEIVED"
    /\ x.state = "SYN_SENT" => y.state = "ESTABLISHED"
    /\ x.state \notin {"LISTEN", "SYN_SENT"} => y.state = x.state

LEMMA OnConnectOK ==
    ASSUME NEW L \in Nat, CtlLen <= L, NEW C, NEW x, OK(x, L, C)
    PROVE  Connects(x, L, C, OnConnect(x))
  <1> DEFINE y == [x EXCEPT !.swnd_scale = Scale]
             w == [y EXCEPT !.state = "SYN_RECEIVED"]
             z == OnConnect(x)
  <1>0. x \in Endpoint /\ Scale \in Nat
    <2>1. x \in Endpoint BY DEF OK
    <2> QED BY <2>1, SizesAre
  <1>1. y \in Endpoint BY <1>0, Zenon DEF Endpoint
  <1>2. Alike(x, y) BY <1>0 DEF Endpoint, Alike, Steady
  <1>3. y.state = x.state /\ y.swnd_scale = Scale BY <1>0 DEF Endpoint
  <1>4. w = [y EXCEPT !.state = "SYN_RECEIVED"] OBVIOUS
  <1>5. /\ x.state = "LISTEN" => z = queueConnectMessage(w)
        /\ x.state = "SYN_SENT" => z = Established(y)
        /\ x.state \notin {"LISTEN", "SYN_SENT"} => z = y
    BY DEF OnConnect
  <1> SUFFICES Connects(x, L, C, z) OBVIOUS
  <1> HIDE DEF y, z
  <1>6. Steady(x, y) /\ Receiving(x, y) BY <1>2 DEF Alike, Steady, Receiving
  <1>7. CASE x.state = "LISTEN"
    <2>1. w \in Endpoint
      <3>1. "SYN_RECEIVED" \in TcpState BY DEF TcpState
      <3> QED BY <1>1, <3>1, Zenon DEF Endpoint
    <2>2. Alike(y, w) /\ w.state = "SYN_RECEIVED" /\ w.swnd_scale = y.swnd_scale
      BY <1>1 DEF Endpoint, Alike, Steady
    <2> HIDE DEF w
    <2>3. Alike(x, w) BY <1>2, <2>2 DEF Alike, Steady
    <2>4. Connecting(x, L, C, z) /\ z.state = "SYN_RECEIVED" /\ z.swnd_scale = Scale
      <3>1. w.state \in {"SYN_SENT", "SYN_RECEIVED"} /\ w.swnd_scale \in {1, Scale}
        BY <1>3, <2>2
      <3>2. z = queueConnectMessage(w) BY <1>5, <1>7
      <3>3. /\ Connecting(x, L, C, queueConnectMessage(w))
            /\ queueConnectMessage(w).state = w.state
            /\ queueConnectMessage(w).swnd_scale = w.swnd_scale
        BY <1>7, <2>1, <2>3, <3>1, ConnectOK
      <3> QED BY <1>3, <2>2, <3>2, <3>3
    <2>5. x.snd_nxt = 0
      <3>1. Total(x) = 0 BY <1>7 DEF OK, Counted
      <3> QED BY <3>1, NothingQueued
    <2> QED BY <1>7, <2>4, <2>5 DEF Connecting, Connects
  <1>8. CASE x.state # "LISTEN"
    <2>1. Tuned(y) BY <1>2, <1>3 DEF OK, Tuned, Alike
    <2>2. StateMoves(x, y) BY <1>3 DEF StateMoves
    <2>3. OK(y, L, C) /\ Grows(x, y) BY <1>1, <1>6, <2>1, <2>2, Retuned
    <2>4. y.snd_nxt = x.snd_nxt /\ y.out = x.out /\ y.wrote = x.wrote BY <1>6 DEF Steady
    <2>5. CASE x.state = "SYN_SENT"
      <3>1. z = Established(y) BY <1>5, <2>5
      <3>2. Settles(y, L, C, z) /\ z.state = "ESTABLISHED"
        <4>1. y.state \notin {"LISTEN", "CLOSED"} BY <1>3, <2>5
        <4> QED BY <2>3, <3>1, <4>1, EstablishedOK
      <3>3. z \in Endpoint BY <3>2 DEF Settles, OK
      <3>4. Grows(x, z) BY <1>0, <1>1, <2>3, <3>2, <3>3, GrowsTrans DEF Settles
      <3>5. Steady(x, z) BY <1>6, <3>2 DEF Settles, Restated, Steady
      <3>6. /\ z.shutdown = x.shutdown /\ z.deleted = x.deleted /\ z.ack_set = x.ack_set
            /\ z.dup_acks = x.dup_acks /\ z.swnd_scale = Scale /\ z.got = x.got
        BY <1>2, <1>3, <3>2 DEF Settles, Restated, Alike
      <3>7. z.bReadEnable = y.bReadEnable BY <1>1, <3>1 DEF Established, adjustMTU, Endpoint
      <3>8. Receiving(x, z) BY <1>6, <3>5, <3>6, <3>7 DEF Receiving, Steady
      <3> QED BY <2>5, <3>2, <3>4, <3>5, <3>6, <3>8 DEF Settles, Connects, Steady
    <2>6. CASE x.state # "SYN_SENT"
      <3>1. z = y BY <1>5, <1>8, <2>6
      <3>2. /\ y.shutdown = x.shutdown /\ y.deleted = x.deleted /\ y.ack_set = x.ack_set
            /\ y.dup_acks = x.dup_acks
        BY <1>2 DEF Alike
      <3> QED BY <1>3, <1>6, <1>8, <2>3, <2>4, <2>6, <3>1, <3>2 DEF Connects
    <2> QED BY <2>5, <2>6
  <1> QED BY <1>7, <1>8

-----------------------------------------------------------------------------
(* process: acknowledgements                                               *)

\* seg acknowledges what the other end, as far as it lets x go, has received.
AckOK(x, L, seg) ==
    /\ seg \in Packet /\ seg.ack \in XCuts(x) /\ seg.ack + seg.wnd * Scale <= L

\* y: x with something acknowledged.
AckTaken(x, L, C, ack, y) ==
    /\ OK(y, L, C) /\ Grows(x, y) /\ Receiving(x, y) /\ Keeps(x, y)
    /\ y.state = x.state /\ y.snd_nxt = x.snd_nxt /\ y.snd_una = ack
    /\ y.recover = x.recover /\ y.dup_acks = x.dup_acks /\ y.cwnd = x.cwnd
    /\ y.mss = x.mss /\ y.ssthresh = x.ssthresh /\ y.out = x.out
    /\ y.ack_set = x.ack_set /\ Total(y) = Total(x)
    /\ Unsplit(x) => Unsplit(y)

LEMMA WindowTaken ==
    ASSUME NEW L \in Nat, NEW x \in Endpoint, Tuned(x), NEW seg, AckOK(x, L, seg)
    PROVE  seg.wnd * x.swnd_scale \in Nat /\ seg.ack + seg.wnd * x.swnd_scale <= L
  <1> DEFINE a == seg.ack
             w == seg.wnd
             k == x.swnd_scale
  <1>1. a \in Nat /\ w \in Nat
    <2>1. seg \in Packet BY DEF AckOK
    <2> QED BY <2>1, PacketFields
  <1>2. k = 1 \/ k = Scale BY DEF Tuned
  <1>3. a + w * Scale <= L BY DEF AckOK
  <1>4. Scale \in Nat /\ Scale > 0 BY SizesAre
  <1> SUFFICES w * k \in Nat /\ a + w * k <= L OBVIOUS
  <1> HIDE DEF a, w, k
  <1>5. w * Scale \in Nat /\ w <= w * Scale /\ w * 1 = w BY <1>1, <1>4
  <1>6. CASE k = 1 BY <1>1, <1>3, <1>4, <1>5, <1>6
  <1>7. CASE k = Scale BY <1>3, <1>5, <1>7
  <1> QED BY <1>2, <1>6, <1>7

LEMMA RightDrop ==
    ASSUME NEW b \in Seq(Byte), NEW una \in Nat, NEW n \in 0 .. Len(b), Right(b, una)
    PROVE  Right(Drop(b, n), una + n) /\ Drop(b, n) \in Seq(Byte) /\ Len(Drop(b, n)) = Len(b) - n
  <1> DEFINE d == Drop(b, n)
  <1>1. /\ d \in Seq(Byte) /\ Len(d) = Len(b) - n
        /\ \A i \in 1 .. Len(b) - n : d[i] = b[n + i]
    BY DropIs
  <1>2. Len(b) \in Nat /\ n \in Nat OBVIOUS
  <1> SUFFICES Right(d, una + n) BY <1>1
  <1> HIDE DEF d
  <1> SUFFICES ASSUME NEW i \in 1 .. Len(d) PROVE d[i] = Content((una + n) + i - 1) BY DEF Right
  <1>3. i \in 1 .. Len(b) - n /\ n + i \in 1 .. Len(b) BY <1>1, <1>2
  <1>4. una + (n + i) - 1 = (una + n) + i - 1 BY <1>2, <1>3
  <1>5. b[n + i] = Content(una + (n + i) - 1) BY <1>3 DEF Right
  <1> QED BY <1>1, <1>3, <1>4, <1>5

\* The list and the buffer without the first bytes.
LEMMA FreedOK ==
    ASSUME NEW x \in Endpoint, Tiled(x), NEW ack \in XCuts(x), x.snd_una < ack
    PROVE  /\ Freed(x.slist, ack - x.snd_una) \in Seq(SSegment)
           /\ \E m : Tiling(Freed(x.slist, ack - x.snd_una), ack, x.snd_nxt, Total(x), m)
           /\ XCuts(x) \subseteq Cuts(Freed(x.slist, ack - x.snd_una), ack)
           /\ \A j \in 1 .. Len(Freed(x.slist, ack - x.snd_una)) :
                 \E i \in 1 .. Len(x.slist) : Freed(x.slist, ack - x.snd_una)[j] = x.slist[i]
           /\ ack - x.snd_una \in 0 .. Len(x.sbuf) /\ ack \in Nat
  <1> DEFINE s == x.slist
             u == x.snd_una
  <1>0. s \in Seq(SSegment) /\ u \in Nat /\ ack \in Nat /\ ack \in Cuts(s, u)
    BY Fields DEF XCuts, Cuts
  <1>1. PICK m : Tiling(s, u, x.snd_nxt, Total(x), m) BY DEF Tiled
  <1>2. ~(ack <= u)
    <2> HIDE DEF u
    <2> QED BY <1>0 DEF u
  <1>3. PICK i \in 1 .. Len(s) : s[i].xmit > 0 /\ ack = s[i].seq + s[i].len
    BY <1>0, <1>2 DEF Cuts
  <1>4. i <= m /\ m \in 0 .. Len(s) /\ i # 0 /\ Len(s) \in Nat
    <2>1. s[i].xmit > 0 <=> i <= m BY <1>1 DEF Tiling
    <2>2. m \in 0 .. Len(s) BY <1>1 DEF Tiling
    <2> QED BY <1>0, <1>3, <2>1, <2>2
  <1>5. i \in 0 .. m /\ i \in 0 .. Len(s) BY <1>4
  <1>6. Bound(s, u, i) = ack BY <1>3, <1>4 DEF Bound
  <1>7. Tiles(s, u, Total(x)) BY <1>1 DEF Tiling
  <1> HIDE DEF s, u
  <1>8. Freed(s, Bound(s, u, i) - u) = Drop(s, i) BY <1>0, <1>5, <1>7, FreedIs
  <1>9. /\ Drop(s, i) \in Seq(SSegment)
        /\ Tiling(Drop(s, i), Bound(s, u, i), x.snd_nxt, Total(x), m - i)
        /\ Cuts(s, u) \subseteq Cuts(Drop(s, i), Bound(s, u, i))
    BY <1>0, <1>1, <1>5, DropTiling
  <1>10. Len(Drop(s, i)) = Len(s) - i /\ \A j \in 1 .. Len(s) - i : Drop(s, i)[j] = s[i + j]
    BY <1>0, <1>5, DropIs
  <1>11. \A j \in 1 .. Len(s) - i : i + j \in 1 .. Len(s) BY <1>4
  <1>12. ack - u \in 0 .. Len(x.sbuf)
    <2> DEFINE k == Len(x.sbuf)
               v == x.snd_nxt
    <2>1. k \in Nat /\ v \in Nat BY Fields
    <2>2. ack <= v /\ v <= Total(x) BY <1>0, <1>1, CutsBelow
    <2>3. Total(x) = u + k BY DEF Total, u
    <2> SUFFICES ack - u \in 0 .. k OBVIOUS
    <2> HIDE DEF k, v
    <2> QED BY <1>0, <1>2, <2>1, <2>2, <2>3
  <1>13. Freed(s, ack - u) = Drop(s, i) BY <1>6, <1>8
  <1> DEFINE f == Freed(s, ack - u)
  <1>14. /\ f \in Seq(SSegment) /\ Tiling(f, ack, x.snd_nxt, Total(x), m - i)
         /\ Cuts(s, u) \subseteq Cuts(f, ack)
    BY <1>6, <1>9, <1>13
  <1>15. \A j \in 1 .. Len(f) : \E l \in 1 .. Len(s) : f[j] = s[l]
    <2> TAKE j \in 1 .. Len(f)
    <2>1. j \in 1 .. Len(s) - i BY <1>10, <1>13
    <2> HIDE DEF f
    <2> QED BY <2>1, <1>10, <1>11, <1>13 DEF f
  <1> HIDE DEF f
  <1> QED BY <1>0, <1>12, <1>14, <1>15 DEF f, s, u, XCuts

LEMMA AcknowledgedOK ==
    ASSUME NEW L \in Nat, NEW C, NEW x, OK(x, L, C), NEW seg, AckOK(x, L, seg),
           x.snd_una < seg.ack, seg.ack <= x.snd_nxt
    PROVE  AckTaken(x, L, C, seg.ack, Acknowledged(x, seg))
  <1> DEFINE a == seg.ack
             n == a - x.snd_una
             w == seg.wnd * x.swnd_scale
             f == Freed(x.slist, n)
             b == Drop(x.sbuf, n)
             r == (a # x.snd_nxt)
             v == [x EXCEPT !.snd_wnd = w, !.snd_una = a, !.sbuf = b]
             y == Acknowledged(x, seg)
  <1>0. x \in Endpoint /\ Tiled(x) /\ Tuned(x) /\ Timed(x) BY DEF OK
  <1>1. y = [v EXCEPT !.slist = f, !.rto_set = r] BY <1>0 DEF Acknowledged
  <1>2. w \in Nat /\ a + w <= L BY <1>0, WindowTaken
  <1>3. a \in XCuts(x) /\ x.snd_una < a BY DEF AckOK
  <1>4. /\ f \in Seq(SSegment)
        /\ \E m : Tiling(f, a, x.snd_nxt, Total(x), m)
        /\ XCuts(x) \subseteq Cuts(f, a)
        /\ \A j \in 1 .. Len(f) : \E i \in 1 .. Len(x.slist) : f[j] = x.slist[i]
        /\ n \in 0 .. Len(x.sbuf) /\ a \in Nat
    <2> HIDE DEF a
    <2> QED BY <1>0, <1>3, FreedOK
  <1>5. x.snd_una \in Nat /\ x.sbuf \in Seq(Byte) /\ x.snd_nxt \in Nat BY <1>0, Fields
  <1>6. x.snd_una + n = a
    <2> DEFINE u == x.snd_una
    <2> HIDE DEF u, a
    <2> QED BY <1>4, <1>5 DEF u
  <1>7. Right(b, a) /\ b \in Seq(Byte) /\ Len(b) = Len(x.sbuf) - n
    <2>1. Right(x.sbuf, x.snd_una) BY <1>0 DEF Tiled
    <2>2. Right(b, x.snd_una + n) /\ b \in Seq(Byte) /\ Len(b) = Len(x.sbuf) - n
      <3> HIDE DEF n
      <3> QED BY <2>1, <1>4, <1>5, RightDrop
    <2> QED BY <1>6, <2>2
  <1>8. r \in BOOLEAN OBVIOUS
  <1>9. Len(b) <= SndBuf /\ a + Len(b) = Total(x)
    <2> DEFINE k == Len(x.sbuf)
               u == x.snd_una
    <2>1. k \in Nat /\ k <= SndBuf /\ Len(b) = k - n /\ u \in Nat
      BY <1>0, <1>5, <1>7 DEF Tiled
    <2>2. n \in Nat /\ u + n = a /\ n <= k BY <1>4, <1>6
    <2>3. Total(x) = u + k /\ SndBuf \in Nat BY SizesAre DEF Total
    <2>4. Len(b) \in Nat BY <1>7
    <2> HIDE DEF k, u, n, b, a
    <2> QED BY <2>1, <2>2, <2>3, <2>4
  <1> SUFFICES AckTaken(x, L, C, a, y) OBVIOUS
  <1>10. r = TRUE <=> a # x.snd_nxt OBVIOUS
  <1> HIDE DEF w, f, b, r, y, a, n
  <1>11. v \in Endpoint BY <1>0, <1>2, <1>4, <1>7, Zenon DEF Endpoint
  <1>12. v.snd_wnd = w /\ v.snd_una = a /\ v.sbuf = b /\ v.slist = x.slist /\ v.state = x.state
         /\ v.snd_nxt = x.snd_nxt /\ v.recover = x.recover /\ v.dup_acks = x.dup_acks
    BY <1>0 DEF Endpoint
  <1>13. v.cwnd = x.cwnd /\ v.mss = x.mss /\ v.ssthresh = x.ssthresh /\ v.out = x.out
         /\ v.ack_set = x.ack_set
    BY <1>0 DEF Endpoint
  <1>14. Receiving(x, v) /\ Keeps(x, v) BY <1>0 DEF Endpoint, Receiving, Keeps
  <1> HIDE DEF v
  <1>15. y \in Endpoint
    <2>1. [v EXCEPT !.slist = f, !.rto_set = r] \in Endpoint
      BY <1>11, <1>4, <1>8, Zenon DEF Endpoint
    <2> QED BY <2>1, <1>1
  <1>16. y.snd_wnd = w /\ y.snd_una = a /\ y.sbuf = b /\ y.slist = f /\ y.state = v.state
         /\ y.snd_nxt = v.snd_nxt /\ y.recover = v.recover /\ y.dup_acks = v.dup_acks
         /\ y.rto_set = r
    BY <1>1, <1>11, <1>12 DEF Endpoint
  <1>17. y.cwnd = v.cwnd /\ y.mss = v.mss /\ y.ssthresh = v.ssthresh /\ y.out = v.out
         /\ y.ack_set = v.ack_set
    BY <1>1, <1>11 DEF Endpoint
  <1>18. Receiving(v, y) /\ Keeps(v, y) BY <1>1, <1>11 DEF Endpoint, Receiving, Keeps
  <1>19. Receiving(x, y) /\ Keeps(x, y) BY <1>14, <1>18 DEF Receiving, Keeps
  <1>20. Total(y) = Total(x) BY <1>9, <1>16 DEF Total
  <1>21. Tiled(y)
    <2>1. \E m : Tiling(y.slist, y.snd_una, y.snd_nxt, Total(y), m)
      BY <1>4, <1>12, <1>16, <1>20
    <2>2. y.recover <= y.snd_nxt BY <1>0, <1>12, <1>16 DEF Tiled
    <2> QED BY <2>1, <2>2, <1>7, <1>9, <1>16 DEF Tiled
  <1>22. Timed(y) BY <1>10, <1>12, <1>16 DEF Timed
  <1>23. Limited(y, L)
    <2>1. x.snd_nxt <= L BY DEF OK, Limited
    <2> QED BY <2>1, <1>2, <1>12, <1>16 DEF Limited
  <1>24. Counted(y) BY <1>12, <1>16, <1>19, <1>20 DEF OK, Counted, Keeps
  <1>25. Edge(y) = Edge(x) BY <1>19 DEF Receiving, Edge
  <1>26. Received(y, C) BY <1>19, <1>25 DEF Receiving, OK, Received
  <1>27. Tuned(y) BY <1>13, <1>17, <1>19 DEF OK, Tuned, Keeps
  <1>28. Grows(x, y)
    <2>1. x.rcv_nxt <= y.rcv_nxt /\ Edge(x) <= Edge(y)
      <3>1. x.rcv_nxt <= x.rcv_nxt BY <1>0, Fields
      <3>2. Edge(x) \in Nat BY <1>0, Fields DEF Edge
      <3> QED BY <3>1, <3>2, <1>19, <1>25 DEF Receiving
    <2>2. x.snd_una <= y.snd_una
      <3> DEFINE u == x.snd_una
      <3>1. u \in Nat /\ a \in Nat /\ u < a BY <1>3, <1>4, <1>5
      <3> SUFFICES u <= a BY <1>16
      <3> HIDE DEF u
      <3> QED BY <3>1
    <2>3. XCuts(x) \subseteq XCuts(y)
      <3>1. XCuts(y) = Cuts(f, a) BY <1>16 DEF XCuts
      <3> QED BY <3>1, <1>4
    <2> QED BY <2>1, <2>2, <2>3 DEF Grows
  <1>29. Written(y, C)
    <2>1. Written(x, C) BY DEF OK
    <2>2. y.out = x.out BY <1>13, <1>17
    <2> QED BY <2>1, <2>2, <1>0, <1>15, <1>28, WrittenKept
  <1>30. OK(y, L, C)
    BY <1>15, <1>21, <1>22, <1>23, <1>24, <1>26, <1>27, <1>29 DEF OK
  <1>31. ASSUME Unsplit(x) PROVE Unsplit(y)
    <2>1. \A j \in 1 .. Len(f) : WholeSeg(f[j]) BY <1>4, <1>31 DEF Unsplit
    <2> QED BY <2>1, <1>13, <1>16, <1>17, <1>31 DEF Unsplit
  <1> QED BY <1>12, <1>13, <1>16, <1>17, <1>19, <1>20, <1>28, <1>30, <1>31 DEF AckTaken

\* y: x with another congestion control.
Retunes(x, L, C, y) == OK(y, L, C) /\ Grows(x, y) /\ Tunes(x, y)

LEMMA CwndOK ==
    ASSUME NEW L, NEW C, NEW x, OK(x, L, C), NEW z \in Endpoint, Tunes(x, z),
           z.mss >= CtlLen, z.ssthresh > 0, NEW n \in Nat, n > 0
    PROVE  Retunes(x, L, C, SetCwnd(z, n))
  <1> DEFINE y == SetCwnd(z, n)
  <1>1. /\ y \in Endpoint /\ Tunes(z, y) /\ y.cwnd > 0
        /\ y.mss = z.mss /\ y.ssthresh = z.ssthresh
    BY SetCwndIs
  <1> SUFFICES Retunes(x, L, C, y) OBVIOUS
  <1> HIDE DEF y
  <1>2. Tunes(x, y) BY <1>1, TunesTrans
  <1>3. y.mss >= CtlLen /\ y.ssthresh > 0 BY <1>1
  <1>4. OK(y, L, C) /\ Grows(x, y) BY <1>1, <1>2, <1>3, TunesOK
  <1> QED BY <1>2, <1>4 DEF Retunes

LEMMA TunedNumbers ==
    ASSUME NEW L, NEW C, NEW x, OK(x, L, C)
    PROVE  /\ x \in Endpoint /\ x.mss \in Nat /\ x.mss >= CtlLen /\ x.mss > 0
           /\ x.cwnd \in Nat /\ x.cwnd > 0 /\ x.ssthresh \in Nat /\ x.ssthresh > 0
           /\ x.snd_una \in Nat /\ x.snd_nxt \in Nat /\ x.snd_una <= x.snd_nxt
           /\ InFlight(x) \in Nat
  <1>1. x \in Endpoint BY DEF OK
  <1>2. x.mss \in Nat /\ x.cwnd \in Nat /\ x.ssthresh \in Nat /\ x.snd_una \in Nat
        /\ x.snd_nxt \in Nat /\ x.slist \in Seq(SSegment)
    BY <1>1, Fields
  <1>3. x.mss >= CtlLen /\ x.cwnd > 0 /\ x.ssthresh > 0 /\ CtlLen \in Nat /\ CtlLen > 0
    BY SizesAre DEF OK, Tuned
  <1>4. PICK m : Tiling(x.slist, x.snd_una, x.snd_nxt, Total(x), m) BY DEF OK, Tiled
  <1>5. x.snd_una <= x.snd_nxt BY <1>2, <1>4, CutsBelow
  <1> DEFINE u == x.snd_una
             v == x.snd_nxt
             k == x.mss
  <1>6. v - u \in Nat /\ k > 0
    <2>1. u \in Nat /\ v \in Nat /\ u <= v /\ k \in Nat /\ k >= CtlLen BY <1>2, <1>3, <1>5
    <2> HIDE DEF u, v, k
    <2> QED BY <2>1, <1>3
  <1> QED BY <1>1, <1>2, <1>3, <1>5, <1>6 DEF InFlight

LEMMA GrownOK ==
    ASSUME NEW L, NEW C, NEW x, OK(x, L, C)
    PROVE  Retunes(x, L, C, Grown(x))
  <1> DEFINE z == [x EXCEPT !.dup_acks = 0]
             c == x.cwnd
             t == x.ssthresh
             k == x.mss
             n == IF c < t THEN c + k ELSE c + Most(1, (k * k) \div c)
  <1>1. x \in Endpoint /\ k \in Nat /\ k >= CtlLen /\ c \in Nat /\ c > 0 /\ t \in Nat /\ t > 0
    BY TunedNumbers
  <1>2. z \in Endpoint /\ Tunes(x, z) /\ z.mss = k /\ z.ssthresh = t BY <1>1, WithDups
  <1>3. n \in Nat /\ n > 0
    <2> HIDE DEF c, t, k
    <2>1. k * k \in Nat BY <1>1
    <2>2. (k * k) \div c \in Nat
      <3> DEFINE p == k * k
      <3> HIDE DEF p
      <3>1. p \in Nat BY <2>1 DEF p
      <3>2. p \div c \in Nat BY <3>1, <1>1
      <3> QED BY <3>2 DEF p
    <2> DEFINE q == (k * k) \div c
    <2> HIDE DEF q
    <2> QED BY <1>1, <2>2 DEF Most, q
  <1>4. Grown(x) = SetCwnd(z, n) BY DEF Grown
  <1>5. z.mss >= CtlLen /\ z.ssthresh > 0 BY <1>1, <1>2
  <1> HIDE DEF z, n
  <1>6. Retunes(x, L, C, SetCwnd(z, n)) BY <1>2, <1>3, <1>5, CwndOK
  <1> QED BY <1>4, <1>6

LEMMA RecoveryEndsOK ==
    ASSUME NEW L, NEW C, NEW x, OK(x, L, C)
    PROVE  Retunes(x, L, C, RecoveryEnds(x))
  <1> DEFINE z == [x EXCEPT !.dup_acks = 0]
             t == x.ssthresh
             k == x.mss
             f == InFlight(x)
             n == Least(t, f + k)
  <1>1. x \in Endpoint /\ k \in Nat /\ k >= CtlLen /\ k > 0 /\ t \in Nat /\ t > 0 /\ f \in Nat
    BY TunedNumbers
  <1>2. z \in Endpoint /\ Tunes(x, z) /\ z.mss = k /\ z.ssthresh = t BY <1>1, WithDups
  <1>3. n \in Nat /\ n > 0
    <2> HIDE DEF t, k, f
    <2> QED BY <1>1 DEF Least
  <1>4. RecoveryEnds(x) = SetCwnd(z, n) BY DEF RecoveryEnds
  <1>5. z.mss >= CtlLen /\ z.ssthresh > 0 BY <1>1, <1>2
  <1> HIDE DEF z, n
  <1>6. Retunes(x, L, C, SetCwnd(z, n)) BY <1>2, <1>3, <1>5, CwndOK
  <1> QED BY <1>4, <1>6

LEMMA RecoveryGoesOnOK ==
    ASSUME NEW L, NEW C, NEW x, OK(x, L, C), NEW acked \in Nat
    PROVE  Retunes(x, L, C, RecoveryGoesOn(x, acked))
  <1> DEFINE c == x.cwnd
             k == x.mss
             n == c + k - Least(acked, c)
  <1>1. x \in Endpoint /\ k \in Nat /\ k >= CtlLen /\ k > 0 /\ c \in Nat /\ x.ssthresh > 0
    BY TunedNumbers
  <1>3. n \in Nat /\ n > 0
    <2> HIDE DEF c, k
    <2> QED BY <1>1 DEF Least
  <1>4. RecoveryGoesOn(x, acked) = SetCwnd(x, n) BY DEF RecoveryGoesOn
  <1>5. x.mss >= CtlLen /\ Tunes(x, x) BY <1>1, TunesSame
  <1> HIDE DEF n
  <1>6. Retunes(x, L, C, SetCwnd(x, n)) BY <1>1, <1>3, <1>5, CwndOK
  <1> QED BY <1>4, <1>6

LEMMA BackoffOK ==
    ASSUME NEW L, NEW C, NEW x, OK(x, L, C)
    PROVE  Retunes(x, L, C, Backoff(x))
  <1> DEFINE f == InFlight(x)
             k == x.mss
             t == Most(f \div 2, 2 * k)
             z == [x EXCEPT !.ssthresh = t]
  <1>1. x \in Endpoint /\ k \in Nat /\ k >= CtlLen /\ k > 0 /\ f \in Nat BY TunedNumbers
  <1>2. t \in Nat /\ t > 0
    <2> HIDE DEF f, k
    <2> QED BY <1>1 DEF Most
  <1>3. Backoff(x) = SetCwnd(z, k) BY DEF Backoff
  <1> HIDE DEF t
  <1>4. z \in Endpoint /\ Tunes(x, z) /\ z.ssthresh = t /\ z.mss = k BY <1>1, <1>2, WithThresh
  <1>5. z.mss >= CtlLen /\ z.ssthresh > 0 BY <1>1, <1>2, <1>4
  <1> HIDE DEF z, k
  <1>6. Retunes(x, L, C, SetCwnd(z, k)) BY <1>1, <1>4, <1>5, CwndOK
  <1> QED BY <1>3, <1>6

SameInbox(x, y) ==
    /\ y.rcv_nxt = x.rcv_nxt /\ y.rcv_wnd = x.rcv_wnd /\ y.rlist = x.rlist
    /\ y.readable = x.readable /\ y.ahead = x.ahead /\ y.got = x.got
\* y: what an acknowledgement or a timer has made of x.
Reacts(x, L, C, y) ==
    /\ OK(y, L, C) /\ Grows(x, y) /\ SameInbox(x, y) /\ Keeps(x, y)
    /\ y.state = x.state \/ y.state = "CLOSED"
    /\ y.snd_una = x.snd_una /\ x.snd_nxt <= y.snd_nxt /\ Total(y) = Total(x)
    /\ Unsplit(x) => Unsplit(y)
\* The same, when what a acknowledges may have been forgotten.
Acted(x, L, C, a, y) ==
    /\ OK(y, L, C) /\ Grows(x, y) /\ SameInbox(x, y) /\ Keeps(x, y)
    /\ y.state = x.state \/ y.state = "CLOSED"
    /\ y.snd_una = x.snd_una \/ y.snd_una = a
    /\ x.snd_nxt <= y.snd_nxt /\ Total(y) = Total(x)
    /\ Unsplit(x) => Unsplit(y)

LEMMA ReactsTrans ==
    ASSUME NEW L, NEW C, NEW x \in Endpoint, NEW y, NEW z, Reacts(x, L, C, y), Reacts(y, L, C, z)
    PROVE  Reacts(x, L, C, z)
  <1>1. y \in Endpoint /\ z \in Endpoint BY DEF Reacts, OK
  <1>2. Grows(x, z) BY <1>1, GrowsTrans DEF Reacts
  <1>3. SameInbox(x, z) /\ Keeps(x, z) BY DEF Reacts, SameInbox, Keeps
  <1>4. x.snd_nxt <= z.snd_nxt
    <2> DEFINE a == x.snd_nxt
               b == y.snd_nxt
               c == z.snd_nxt
    <2>1. a \in Nat /\ b \in Nat /\ c \in Nat BY <1>1, Fields
    <2>2. a <= b /\ b <= c BY DEF Reacts
    <2> HIDE DEF a, b, c
    <2>3. a <= c BY <2>1, <2>2
    <2> QED BY <2>3 DEF a, c
  <1> QED BY <1>2, <1>3, <1>4 DEF Reacts

LEMMA ReactsActs ==
    ASSUME NEW L, NEW C, NEW x, NEW y, Reacts(x, L, C, y), NEW a
    PROVE  Acted(x, L, C, a, y)
  BY DEF Reacts, Acted

LEMMA ActsTrans ==
    ASSUME NEW L, NEW C, NEW x \in Endpoint, NEW a, NEW y, NEW z, Acted(x, L, C, a, y),
           Reacts(y, L, C, z)
    PROVE  Acted(x, L, C, a, z)
  <1>1. y \in Endpoint /\ z \in Endpoint BY DEF Acted, Reacts, OK
  <1>2. Grows(x, z) BY <1>1, GrowsTrans DEF Acted, Reacts
  <1>3. SameInbox(x, z) /\ Keeps(x, z) BY DEF Acted, Reacts, SameInbox, Keeps
  <1>4. x.snd_nxt <= z.snd_nxt
    <2> DEFINE b == x.snd_nxt
               c == y.snd_nxt
               d == z.snd_nxt
    <2>1. b \in Nat /\ c \in Nat /\ d \in Nat BY <1>1, Fields
    <2>2. b <= c /\ c <= d BY DEF Acted, Reacts
    <2> HIDE DEF b, c, d
    <2>3. b <= d BY <2>1, <2>2
    <2> QED BY <2>3 DEF b, d
  <1> QED BY <1>2, <1>3, <1>4 DEF Acted, Reacts

LEMMA ReactsSame ==
    ASSUME NEW L, NEW C, NEW x, OK(x, L, C)
    PROVE  Reacts(x, L, C, x)
  <1>1. x \in Endpoint BY DEF OK
  <1>2. Grows(x, x) BY <1>1, GrowsSame
  <1>3. x.snd_nxt <= x.snd_nxt BY <1>1, Fields
  <1> QED BY <1>2, <1>3 DEF Reacts, SameInbox, Keeps

LEMMA RetunesReacts ==
    ASSUME NEW L, NEW C, NEW x \in Endpoint, NEW y, Retunes(x, L, C, y)
    PROVE  Reacts(x, L, C, y)
  <1>1. x.snd_nxt <= x.snd_nxt BY Fields
  <1>2. SameInbox(x, y) /\ Keeps(x, y) BY DEF Retunes, Tunes, Steady, SameInbox, Keeps
  <1>3. /\ Total(y) = Total(x) /\ y.snd_nxt = x.snd_nxt /\ y.state = x.state
        /\ y.snd_una = x.snd_una
    BY DEF Retunes, Tunes, Steady, Total
  <1>4. Unsplit(x) => Unsplit(y) BY DEF Retunes, Tunes, Steady, Unsplit
  <1> QED BY <1>1, <1>2, <1>3, <1>4 DEF Reacts, Retunes

LEMMA SettlesReacts ==
    ASSUME NEW L, NEW C, NEW x \in Endpoint, NEW y, Settles(x, L, C, y),
           y.state = x.state \/ y.state = "CLOSED"
    PROVE  Reacts(x, L, C, y)
  <1>1. x.snd_nxt <= x.snd_nxt BY Fields
  <1>2. SameInbox(x, y) /\ Keeps(x, y) BY DEF Settles, Restated, Steady, SameInbox, Keeps
  <1>3. Total(y) = Total(x) /\ y.snd_nxt = x.snd_nxt /\ y.snd_una = x.snd_una
    BY DEF Settles, Restated, Steady, Total
  <1>4. Unsplit(x) => Unsplit(y) BY DEF Settles, Restated, Steady, Unsplit
  <1> QED BY <1>1, <1>2, <1>3, <1>4 DEF Reacts, Settles

LEMMA ClosedReacts ==
    ASSUME NEW L, NEW C, NEW x, OK(x, L, C)
    PROVE  Reacts(x, L, C, closedown(x)) /\ closedown(x).state = "CLOSED"
  <1>1. Settles(x, L, C, closedown(x)) /\ closedown(x).state = "CLOSED" BY ClosedownOK
  <1>2. x \in Endpoint BY DEF OK
  <1> QED BY <1>1, <1>2, SettlesReacts

\* Only the peer's window, the recovery point and the counter of duplicates differ.
Rewinds(x, y) ==
    /\ SameInbox(x, y) /\ Keeps(x, y) /\ y.state = x.state
    /\ y.snd_una = x.snd_una /\ y.snd_nxt = x.snd_nxt /\ y.slist = x.slist
    /\ y.sbuf = x.sbuf /\ y.rto_set = x.rto_set /\ y.out = x.out
    /\ y.mss = x.mss /\ y.cwnd = x.cwnd /\ y.ssthresh = x.ssthresh

LEMMA RewindsOK ==
    ASSUME NEW L, NEW C, NEW x, OK(x, L, C), NEW y \in Endpoint, Rewinds(x, y),
           x.snd_una + y.snd_wnd <= L, y.recover <= x.snd_nxt
    PROVE  Reacts(x, L, C, y)
  <1>0. x \in Endpoint BY DEF OK
  <1>1. Total(y) = Total(x) /\ Edge(y) = Edge(x) BY DEF Rewinds, SameInbox, Total, Edge
  <1>2. Grows(x, y)
    <2>1. Cuts(x.slist, x.snd_una) \subseteq Cuts(y.slist, x.snd_una) BY DEF Rewinds
    <2> QED BY <2>1, <1>0, GrowsSame DEF Rewinds, SameInbox
  <1>3. Tiled(y) BY <1>1 DEF OK, Tiled, Rewinds
  <1>4. Timed(y) BY DEF OK, Timed, Rewinds
  <1>5. Limited(y, L) BY DEF OK, Limited, Rewinds
  <1>6. Counted(y) BY <1>1 DEF OK, Counted, Rewinds, Keeps
  <1>7. Received(y, C) BY <1>1 DEF OK, Received, Rewinds, SameInbox
  <1>8. Tuned(y) BY DEF OK, Tuned, Rewinds, Keeps
  <1>9. Written(y, C)
    <2>1. Written(x, C) BY DEF OK
    <2>2. y.out = x.out BY DEF Rewinds
    <2> QED BY <2>1, <2>2, <1>0, <1>2, WrittenKept
  <1>10. x.snd_nxt <= y.snd_nxt
    <2>1. x.snd_nxt <= x.snd_nxt BY <1>0, Fields
    <2> QED BY <2>1 DEF Rewinds
  <1>11. Unsplit(x) => Unsplit(y) BY DEF Unsplit, Rewinds
  <1> QED BY <1>1, <1>2, <1>3, <1>4, <1>5, <1>6, <1>7, <1>8, <1>9, <1>10, <1>11
        DEF OK, Reacts, Rewinds

\* The first segment goes out again, or the connection is closed.
LEMMA ResentOK ==
    ASSUME NEW L \in Nat, NEW C, NEW x, OK(x, L, C), x.snd_una # x.snd_nxt, NEW result
    PROVE  Reacts(x, L, C, Resent(x, result))
  <1>0. x \in Endpoint /\ x.slist \in Seq(SSegment) /\ x.mss >= CtlLen /\ x.cwnd > 0
        /\ x.ssthresh > 0
    <2>1. x \in Endpoint BY DEF OK
    <2> QED BY <2>1, Fields, TunedNumbers
  <1>1. PICK m : Tiling(x.slist, x.snd_una, x.snd_nxt, Total(x), m) BY DEF OK, Tiled
  <1>2. m # 0 BY <1>1 DEF Tiling, Bound
  <1>3. m \in 0 .. Len(x.slist) BY <1>1 DEF Tiling
  <1>4. Len(x.slist) \in Nat BY <1>0
  <1>5. 1 \in 1 .. Len(x.slist) /\ 1 <= m + 1 /\ 1 <= m BY <1>2, <1>3, <1>4
  <1>6. x.slist[1].xmit > 0 BY <1>1, <1>5 DEF Tiling
  <1>7. CASE FailsToTransmit(x, 1, result)
    <2> DEFINE w == NotTransmitted(x, 1, result)
    <2>1. /\ w \in Endpoint /\ Tunes(x, w) /\ w.mss >= CtlLen /\ w.cwnd > 0
          /\ w.ssthresh = x.ssthresh
      BY <1>0, NotTransmittedIs
    <2>2. Resent(x, result) = closedown(w) BY <1>7 DEF Resent
    <2> HIDE DEF w
    <2>3. w.ssthresh > 0 BY <2>1, <1>0
    <2>4. OK(w, L, C) /\ Grows(x, w) BY <2>1, <2>3, TunesOK
    <2>5. Reacts(x, L, C, w) BY <1>0, <2>1, <2>4, RetunesReacts DEF Retunes
    <2>6. Reacts(w, L, C, closedown(w)) BY <2>4, ClosedReacts
    <2> QED BY <1>0, <2>2, <2>5, <2>6, ReactsTrans
  <1>8. CASE ~FailsToTransmit(x, 1, result)
    <2> DEFINE z == transmit(x, 1, result)
    <2>1. Resent(x, result) = z BY <1>8 DEF Resent
    <2>2. MayGo(x, 1, L)
      <3>1. x.slist[1].xmit \in Nat BY <1>0, <1>5, SegFields
      <3>2. ~(x.slist[1].xmit = 0) BY <1>6, <3>1
      <3> QED BY <3>2 DEF MayGo
    <2>3. Transmits(x, L, C, 1, z) BY <1>1, <1>5, <1>8, <2>2, TransmitOK
    <2> HIDE DEF z
    <2>4. OK(z, L, C) /\ Grows(x, z) /\ Sends(x, z) /\ x.snd_nxt <= z.snd_nxt
          /\ (OthersWhole(x, 1) => Unsplit(z))
      BY <2>3 DEF Transmits
    <2>5. Unsplit(x) => OthersWhole(x, 1) BY <1>5 DEF Unsplit, OthersWhole, WholeSeg
    <2>6. /\ SameInbox(x, z) /\ Keeps(x, z) /\ z.state = x.state /\ Total(z) = Total(x)
          /\ z.snd_una = x.snd_una
      BY <2>4 DEF Sends, Receiving, SameInbox, Total
    <2> QED BY <2>1, <2>4, <2>5, <2>6 DEF Reacts
  <1> QED BY <1>7, <1>8

LEMMA RecoveryBeginsOK ==
    ASSUME NEW L \in Nat, NEW C, NEW x, OK(x, L, C), NEW thresh \in Nat, thresh > 0
    PROVE  Reacts(x, L, C, RecoveryBegins(x, thresh))
  <1> DEFINE v == x.snd_nxt
             w == [x EXCEPT !.recover = v]
             z == [w EXCEPT !.ssthresh = thresh]
             k == x.mss
             n == thresh + 3 * k
  <1>0. x \in Endpoint /\ v \in Nat /\ k \in Nat /\ k >= CtlLen /\ v <= v BY TunedNumbers
  <1>1. w \in Endpoint
    <2> HIDE DEF v
    <2> QED BY <1>0, Zenon DEF Endpoint
  <1>2. Rewinds(x, w) BY <1>0 DEF Endpoint, Rewinds, SameInbox, Keeps
  <1>3. w.snd_wnd = x.snd_wnd /\ w.recover = v BY <1>0 DEF Endpoint
  <1>4. RecoveryBegins(x, thresh) = SetCwnd(z, n) BY <1>0 DEF RecoveryBegins
  <1>5. n \in Nat /\ n > 0
    <2> HIDE DEF k
    <2> QED BY <1>0
  <1> HIDE DEF w, n
  <1>6. x.snd_una + w.snd_wnd <= L /\ w.recover <= x.snd_nxt BY <1>0, <1>3 DEF OK, Limited
  <1>7. Reacts(x, L, C, w) BY <1>1, <1>2, <1>6, RewindsOK
  <1>8. z \in Endpoint /\ Tunes(w, z) /\ z.ssthresh = thresh /\ z.mss = w.mss BY <1>1, WithThresh
  <1>9. z.mss >= CtlLen /\ z.ssthresh > 0 BY <1>0, <1>2, <1>8 DEF Rewinds
  <1>10. OK(w, L, C) BY <1>7 DEF Reacts
  <1> HIDE DEF z
  <1>11. Retunes(w, L, C, SetCwnd(z, n)) BY <1>5, <1>8, <1>9, <1>10, CwndOK
  <1>12. Reacts(w, L, C, SetCwnd(z, n)) BY <1>1, <1>11, RetunesReacts
  <1> QED BY <1>0, <1>4, <1>7, <1>12, ReactsTrans

LEMMA AckTakenActs ==
    ASSUME NEW L, NEW C, NEW x, OK(x, L, C), NEW a, NEW y, AckTaken(x, L, C, a, y)
    PROVE  Acted(x, L, C, a, y)
  <1>1. x \in Endpoint BY DEF OK
  <1>2. x.snd_nxt <= x.snd_nxt BY <1>1, Fields
  <1>3. SameInbox(x, y) BY DEF AckTaken, Receiving, SameInbox
  <1> QED BY <1>2, <1>3 DEF AckTaken, Acted

LEMMA UnlessClosedOK ==
    ASSUME NEW L, NEW C, NEW x, OK(x, L, C), NEW y, Reacts(x, L, C, y)
    PROVE  Reacts(x, L, C, UnlessClosed(x, y))
  BY ReactsSame DEF UnlessClosed

LEMMA OnNewAckOK ==
    ASSUME NEW L \in Nat, NEW C, NEW x, OK(x, L, C), NEW seg, AckOK(x, L, seg),
           x.snd_una < seg.ack, seg.ack <= x.snd_nxt, NEW result
    PROVE  Acted(x, L, C, seg.ack, OnNewAck(x, seg, result))
  <1> DEFINE y == Acknowledged(x, seg)
             a == seg.ack
  <1>0. x \in Endpoint BY DEF OK
  <1>1. AckTaken(x, L, C, a, y) BY AcknowledgedOK
  <1>2. OnNewAck(x, seg, result) =
            IF x.dup_acks < 3 THEN Grown(y)
            ELSE IF a >= x.recover THEN RecoveryEnds(y)
            ELSE PartlyAcknowledged(Resent(y, result), a - x.snd_una)
    BY DEF OnNewAck
  <1> HIDE DEF y
  <1>3. Acted(x, L, C, a, y) BY <1>1, AckTakenActs
  <1>4. OK(y, L, C) /\ y \in Endpoint BY <1>1 DEF AckTaken, OK
  <1>5. Reacts(y, L, C, Grown(y))
    <2>1. Retunes(y, L, C, Grown(y)) BY <1>4, GrownOK
    <2> QED BY <2>1, <1>4, RetunesReacts
  <1>6. Reacts(y, L, C, RecoveryEnds(y))
    <2>1. Retunes(y, L, C, RecoveryEnds(y)) BY <1>4, RecoveryEndsOK
    <2> QED BY <2>1, <1>4, RetunesReacts
  <1>7. CASE x.dup_acks < 3
    <2>1. OnNewAck(x, seg, result) = Grown(y) BY <1>2, <1>7
    <2> QED BY <2>1, <1>0, <1>3, <1>5, ActsTrans
  <1>8. CASE ~(x.dup_acks < 3) /\ a >= x.recover
    <2>1. OnNewAck(x, seg, result) = RecoveryEnds(y) BY <1>2, <1>8
    <2> QED BY <2>1, <1>0, <1>3, <1>6, ActsTrans
  <1>9. CASE ~(x.dup_acks < 3) /\ ~(a >= x.recover)
    <2> DEFINE z == Resent(y, result)
               n == a - x.snd_una
               w == RecoveryGoesOn(z, n)
    <2>1. OnNewAck(x, seg, result) = UnlessClosed(z, w) BY <1>2, <1>9 DEF PartlyAcknowledged
    <2>2. n \in Nat /\ a # x.snd_nxt
      <3> DEFINE u == x.snd_una
                 v == x.snd_nxt
                 r == x.recover
      <3>1. u \in Nat /\ v \in Nat /\ r \in Nat /\ r <= v BY <1>0, Fields DEF OK, Tiled
      <3>2. a \in Nat
        <4>1. seg \in Packet BY DEF AckOK
        <4> QED BY <4>1, PacketFields
      <3>3. u < a /\ ~(a >= r) BY <1>9
      <3> SUFFICES a - u \in Nat /\ a # v OBVIOUS
      <3> HIDE DEF u, v, r, a
      <3> QED BY <3>1, <3>2, <3>3
    <2>3. y.snd_una # y.snd_nxt BY <1>1, <2>2 DEF AckTaken
    <2> HIDE DEF n
    <2>4. Reacts(y, L, C, z) BY <1>4, <2>3, ResentOK
    <2>5. OK(z, L, C) /\ z \in Endpoint BY <2>4 DEF Reacts, OK
    <2> HIDE DEF z
    <2>6. Reacts(z, L, C, w)
      <3>1. Retunes(z, L, C, w) BY <2>2, <2>5, RecoveryGoesOnOK
      <3> QED BY <3>1, <2>5, RetunesReacts
    <2> HIDE DEF w
    <2>7. Reacts(z, L, C, UnlessClosed(z, w)) BY <2>5, <2>6, UnlessClosedOK
    <2>8. Reacts(y, L, C, UnlessClosed(z, w)) BY <1>4, <2>4, <2>7, ReactsTrans
    <2> QED BY <1>0, <1>3, <2>1, <2>8, ActsTrans
  <1> QED BY <1>7, <1>8, <1>9

LEMMA DupsOK ==
    ASSUME NEW L, NEW C, NEW x, OK(x, L, C), NEW n \in Nat, NEW y, y = [x EXCEPT !.dup_acks = n]
    PROVE  /\ Retunes(x, L, C, y) /\ Reacts(x, L, C, y)
           /\ y.mss = x.mss /\ y.cwnd = x.cwnd /\ y.ssthresh = x.ssthresh
  <1>0. x \in Endpoint /\ x.mss >= CtlLen /\ x.cwnd > 0 /\ x.ssthresh > 0 BY TunedNumbers
  <1>1. /\ y \in Endpoint /\ Tunes(x, y) /\ y.mss = x.mss /\ y.cwnd = x.cwnd
        /\ y.ssthresh = x.ssthresh
    BY <1>0, WithDups
  <1>2. y.mss >= CtlLen /\ y.cwnd > 0 /\ y.ssthresh > 0 BY <1>0, <1>1
  <1>3. OK(y, L, C) /\ Grows(x, y) BY <1>1, <1>2, TunesOK
  <1>4. Retunes(x, L, C, y) BY <1>1, <1>3 DEF Retunes
  <1> QED BY <1>0, <1>1, <1>4, RetunesReacts

LEMMA OnSameAckOK ==
    ASSUME NEW L \in Nat, NEW C, NEW x, OK(x, L, C), NEW seg, AckOK(x, L, seg),
           seg.ack = x.snd_una, NEW result
    PROVE  Reacts(x, L, C, OnSameAck(x, seg, result))
  <1> DEFINE w == seg.wnd * x.swnd_scale
             y == [x EXCEPT !.snd_wnd = w]
             g == OnSameAck(x, seg, result)
             d == x.dup_acks
             t0 == [y EXCEPT !.dup_acks = 0]
             t1 == [y EXCEPT !.dup_acks = d + 1]
             t3 == [y EXCEPT !.dup_acks = 3]
             t4 == [y EXCEPT !.dup_acks = 4]
             n4 == y.cwnd + y.mss
  <1>0. x \in Endpoint /\ d \in Nat /\ Tuned(x)
    <2>1. x \in Endpoint /\ Tuned(x) BY DEF OK
    <2> QED BY <2>1, Fields
  <1>1. w \in Nat /\ x.snd_una + w <= L
    <2>1. w \in Nat /\ seg.ack + w <= L BY <1>0, WindowTaken
    <2> QED BY <2>1
  <1>2. y.dup_acks = d BY <1>0 DEF Endpoint
  <1>3. \/ g = y \/ g = t0 \/ g = t1 \/ g = SetCwnd(t4, n4)
        \/ g = FastRetransmitted(Resent(t3, result)) /\ x.snd_una # x.snd_nxt
    BY <1>2 DEF OnSameAck
  <1> HIDE DEF w, g
  <1>4. y \in Endpoint BY <1>0, <1>1, Zenon DEF Endpoint
  <1>5. Rewinds(x, y) BY <1>0 DEF Endpoint, Rewinds, SameInbox, Keeps
  <1>6. y.snd_wnd = w /\ y.recover = x.recover BY <1>0 DEF Endpoint
  <1> HIDE DEF y
  <1>7. Reacts(x, L, C, y)
    <2>1. y.recover <= x.snd_nxt /\ x.snd_una + y.snd_wnd <= L BY <1>1, <1>6 DEF OK, Tiled
    <2> QED BY <2>1, <1>4, <1>5, RewindsOK
  <1>8. OK(y, L, C) BY <1>7 DEF Reacts
  <1>9. d + 1 \in Nat BY <1>0
  <1>10. CASE g = y BY <1>7, <1>10 DEF g
  <1>11. CASE g = t0
    <2>1. Reacts(y, L, C, t0) BY <1>8, DupsOK
    <2> QED BY <2>1, <1>0, <1>7, <1>11, ReactsTrans DEF g
  <1>12. CASE g = t1
    <2>1. Reacts(y, L, C, t1)
      <3> DEFINE e == d + 1
      <3> HIDE DEF e
      <3> QED BY <1>8, <1>9, DupsOK DEF e
    <2> QED BY <2>1, <1>0, <1>7, <1>12, ReactsTrans DEF g
  <1>13. CASE g = SetCwnd(t4, n4)
    <2>1. /\ Retunes(y, L, C, t4) /\ t4.mss = y.mss /\ t4.ssthresh = y.ssthresh BY <1>8, DupsOK
    <2>2. y.mss \in Nat /\ y.mss >= CtlLen /\ y.mss > 0 /\ y.cwnd \in Nat /\ y.ssthresh > 0
      BY <1>8, TunedNumbers
    <2>3. n4 \in Nat /\ n4 > 0
      <3> DEFINE a == y.cwnd
                 b == y.mss
      <3> HIDE DEF a, b
      <3> QED BY <2>2 DEF a, b
    <2> HIDE DEF t4, n4
    <2>4. t4 \in Endpoint /\ Tunes(y, t4) BY <2>1 DEF Retunes, OK
    <2>5. t4.mss >= CtlLen /\ t4.ssthresh > 0 BY <2>1, <2>2
    <2>6. Retunes(y, L, C, SetCwnd(t4, n4)) BY <1>8, <2>3, <2>4, <2>5, CwndOK
    <2>7. Reacts(y, L, C, SetCwnd(t4, n4)) BY <1>4, <2>6, RetunesReacts
    <2> QED BY <2>7, <1>0, <1>7, <1>13, ReactsTrans DEF g
  <1>14. CASE g = FastRetransmitted(Resent(t3, result)) /\ x.snd_una # x.snd_nxt
    <2> DEFINE r == Resent(t3, result)
               h == Most(InFlight(r) \div 2, 2 * r.mss)
               e == RecoveryBegins(r, h)
    <2>1. Retunes(y, L, C, t3) /\ Reacts(y, L, C, t3) BY <1>8, DupsOK
    <2>2. FastRetransmitted(r) = UnlessClosed(r, e) BY DEF FastRetransmitted
    <2> HIDE DEF t3
    <2>3. OK(t3, L, C) /\ t3 \in Endpoint BY <2>1 DEF Reacts, OK
    <2>4. t3.snd_una # t3.snd_nxt
      BY <1>14, <1>5, <2>1 DEF Retunes, Tunes, Steady, Rewinds
    <2>5. Reacts(t3, L, C, r) BY <2>3, <2>4, ResentOK
    <2>6. OK(r, L, C) /\ r \in Endpoint BY <2>5 DEF Reacts, OK
    <2> HIDE DEF r
    <2>7. h \in Nat /\ h > 0
      <3> DEFINE f == InFlight(r)
                 k == r.mss
      <3>1. f \in Nat /\ k \in Nat /\ k > 0 BY <2>6, TunedNumbers
      <3> HIDE DEF f, k
      <3>2. Most(f \div 2, 2 * k) \in Nat /\ Most(f \div 2, 2 * k) > 0 BY <3>1 DEF Most
      <3> QED BY <3>2 DEF f, k
    <2> HIDE DEF h
    <2>8. Reacts(r, L, C, e) BY <2>6, <2>7, RecoveryBeginsOK
    <2> HIDE DEF e
    <2>9. Reacts(r, L, C, UnlessClosed(r, e)) BY <2>6, <2>8, UnlessClosedOK
    <2>10. Reacts(t3, L, C, g) BY <1>14, <2>2, <2>3, <2>5, <2>9, ReactsTrans DEF r
    <2>11. Reacts(y, L, C, g) BY <1>4, <2>1, <2>10, ReactsTrans
    <2> QED BY <2>11, <1>0, <1>7, ReactsTrans DEF g
  <1> QED BY <1>3, <1>10, <1>11, <1>12, <1>13, <1>14

LEMMA OnAckOK ==
    ASSUME NEW L \in Nat, NEW C, NEW x, OK(x, L, C), NEW seg, AckOK(x, L, seg), NEW result
    PROVE  Acted(x, L, C, seg.ack, OnAck(x, seg, result))
  <1>0. x \in Endpoint BY DEF OK
  <1>1. CASE seg.ack > x.snd_una /\ seg.ack <= x.snd_nxt
    <2>1. x.snd_una < seg.ack
      <3> DEFINE a == seg.ack
                 u == x.snd_una
      <3>1. a \in Nat /\ u \in Nat
        <4>1. seg \in Packet BY DEF AckOK
        <4> QED BY <4>1, <1>0, PacketFields, Fields
      <3>2. a > u BY <1>1
      <3> SUFFICES u < a OBVIOUS
      <3> HIDE DEF a, u
      <3> QED BY <3>1, <3>2
    <2>2. OnAck(x, seg, result) = OnNewAck(x, seg, result) BY <1>1 DEF OnAck
    <2> QED BY <1>1, <2>1, <2>2, OnNewAckOK
  <1>2. CASE ~(seg.ack > x.snd_una /\ seg.ack <= x.snd_nxt) /\ seg.ack = x.snd_una
    <2>1. OnAck(x, seg, result) = OnSameAck(x, seg, result) BY <1>2 DEF OnAck
    <2>2. Reacts(x, L, C, OnAck(x, seg, result)) BY <1>2, <2>1, OnSameAckOK
    <2> QED BY <2>2, ReactsActs
  <1>3. CASE ~(seg.ack > x.snd_una /\ seg.ack <= x.snd_nxt) /\ seg.ack # x.snd_una
    <2>1. OnAck(x, seg, result) = x BY <1>3 DEF OnAck
    <2>2. Reacts(x, L, C, OnAck(x, seg, result)) BY <2>1, ReactsSame
    <2> QED BY <2>2, ReactsActs
  <1> QED BY <1>1, <1>2, <1>3

-----------------------------------------------------------------------------
(* process: data                                                           *)

\* seg carries what the other end, which is cut at C, has sent.
DataOK(C, seg) ==
    /\ seg \in Packet
    /\ seg.data # <<>> =>
         /\ seg.seq \in Nat /\ seg.seq + Len(seg.data) \in C /\ Right(seg.data, seg.seq)
         /\ seg.ctl <=> seg.seq < CtlLen
         /\ seg.ctl => seg.seq + Len(seg.data) <= CtlLen
\* s: what is new in seg.
Fits(x, seg, s) ==
    /\ s.ctl = seg.ctl /\ s.data \in Seq(Byte)
    /\ s.data # <<>> =>
         /\ seg.data # <<>> /\ s.seq \in Nat /\ x.rcv_nxt <= s.seq /\ seg.seq <= s.seq
         /\ s.seq + Len(s.data) = seg.seq + Len(seg.data) /\ Right(s.data, s.seq)
         /\ s.seq = x.rcv_nxt \/ s.seq = seg.seq
    /\ s.data = <<>> => seg.data = <<>> \/ seg.seq + Len(seg.data) <= x.rcv_nxt

\* Nothing is cut off on the right: the sender has kept to the window.
LEMMA FittedOK ==
    ASSUME NEW L, NEW C, NEW x, OK(x, L, C), NEW seg, DataOK(C, seg)
    PROVE  Fits(x, seg, Fitted(x, seg))
  <1> DEFINE q == seg.seq
             r == x.rcv_nxt
             d == seg.data
             l == Len(seg.data)
             a == Len(x.ahead)
             w == x.rcv_wnd
             old == Most(0, r - q)
             s == IF old < l THEN [seg EXCEPT !.seq = q + old, !.data = Drop(d, old)]
                  ELSE [seg EXCEPT !.data = <<>>]
             over == Most(0, s.seq + Len(s.data) - r - a)
             e == Take(s.data, Most(0, Len(s.data) - over))
             f == Fitted(x, seg)
  <1>0. x \in Endpoint /\ seg \in Packet BY DEF OK, DataOK
  <1>1. q \in Int /\ d \in Seq(Byte) /\ l \in Nat /\ r \in Nat /\ a \in Nat /\ w \in Nat
        /\ seg.ctl \in BOOLEAN /\ (d # <<>> <=> l > 0)
    <2>1. q \in Int /\ d \in Seq(Byte) /\ l \in Nat /\ r \in Nat /\ x.ahead \in Seq(Byte) /\ w \in Nat
          /\ seg.ctl \in BOOLEAN
      BY <1>0, Fields, PacketFields
    <2>2. d # <<>> <=> Len(d) > 0 BY <2>1
    <2> QED BY <2>1, <2>2
  <1>2. f = [s EXCEPT !.data = e] BY <1>0 DEF Fitted, Packet
  <1>3. w <= a BY DEF OK, Received
  <1>4. l > 0 => q \in Nat /\ q + l \in C /\ Right(d, q) BY <1>1 DEF DataOK
  <1>5. l > 0 => q + l <= r + w BY <1>4 DEF OK, Received, Edge
  <1>6. old \in Nat /\ (old = 0 \/ old = r - q) /\ (r - q <= old)
    <2> HIDE DEF q, r
    <2> QED BY <1>1 DEF Most
  <1> SUFFICES Fits(x, seg, f) OBVIOUS
  <1> HIDE DEF f, over
  <1>7. CASE old < l
    <2> DEFINE g == Drop(d, old)
               p == q + old
    <2>0. l > 0 /\ old \in 0 .. l /\ p \in Nat /\ r <= p /\ q <= p /\ p + (l - old) = q + l
          /\ q + l <= r + w /\ (p = r \/ p = q) /\ q \in Nat /\ l - old > 0
      <3> HIDE DEF q, r, l, w, old
      <3> QED BY <1>1, <1>4, <1>5, <1>6, <1>7
    <2>1. Right(g, p) /\ g \in Seq(Byte) /\ Len(g) = l - old
      <3> HIDE DEF old, q, d
      <3>1. old \in 0 .. Len(d) BY <2>0 DEF d
      <3> QED BY <3>1, <1>1, <1>4, <2>0, RightDrop DEF d
    <2>2. s = [seg EXCEPT !.seq = p, !.data = g] BY <1>7
    <2> HIDE DEF s, g, p
    <2>3. s.seq = p /\ s.data = g /\ s.ctl = seg.ctl BY <1>0, <2>2 DEF Packet
    <2>4. over = 0
      <3>1. over = Most(0, p + (l - old) - r - a) BY <2>1, <2>3 DEF over
      <3> HIDE DEF q, r, l, w, a, old, over
      <3> QED BY <3>1, <1>1, <1>3, <1>6, <2>0 DEF Most
    <2>5. e = g
      <3> DEFINE n == Len(g)
      <3>1. n \in Nat BY <2>1
      <3>2. Most(0, n - 0) = n
        <4> HIDE DEF n
        <4> QED BY <3>1 DEF Most
      <3>3. e = SubSeq(g, 1, Len(g)) BY <2>3, <2>4, <3>2 DEF Take
      <3>4. SubSeq(g, 1, Len(g)) = g BY <2>1
      <3> QED BY <3>3, <3>4
    <2> HIDE DEF e
    <2>6. f.seq = p /\ f.data = g /\ f.ctl = seg.ctl BY <1>0, <1>2, <2>2, <2>5 DEF Packet
    <2>7. p + Len(g) = q + l BY <2>0, <2>1
    <2>8. d # <<>> BY <1>1, <2>0
    <2>9. g # <<>>
      <3>1. Len(g) > 0 BY <2>0, <2>1
      <3> QED BY <3>1, <2>1
    <2> QED BY <2>0, <2>1, <2>6, <2>7, <2>8, <2>9 DEF Fits
  <1>8. CASE ~(old < l)
    <2>1. s = [seg EXCEPT !.data = <<>>] BY <1>8
    <2> HIDE DEF s
    <2>2. s.data = <<>> /\ s.ctl = seg.ctl /\ s.seq = q BY <1>0, <2>1 DEF Packet
    <2>3. over \in Nat
      <3>1. over = Most(0, q + 0 - r - a) BY <2>2 DEF over
      <3> HIDE DEF q, r, a, over
      <3> QED BY <3>1, <1>1 DEF Most
    <2>4. Most(0, Len(<<>>) - over) = 0 BY <2>3 DEF Most
    <2>5. e = Take(<<>>, 0) BY <2>2, <2>4
    <2>6. Take(<<>>, 0) = <<>> BY DEF Take
    <2> HIDE DEF e
    <2>7. f.data = <<>> /\ f.ctl = seg.ctl BY <1>0, <1>2, <2>1, <2>5, <2>6 DEF Packet
    <2>8. <<>> \in Seq(Byte) OBVIOUS
    <2>9. d = <<>> \/ q + l <= r
      <3>1. l = 0 \/ q + l <= r
        <4> HIDE DEF q, r, l, old
        <4> QED BY <1>1, <1>6, <1>8
      <3> QED BY <1>1, <3>1
    <2> QED BY <2>7, <2>8, <2>9 DEF Fits
  <1> QED BY <1>7, <1>8

\* What storing a segment leaves alone.
Untouched(x, y) ==
    /\ Keeps(x, y) /\ y.state = x.state /\ y.got = x.got
    /\ y.snd_una = x.snd_una /\ y.snd_nxt = x.snd_nxt /\ y.snd_wnd = x.snd_wnd
    /\ y.slist = x.slist /\ y.sbuf = x.sbuf /\ y.rto_set = x.rto_set /\ y.out = x.out
    /\ y.recover = x.recover /\ y.dup_acks = x.dup_acks /\ y.ack_set = x.ack_set
    /\ y.mss = x.mss /\ y.cwnd = x.cwnd /\ y.ssthresh = x.ssthresh
\* y: x with another receive buffer.
Stores(x, L, C, y) ==
    /\ OK(y, L, C) /\ Grows(x, y) /\ Untouched(x, y)
    /\ Len(x.readable) <= Len(y.readable)

LEMMA StoresTrans ==
    ASSUME NEW L, NEW C, NEW x \in Endpoint, NEW y, NEW z, Stores(x, L, C, y), Stores(y, L, C, z)
    PROVE  Stores(x, L, C, z)
  <1>1. y \in Endpoint /\ z \in Endpoint BY DEF Stores, OK
  <1>2. Grows(x, z) BY <1>1, GrowsTrans DEF Stores
  <1>3. Untouched(x, z) BY DEF Stores, Untouched, Keeps
  <1>4. Len(x.readable) <= Len(z.readable)
    <2> DEFINE a == Len(x.readable)
               b == Len(y.readable)
               c == Len(z.readable)
    <2>1. x.readable \in Seq(Byte) /\ y.readable \in Seq(Byte) /\ z.readable \in Seq(Byte)
      BY <1>1, Fields
    <2>2. a \in Nat /\ b \in Nat /\ c \in Nat BY <2>1
    <2>3. a <= b /\ b <= c BY DEF Stores
    <2>4. a <= c
      <3> HIDE DEF a, b, c
      <3> QED BY <2>2, <2>3
    <2> QED BY <2>4
  <1> QED BY <1>2, <1>3, <1>4 DEF Stores

LEMMA InboxOK ==
    ASSUME NEW L, NEW C, NEW x, OK(x, L, C), NEW y \in Endpoint, Untouched(x, y),
           Received(y, C), x.rcv_nxt <= y.rcv_nxt, Edge(x) <= Edge(y)
    PROVE  OK(y, L, C) /\ Grows(x, y)
  <1>0. x \in Endpoint BY DEF OK
  <1>1. Total(y) = Total(x) /\ XCuts(y) = XCuts(x) BY DEF Untouched, Total, XCuts
  <1>2. Grows(x, y)
    <2>1. x.snd_una <= x.snd_una BY <1>0, Fields
    <2> QED BY <1>1, <2>1 DEF Grows, Untouched
  <1>3. Tiled(y) BY <1>1 DEF OK, Tiled, Untouched
  <1>4. Timed(y) BY DEF OK, Timed, Untouched
  <1>5. Limited(y, L) BY DEF OK, Limited, Untouched
  <1>6. Counted(y) BY <1>1 DEF OK, Counted, Untouched, Keeps
  <1>7. Tuned(y) BY DEF OK, Tuned, Untouched, Keeps
  <1>8. Written(y, C)
    <2>1. Written(x, C) BY DEF OK
    <2>2. y.out = x.out BY DEF Untouched
    <2> QED BY <2>1, <2>2, <1>0, <1>2, WrittenKept
  <1> QED BY <1>2, <1>3, <1>4, <1>5, <1>6, <1>7, <1>8 DEF OK

\* The first n bytes of the receive buffer's memory have become readable.
Consumes(x, n, y) ==
    /\ y \in Endpoint /\ Untouched(x, y)
    /\ y.readable = x.readable \o Take(x.ahead, n) /\ y.ahead = Drop(x.ahead, n)
    /\ y.rcv_nxt = x.rcv_nxt + n /\ y.rcv_wnd = x.rcv_wnd - n /\ y.rlist = x.rlist

LEMMA ConsumedIs ==
    ASSUME NEW x \in Endpoint, NEW n \in Nat, n <= x.rcv_wnd, x.rcv_wnd <= Len(x.ahead)
    PROVE  /\ Consumes(x, n, Consumed(x, n))
           /\ Len(Consumed(x, n).readable) = Len(x.readable) + n
           /\ Len(Consumed(x, n).ahead) = Len(x.ahead) - n
  <1> DEFINE b == x.readable \o Take(x.ahead, n)
             a == Drop(x.ahead, n)
             r == x.rcv_nxt + n
             w == x.rcv_wnd - n
             v == [x EXCEPT !.readable = b, !.ahead = a]
             y == Consumed(x, n)
  <1>0. x.readable \in Seq(Byte) /\ x.ahead \in Seq(Byte) /\ x.rcv_nxt \in Nat /\ x.rcv_wnd \in Nat
    BY Fields
  <1>1. n \in 0 .. Len(x.ahead) /\ r \in Nat /\ w \in Nat
    <2> DEFINE p == Len(x.ahead)
               q == x.rcv_wnd
               t == x.rcv_nxt
    <2>1. p \in Nat /\ q \in Nat /\ n <= q /\ q <= p /\ t \in Nat BY <1>0
    <2>2. n \in 0 .. p /\ t + n \in Nat /\ q - n \in Nat
      <3> HIDE DEF p, q, t
      <3> QED BY <2>1
    <2> QED BY <2>2
  <1>2. Take(x.ahead, n) \in Seq(Byte) /\ Len(Take(x.ahead, n)) = n BY <1>0, <1>1, TakeIs
  <1>3. a \in Seq(Byte) /\ Len(a) = Len(x.ahead) - n BY <1>0, <1>1, DropIs
  <1>4. b \in Seq(Byte) /\ Len(b) = Len(x.readable) + n
    <2> DEFINE t == Take(x.ahead, n)
               f == x.readable
    <2>1. f \in Seq(Byte) /\ t \in Seq(Byte) /\ Len(t) = n BY <1>0, <1>2
    <2> SUFFICES f \o t \in Seq(Byte) /\ Len(f \o t) = Len(f) + n OBVIOUS
    <2> HIDE DEF t, f
    <2> QED BY <2>1, ConcatIs
  <1>5. y = [v EXCEPT !.rcv_nxt = r, !.rcv_wnd = w] BY DEF Consumed, ConsumeWriteBuffer, Endpoint
  <1> SUFFICES Consumes(x, n, y) /\ Len(y.readable) = Len(x.readable) + n
               /\ Len(y.ahead) = Len(x.ahead) - n
    OBVIOUS
  <1>6. r = x.rcv_nxt + n /\ w = x.rcv_wnd - n OBVIOUS
  <1>7. b = x.readable \o Take(x.ahead, n) /\ a = Drop(x.ahead, n) OBVIOUS
  <1> HIDE DEF a, b, r, w, y
  <1>8. v \in Endpoint BY <1>3, <1>4, Zenon DEF Endpoint
  <1>9. v.readable = b /\ v.ahead = a /\ v.rlist = x.rlist BY DEF Endpoint
  <1>10. Untouched(x, v) BY DEF Endpoint, Untouched, Keeps
  <1> HIDE DEF v
  <1>11. y \in Endpoint
    <2>1. [v EXCEPT !.rcv_nxt = r, !.rcv_wnd = w] \in Endpoint BY <1>8, <1>1, Zenon DEF Endpoint
    <2> QED BY <2>1, <1>5
  <1>12. y.readable = b /\ y.ahead = a /\ y.rlist = x.rlist /\ y.rcv_nxt = r /\ y.rcv_wnd = w
    BY <1>5, <1>8, <1>9 DEF Endpoint
  <1>13. Untouched(v, y) BY <1>5, <1>8 DEF Endpoint, Untouched, Keeps
  <1>14. Untouched(x, y) BY <1>10, <1>13 DEF Untouched, Keeps
  <1> QED BY <1>3, <1>4, <1>6, <1>7, <1>11, <1>12, <1>14 DEF Consumes

LEMMA ConsumedOK ==
    ASSUME NEW L, NEW C, NEW x, OK(x, L, C), NEW n \in Nat, n <= x.rcv_wnd, x.rcv_nxt + n \in C
    PROVE  /\ Stores(x, L, C, Consumed(x, n)) /\ Consumes(x, n, Consumed(x, n))
           /\ Len(Consumed(x, n).readable) = Len(x.readable) + n
  <1> DEFINE y == Consumed(x, n)
  <1>0. x \in Endpoint /\ x.rcv_wnd <= Len(x.ahead) BY DEF OK, Received
  <1>1. /\ Consumes(x, n, y) /\ Len(y.readable) = Len(x.readable) + n
        /\ Len(y.ahead) = Len(x.ahead) - n
    BY <1>0, ConsumedIs
  <1> SUFFICES Stores(x, L, C, y) BY <1>1
  <1> HIDE DEF y
  <1>2. /\ y \in Endpoint /\ Untouched(x, y) /\ y.rlist = x.rlist
        /\ y.rcv_nxt = x.rcv_nxt + n /\ y.rcv_wnd = x.rcv_wnd - n
    BY <1>1 DEF Consumes
  <1> DEFINE r == x.rcv_nxt
             w == x.rcv_wnd
             p == Len(x.readable)
             q == Len(x.ahead)
             p2 == Len(y.readable)
             q2 == Len(y.ahead)
  <1>3. r \in Nat /\ w \in Nat /\ p \in Nat /\ q \in Nat /\ n <= w /\ w <= q
        /\ p + q = RcvBuf /\ RcvBuf <= r + w /\ RcvBuf \in Nat
    <2>1. r \in Nat /\ w \in Nat /\ x.readable \in Seq(Byte) /\ x.ahead \in Seq(Byte)
      BY <1>0, Fields
    <2>2. p \in Nat /\ q \in Nat BY <2>1
    <2>3. w <= q /\ p + q = RcvBuf /\ RcvBuf <= r + w BY DEF OK, Received, Edge
    <2>4. RcvBuf \in Nat BY SizesAre
    <2> QED BY <2>1, <2>2, <2>3, <2>4
  <1>4. p2 = p + n /\ q2 = q - n BY <1>1
  <1>5. /\ p2 + q2 = RcvBuf /\ w - n <= q2 /\ (r + n) + (w - n) = r + w
        /\ r <= r + n /\ r + w <= r + w /\ p <= p2
    <2> HIDE DEF r, w, p, q, p2, q2
    <2> QED BY <1>3, <1>4
  <1>6. Edge(y) = Edge(x) /\ Edge(x) <= Edge(y) /\ x.rcv_nxt <= y.rcv_nxt
        /\ Len(x.readable) <= Len(y.readable)
    BY <1>2, <1>5 DEF Edge
  <1>7. Received(y, C)
    <2>1. Len(y.readable) + Len(y.ahead) = RcvBuf /\ y.rcv_wnd <= Len(y.ahead) BY <1>2, <1>5
    <2>2. RcvBuf <= Edge(y) /\ \A c \in C : c <= Edge(y) BY <1>6 DEF OK, Received
    <2>3. y.rcv_nxt \in C BY <1>2
    <2>4. \A i \in 1 .. Len(y.rlist) : y.rlist[i].seq + y.rlist[i].len \in C
      BY <1>2 DEF OK, Received
    <2> QED BY <2>1, <2>2, <2>3, <2>4 DEF Received
  <1>8. OK(y, L, C) /\ Grows(x, y) BY <1>2, <1>6, <1>7, InboxOK
  <1> QED BY <1>2, <1>6, <1>8 DEF Stores

\* What can be read is what has been received, behind the connect message ...
InStep(x) ==
    \/ x.rcv_nxt = CtlLen + Arrived(x)
    \/ x.rcv_nxt < CtlLen /\ Arrived(x) = 0 /\ x.rlist = <<>>
\* ... and what has been saved ahead of it lies where it belongs.
InPlace(x) ==
    \A k \in 1 .. Len(x.rlist) : \A s \in Nat :
        x.rlist[k].seq <= s /\ s < x.rlist[k].seq + x.rlist[k].len /\ x.rcv_nxt <= s
        => x.ahead[s - x.rcv_nxt + 1] = Content(s)
Clean(x) ==
    /\ x.shutdown = "NONE" => InStep(x) /\ InPlace(x)
    /\ Arrived(x) = 0 \/ CtlLen + Arrived(x) <= x.rcv_nxt
    /\ \A i \in 1 .. Len(x.readable) : x.readable[i] = x.got + i
\* The right number of bytes has become readable, whichever bytes they are.
Level(x) ==
    /\ x.shutdown = "NONE" =>
         x.rcv_nxt = CtlLen + Arrived(x) \/ (x.rcv_nxt < CtlLen /\ Arrived(x) = 0)
    /\ Arrived(x) = 0 \/ CtlLen + Arrived(x) <= x.rcv_nxt
Fares(x, y) == (Clean(x) => Clean(y)) /\ (Level(x) => Level(y))
\* As many bytes have been received as have become readable.
Advances(x, y) == y.rcv_nxt + Arrived(x) = x.rcv_nxt + Arrived(y)

LEMMA CleanLevel ==
    ASSUME NEW x, Clean(x)
    PROVE  Level(x)
  BY DEF Clean, InStep, Level

LEMMA ArrivedIs ==
    ASSUME NEW x \in Endpoint
    PROVE  Arrived(x) \in Nat /\ x.rcv_nxt \in Nat /\ Arrived(x) = x.got + Len(x.readable)
  <1> DEFINE g == x.got
             p == Len(x.readable)
  <1>1. g \in Nat /\ p \in Nat /\ x.rcv_nxt \in Nat BY Fields
  <1>2. g + p \in Nat
    <2> HIDE DEF g, p
    <2> QED BY <1>1
  <1> QED BY <1>1, <1>2 DEF Arrived

LEMMA AdvancesTrans ==
    ASSUME NEW x \in Endpoint, NEW y \in Endpoint, NEW z \in Endpoint,
           Advances(x, y), Advances(y, z)
    PROVE  Advances(x, z)
  <1> DEFINE a == Arrived(x)
             b == Arrived(y)
             c == Arrived(z)
             q == x.rcv_nxt
             r == y.rcv_nxt
             t == z.rcv_nxt
  <1>1. a \in Nat /\ b \in Nat /\ c \in Nat /\ q \in Nat /\ r \in Nat /\ t \in Nat
    BY ArrivedIs
  <1>2. r + a = q + b /\ t + b = r + c BY DEF Advances
  <1>3. t + a = q + c
    <2> HIDE DEF a, b, c, q, r, t
    <2> QED BY <1>1, <1>2
  <1> QED BY <1>3 DEF Advances

LEMMA AdvancesLevel ==
    ASSUME NEW x \in Endpoint, NEW y \in Endpoint, Advances(x, y), Level(x),
           CtlLen <= x.rcv_nxt, x.shutdown = "NONE"
    PROVE  Level(y)
  <1> DEFINE a == Arrived(x)
             b == Arrived(y)
             q == x.rcv_nxt
             r == y.rcv_nxt
  <1>1. a \in Nat /\ b \in Nat /\ q \in Nat /\ r \in Nat BY ArrivedIs
  <1>2. r + a = q + b /\ CtlLen <= q BY DEF Advances
  <1>3. q = CtlLen + a \/ q < CtlLen BY DEF Level
  <1>4. CtlLen \in Nat BY SizesAre
  <1>5. r = CtlLen + b /\ CtlLen + b <= r
    <2> HIDE DEF a, b, q, r
    <2> QED BY <1>1, <1>2, <1>3, <1>4
  <1> QED BY <1>5 DEF Level

LEMMA RSegFields ==
    ASSUME NEW s \in Seq(RSegment), NEW k \in 1 .. Len(s)
    PROVE  s[k] \in RSegment /\ s[k].seq \in Nat /\ s[k].len \in Nat
  <1>1. s[k] \in RSegment OBVIOUS
  <1>2. \A g \in RSegment : g.seq \in Nat /\ g.len \in Nat BY DEF RSegment
  <1> QED BY <1>1, <1>2

\* The numbers of a receive buffer.
LEMMA InboxNumbers ==
    ASSUME NEW L, NEW C, NEW x, OK(x, L, C)
    PROVE  /\ x \in Endpoint /\ x.rcv_nxt \in Nat /\ x.rcv_wnd \in Nat /\ x.got \in Nat
           /\ x.readable \in Seq(Byte) /\ x.ahead \in Seq(Byte) /\ x.rlist \in Seq(RSegment)
           /\ Len(x.readable) \in Nat /\ Len(x.ahead) \in Nat /\ Len(x.rlist) \in Nat
           /\ x.rcv_wnd <= Len(x.ahead)
           /\ \A c \in C : c <= x.rcv_nxt + x.rcv_wnd
  <1>1. x \in Endpoint BY DEF OK
  <1>2. /\ x.rcv_nxt \in Nat /\ x.rcv_wnd \in Nat /\ x.got \in Nat
        /\ x.readable \in Seq(Byte) /\ x.ahead \in Seq(Byte) /\ x.rlist \in Seq(RSegment)
    BY <1>1, Fields
  <1>3. Len(x.readable) \in Nat /\ Len(x.ahead) \in Nat /\ Len(x.rlist) \in Nat BY <1>2
  <1>4. x.rcv_wnd <= Len(x.ahead) /\ \A c \in C : c <= x.rcv_nxt + x.rcv_wnd
    BY DEF OK, Received, Edge
  <1> QED BY <1>1, <1>2, <1>3, <1>4

LEMMA ConsumesAdvances ==
    ASSUME NEW x \in Endpoint, NEW n \in Nat, NEW y, Consumes(x, n, y),
           Len(y.readable) = Len(x.readable) + n
    PROVE  Advances(x, y)
  <1> DEFINE g == x.got
             p == Len(x.readable)
             r == x.rcv_nxt
             u == y.rcv_nxt
             v == Len(y.readable)
  <1>1. g \in Nat /\ p \in Nat /\ r \in Nat BY Fields
  <1>2. u = r + n /\ v = p + n /\ y.got = g BY DEF Consumes, Untouched
  <1>3. u + (g + p) = r + (g + v)
    <2> HIDE DEF g, p, r, u, v
    <2> QED BY <1>1, <1>2
  <1> QED BY <1>2, <1>3 DEF Advances, Arrived

\* Bytes that are right become readable.
LEMMA CleanConsumed ==
    ASSUME NEW L, NEW C, NEW x, OK(x, L, C), NEW n \in Nat, n <= x.rcv_wnd,
           Clean(x), x.shutdown = "NONE", CtlLen <= x.rcv_nxt,
           Right(Take(x.ahead, n), x.rcv_nxt), NEW y, Consumes(x, n, y)
    PROVE  Clean(y)
  <1> DEFINE r == x.rcv_nxt
             w == x.rcv_wnd
             g == x.got
             b == x.readable
             a == x.ahead
             p == Len(x.readable)
             q == Len(x.ahead)
             t == Take(x.ahead, n)
             r2 == y.rcv_nxt
             p2 == Len(y.readable)
  <1>1. /\ r \in Nat /\ w \in Nat /\ g \in Nat /\ b \in Seq(Byte) /\ a \in Seq(Byte)
        /\ p \in Nat /\ q \in Nat /\ w <= q /\ x.rlist \in Seq(RSegment)
    BY InboxNumbers
  <1>2. /\ y.shutdown = x.shutdown /\ y.got = g /\ y.rlist = x.rlist
        /\ y.readable = b \o t /\ y.ahead = Drop(a, n) /\ r2 = r + n
    BY DEF Consumes, Untouched, Keeps
  <1>3. n \in 0 .. q
    <2> HIDE DEF w, q
    <2>1. n <= w BY DEF w
    <2> QED BY <1>1, <2>1
  <1>4. CtlLen \in Nat BY SizesAre
  <1>5. t \in Seq(Byte) /\ Len(t) = n BY <1>1, <1>3, TakeIs
  <1>6. /\ p2 = p + n /\ \A i \in 1 .. p : y.readable[i] = b[i]
        /\ \A i \in 1 .. n : y.readable[p + i] = t[i]
    <2>1. y.readable = b \o t BY <1>2
    <2> HIDE DEF b, t
    <2>2. p = Len(b) BY DEF b
    <2>3. p2 = Len(b \o t) BY <2>1
    <2>4. /\ Len(b \o t) = Len(b) + Len(t) /\ \A i \in 1 .. Len(b) : (b \o t)[i] = b[i]
          /\ \A i \in 1 .. Len(t) : (b \o t)[Len(b) + i] = t[i]
      <3>1. b \in Seq(Byte) BY <1>1
      <3>2. t \in Seq(Byte) BY <1>5
      <3> QED BY <3>1, <3>2
    <2> HIDE DEF p, p2
    <2> QED BY <1>5, <2>1, <2>2, <2>3, <2>4
  <1>7. r = CtlLen + (g + p)
    <2>1. InStep(x) BY DEF Clean
    <2>2. r = CtlLen + (g + p) \/ r < CtlLen BY <2>1 DEF InStep, Arrived
    <2>3. CtlLen <= r OBVIOUS
    <2> HIDE DEF r, g, p
    <2> QED BY <2>2, <2>3, <1>1, <1>4
  <1>8. InStep(y)
    <2>1. r2 = CtlLen + (g + p2)
      <3> HIDE DEF r, g, p, p2, r2
      <3> QED BY <1>1, <1>2, <1>4, <1>6, <1>7
    <2> QED BY <2>1, <1>2 DEF InStep, Arrived
  <1>9. CtlLen + Arrived(y) <= y.rcv_nxt
    <2>1. CtlLen + (g + p2) <= r2
      <3> HIDE DEF r, g, p, p2, r2
      <3> QED BY <1>1, <1>2, <1>4, <1>6, <1>7
    <2> QED BY <2>1, <1>2 DEF Arrived
  <1>10. ASSUME NEW i \in 1 .. p2 PROVE y.readable[i] = g + i
    <2>1. CASE i <= p
      <3>1. i \in 1 .. p
        <4> HIDE DEF p, p2
        <4> QED BY <1>1, <2>1, <1>6
      <3>2. b[i] = g + i BY <3>1 DEF Clean
      <3> QED BY <3>1, <3>2, <1>6
    <2>2. CASE ~(i <= p)
      <3> DEFINE j == i - p
      <3>1. j \in 1 .. n /\ p + j = i /\ (r + j - 1) - CtlLen + 1 = g + i
            /\ ~(r + j - 1 < CtlLen)
        <4> HIDE DEF p, p2, r, g
        <4> QED BY <1>1, <1>4, <1>6, <1>7, <2>2
      <3> HIDE DEF j
      <3>2. y.readable[i] = t[j]
        <4>1. y.readable[p + j] = t[j] BY <1>6, <3>1
        <4> QED BY <4>1, <3>1
      <3>3. t[j] = Content(r + j - 1) BY <1>5, <3>1 DEF Right
      <3>4. Content(r + j - 1) = (r + j - 1) - CtlLen + 1 BY <3>1 DEF Content
      <3> QED BY <3>1, <3>2, <3>3, <3>4
    <2> QED BY <2>1, <2>2
  <1>11. InPlace(y)
    <2> SUFFICES ASSUME NEW k \in 1 .. Len(x.rlist), NEW s \in Nat,
                        x.rlist[k].seq <= s, s < x.rlist[k].seq + x.rlist[k].len, r2 <= s
                 PROVE  y.ahead[s - r2 + 1] = Content(s)
      BY <1>2 DEF InPlace
    <2> DEFINE e == x.rlist[k].seq + x.rlist[k].len
               i == s - r2 + 1
    <2>1. e \in Nat
      <3>1. x.rlist[k].seq \in Nat /\ x.rlist[k].len \in Nat BY <1>1, RSegFields
      <3> QED BY <3>1
    <2>2. e <= r + w
      <3>1. e \in C BY DEF OK, Received
      <3> QED BY <3>1, InboxNumbers
    <2>3. /\ r <= s /\ i \in 1 .. q - n /\ n + i = s - r + 1
      <3>1. s < e OBVIOUS
      <3> HIDE DEF r, w, q, r2, e
      <3> QED BY <1>1, <1>2, <1>3, <2>1, <2>2, <3>1
    <2>4. x.ahead[s - r + 1] = Content(s) BY <2>3 DEF Clean, InPlace
    <2> HIDE DEF i
    <2>5. Drop(a, n)[i] = a[n + i]
      <3>1. \A l \in 1 .. Len(a) - n : Drop(a, n)[l] = a[n + l]
        <4> HIDE DEF a
        <4>1. n \in 0 .. Len(a) BY <1>3 DEF a
        <4> QED BY <1>1, <4>1, DropIs
      <3> QED BY <2>3, <3>1
    <2>6. y.ahead[i] = Content(s) BY <1>2, <2>3, <2>4, <2>5
    <2> QED BY <2>6 DEF i
  <1> QED BY <1>2, <1>8, <1>9, <1>10, <1>11 DEF Clean

\* Only the list of the saved segments differs.
Relists(x, l, y) ==
    /\ y \in Endpoint /\ Untouched(x, y) /\ y.rlist = l
    /\ y.rcv_nxt = x.rcv_nxt /\ y.rcv_wnd = x.rcv_wnd
    /\ y.readable = x.readable /\ y.ahead = x.ahead

LEMMA RlistIs ==
    ASSUME NEW x \in Endpoint, NEW l \in Seq(RSegment), NEW y, y = [x EXCEPT !.rlist = l]
    PROVE  Relists(x, l, y)
  <1>1. y \in Endpoint
    <2>1. [x EXCEPT !.rlist = l] \in Endpoint BY Zenon DEF Endpoint
    <2> QED BY <2>1
  <1>2. Untouched(x, y) BY DEF Endpoint, Untouched, Keeps
  <1>3. /\ y.rlist = l /\ y.rcv_nxt = x.rcv_nxt /\ y.rcv_wnd = x.rcv_wnd
        /\ y.readable = x.readable /\ y.ahead = x.ahead
    BY DEF Endpoint
  <1> QED BY <1>1, <1>2, <1>3 DEF Relists

LEMMA RlistOK ==
    ASSUME NEW L, NEW C, NEW x, OK(x, L, C), NEW l, NEW y, Relists(x, l, y),
           \A i \in 1 .. Len(l) : l[i].seq + l[i].len \in C
    PROVE  Stores(x, L, C, y)
  <1>0. x \in Endpoint /\ y \in Endpoint /\ Untouched(x, y) BY DEF OK, Relists
  <1>1. Edge(y) = Edge(x) BY DEF Relists, Edge
  <1>2. Received(y, C) BY <1>1 DEF OK, Received, Relists
  <1>3. x.rcv_nxt <= y.rcv_nxt /\ Edge(x) <= Edge(y)
    <2>1. x.rcv_nxt <= x.rcv_nxt BY <1>0, Fields
    <2>2. Edge(x) \in Nat BY <1>0, Fields DEF Edge
    <2> QED BY <2>1, <2>2, <1>1 DEF Relists
  <1>4. OK(y, L, C) /\ Grows(x, y) BY <1>0, <1>2, <1>3, InboxOK
  <1>5. Len(x.readable) <= Len(y.readable)
    <2>1. Len(x.readable) \in Nat BY InboxNumbers
    <2> QED BY <2>1 DEF Relists
  <1> QED BY <1>0, <1>4, <1>5 DEF Stores

\* One turn of the loop over the saved segments.
Recovers(y) ==
    IF y.rlist = <<>> \/ y.rlist[1].seq > y.rcv_nxt THEN y
    ELSE LET end == y.rlist[1].seq + y.rlist[1].len
         IN [Consumed(y, Most(0, end - y.rcv_nxt)) EXCEPT !.rlist = Tail(@)]

LEMMA StoresSame ==
    ASSUME NEW L, NEW C, NEW x, OK(x, L, C)
    PROVE  Stores(x, L, C, x)
  <1>1. x \in Endpoint BY DEF OK
  <1>2. Grows(x, x) BY <1>1, GrowsSame
  <1>3. Len(x.readable) <= Len(x.readable)
    <2>1. Len(x.readable) \in Nat BY InboxNumbers
    <2> QED BY <2>1
  <1> QED BY <1>2, <1>3 DEF Stores, Untouched, Keeps

LEMMA RecoversOK ==
    ASSUME NEW L, NEW C, NEW x, OK(x, L, C)
    PROVE  /\ Stores(x, L, C, Recovers(x))
           /\ Clean(x) /\ x.shutdown = "NONE" => Clean(Recovers(x))
           /\ Advances(x, Recovers(x))
  <1>1. CASE x.rlist = <<>> \/ x.rlist[1].seq > x.rcv_nxt
    <2>1. Recovers(x) = x BY <1>1 DEF Recovers
    <2>2. Stores(x, L, C, x) /\ Advances(x, x) BY StoresSame DEF Advances
    <2> QED BY <2>1, <2>2
  <1>2. CASE ~(x.rlist = <<>> \/ x.rlist[1].seq > x.rcv_nxt)
    <2> DEFINE r == x.rcv_nxt
               w == x.rcv_wnd
               s1 == x.rlist[1].seq
               l1 == x.rlist[1].len
               e == s1 + l1
               n == Most(0, e - r)
               z == Consumed(x, n)
               t == Tail(x.rlist)
               y == Recovers(x)
    <2>0. /\ x \in Endpoint /\ r \in Nat /\ w \in Nat /\ x.rlist \in Seq(RSegment)
          /\ Len(x.rlist) \in Nat /\ x.ahead \in Seq(Byte) /\ Len(x.ahead) \in Nat
          /\ w <= Len(x.ahead) /\ \A c \in C : c <= r + w
      BY InboxNumbers
    <2>1. 1 \in 1 .. Len(x.rlist) BY <1>2, <2>0
    <2>2. s1 \in Nat /\ l1 \in Nat BY <2>0, <2>1, RSegFields
    <2>3. e \in C /\ r \in C BY <2>1 DEF OK, Received
    <2>4. e <= r + w BY <2>0, <2>3
    <2>5. ~(s1 > r) BY <1>2
    <2>6. n \in Nat /\ n <= w /\ (r + n = e \/ r + n = r) /\ (n # 0 => r + n = e)
      <3>1. e \in Nat
        <4> HIDE DEF s1, l1
        <4> QED BY <2>2
      <3> HIDE DEF e, r, w
      <3> QED BY <3>1, <2>0, <2>4 DEF Most
    <2>7. r + n \in C
      <3> HIDE DEF n, e, r
      <3>1. CASE r + n = e BY <2>3, <3>1
      <3>2. CASE r + n = r BY <2>3, <3>2
      <3> QED BY <2>6, <3>1, <3>2
    <2>8. Stores(x, L, C, z) /\ Consumes(x, n, z) /\ Len(z.readable) = Len(x.readable) + n
      <3> HIDE DEF n
      <3>1. n <= x.rcv_wnd /\ x.rcv_nxt + n \in C BY <2>6, <2>7
      <3> QED BY <2>6, <3>1, ConsumedOK
    <2>9. z.rlist = x.rlist /\ z \in Endpoint BY <2>8 DEF Consumes
    <2>10. y = [z EXCEPT !.rlist = Tail(z.rlist)] BY <1>2 DEF Recovers
    <2>11. t \in Seq(RSegment) /\ Len(t) = Len(x.rlist) - 1
           /\ \A i \in 1 .. Len(t) : t[i] = x.rlist[i + 1] /\ i + 1 \in 1 .. Len(x.rlist)
      BY <2>0, <2>1
    <2> HIDE DEF z, y, t, n
    <2>12. Relists(z, t, y)
      <3>1. y = [z EXCEPT !.rlist = t] BY <2>9, <2>10 DEF t
      <3> QED BY <2>9, <2>11, <3>1, RlistIs
    <2>13. Stores(z, L, C, y)
      <3>1. \A i \in 1 .. Len(t) : t[i].seq + t[i].len \in C BY <2>11 DEF OK, Received
      <3>2. OK(z, L, C) BY <2>8 DEF Stores
      <3> QED BY <2>12, <3>1, <3>2, RlistOK
    <2>14. Stores(x, L, C, y) BY <2>0, <2>8, <2>13, StoresTrans
    <2>16. Advances(x, y)
      <3>1. Advances(x, z) BY <2>0, <2>6, <2>8, ConsumesAdvances
      <3>2. Arrived(y) = Arrived(z) /\ y.rcv_nxt = z.rcv_nxt
        BY <2>12 DEF Relists, Arrived, Untouched
      <3> QED BY <3>1, <3>2 DEF Advances
    <2>15. ASSUME Clean(x), x.shutdown = "NONE" PROVE Clean(y)
      <3>1. CtlLen <= r
        <4>1. InStep(x) BY <2>15 DEF Clean
        <4>2. r = CtlLen + Arrived(x) BY <1>2, <4>1 DEF InStep
        <4>3. Arrived(x) \in Nat
          <5> DEFINE g == x.got
                     p == Len(x.readable)
          <5>1. g \in Nat /\ p \in Nat BY InboxNumbers
          <5>2. g + p \in Nat
            <6> HIDE DEF g, p
            <6> QED BY <5>1
          <5> QED BY <5>2 DEF Arrived
        <4> HIDE DEF r
        <4> QED BY <4>2, <4>3, SizesAre
      <3>2. Right(Take(x.ahead, n), r)
        <4> DEFINE d == Take(x.ahead, n)
        <4>1. n \in 0 .. Len(x.ahead)
          <5> DEFINE q == Len(x.ahead)
          <5> HIDE DEF q, w
          <5> QED BY <2>0, <2>6 DEF q
        <4>2. Len(d) = n /\ \A i \in 1 .. n : d[i] = x.ahead[i] BY <2>0, <4>1, TakeIs
        <4> HIDE DEF d
        <4> SUFFICES ASSUME NEW i \in 1 .. Len(d) PROVE d[i] = Content(r + i - 1) BY DEF Right, d
        <4> DEFINE s == r + i - 1
        <4>3. i \in 1 .. n BY <4>2
        <4>4. s \in Nat /\ s1 <= s /\ s < s1 + l1 /\ r <= s /\ s - r + 1 = i
          <5>1. e \in Nat /\ r + n = e
            <6> HIDE DEF s1, l1, e
            <6>1. n # 0 BY <4>3, <2>6
            <6>2. e \in Nat BY <2>2 DEF e
            <6> QED BY <2>6, <6>1, <6>2
          <5>2. e = s1 + l1 OBVIOUS
          <5> HIDE DEF s1, l1, r, e
          <5> QED BY <2>0, <2>2, <2>5, <2>6, <4>3, <5>1, <5>2
        <4> HIDE DEF s
        <4>5. x.ahead[s - r + 1] = Content(s) BY <2>1, <2>15, <4>4 DEF Clean, InPlace
        <4> QED BY <4>2, <4>3, <4>4, <4>5 DEF s
      <3>3. Clean(z)
        <4>1. n <= x.rcv_wnd BY <2>6
        <4> QED BY <2>6, <2>8, <2>15, <3>1, <3>2, <4>1, CleanConsumed
      <3>4. z.shutdown = "NONE" BY <2>8, <2>15 DEF Consumes, Untouched, Keeps
      <3>5. z.rlist # <<>> BY <1>2, <2>9
      <3>6. z.rcv_nxt = CtlLen + Arrived(z) /\ InPlace(z) BY <3>3, <3>4, <3>5 DEF Clean, InStep
      <3>7. Arrived(y) = Arrived(z) /\ y.rcv_nxt = z.rcv_nxt /\ y.ahead = z.ahead
            /\ y.rlist = t /\ y.got = z.got /\ y.readable = z.readable
        BY <2>12 DEF Relists, Arrived, Untouched
      <3>8. InStep(y) BY <3>6, <3>7 DEF InStep
      <3>9. InPlace(y)
        <4> SUFFICES ASSUME NEW k \in 1 .. Len(t), NEW s \in Nat,
                            t[k].seq <= s, s < t[k].seq + t[k].len, z.rcv_nxt <= s
                     PROVE  z.ahead[s - z.rcv_nxt + 1] = Content(s)
          BY <3>7 DEF InPlace
        <4>1. t[k] = z.rlist[k + 1] /\ k + 1 \in 1 .. Len(z.rlist) BY <2>9, <2>11
        <4> QED BY <3>6, <4>1 DEF InPlace
      <3> QED BY <3>3, <3>7, <3>8, <3>9 DEF Clean
    <2> QED BY <2>14, <2>15, <2>16 DEF y
  <1> QED BY <1>1, <1>2

LEMMA RecoveredOK ==
    ASSUME NEW L, NEW C, NEW x, OK(x, L, C)
    PROVE  /\ Stores(x, L, C, Recovered(x))
           /\ Clean(x) /\ x.shutdown = "NONE" => Clean(Recovered(x))
           /\ Advances(x, Recovered(x))
  <1> DEFINE N == Len(x.rlist)
             E(f) == [k \in 0 .. N |-> IF k = 0 THEN x ELSE Recovers(f[k - 1])]
             turn == CHOOSE f : f = E(f)
             K == {y \in Endpoint : /\ Stores(x, L, C, y)
                                    /\ Clean(x) /\ x.shutdown = "NONE" => Clean(y)
                                    /\ Advances(x, y)}
             F == [y \in K |-> Recovers(y)]
  <1>0. x \in Endpoint /\ N \in Nat /\ N \in 0 .. N
    <2>1. N \in Nat /\ x \in Endpoint BY InboxNumbers
    <2> HIDE DEF N
    <2> QED BY <2>1
  <1>1. Recovered(x) = turn[N] BY Zenon DEF Recovered, Recovers
  <1>3. x \in K
    <2>1. Advances(x, x) BY DEF Advances
    <2> QED BY <1>0, <2>1, StoresSame
  <1>4. ASSUME NEW y \in K PROVE Recovers(y) \in K
    <2> DEFINE z == Recovers(y)
    <2>1. /\ Stores(x, L, C, y) /\ (Clean(x) /\ x.shutdown = "NONE" => Clean(y))
          /\ Advances(x, y) /\ y \in Endpoint
      OBVIOUS
    <2>2. OK(y, L, C) /\ y.shutdown = x.shutdown BY <2>1 DEF Stores, Untouched, Keeps
    <2>3. /\ Stores(y, L, C, z) /\ (Clean(y) /\ y.shutdown = "NONE" => Clean(z))
          /\ Advances(y, z)
      BY <2>2, RecoversOK
    <2> HIDE DEF z
    <2>4. Stores(x, L, C, z) BY <1>0, <2>1, <2>3, StoresTrans
    <2>5. z \in Endpoint BY <2>4 DEF Stores, OK
    <2>6. Advances(x, z) BY <1>0, <2>1, <2>3, <2>5, AdvancesTrans
    <2> QED BY <2>1, <2>2, <2>3, <2>4, <2>5, <2>6 DEF z
  <1> HIDE DEF K, N
  <1>5. F \in [K -> K] BY <1>4
  <1>6. \E g : g = E(g)
    <2>1. PICK g \in [0 .. N -> K] : g[0] = x /\ \A k \in 1 .. N : g[k] = F[g[k - 1]]
      <3>1. Stays(K, F) BY <1>5 DEF Stays
      <3> HIDE DEF F
      <3>2. Loops(K, x, F, N) BY <1>0, <1>3, <3>1, Iterates
      <3> QED BY <3>2 DEF Loops
    <2>2. ASSUME NEW k \in 0 .. N
          PROVE  g[k] = IF k = 0 THEN x ELSE Recovers(g[k - 1])
      <3>1. CASE k = 0 BY <2>1, <3>1
      <3>2. CASE k # 0
        <4>1. k \in 1 .. N /\ k - 1 \in 0 .. N BY <1>0, <3>2
        <4>2. g[k] = F[g[k - 1]] /\ g[k - 1] \in K BY <2>1, <4>1
        <4>3. F[g[k - 1]] = Recovers(g[k - 1]) BY <4>2
        <4> QED BY <3>2, <4>2, <4>3
      <3> QED BY <3>1, <3>2
    <2>3. g = [k \in 0 .. N |-> g[k]] OBVIOUS
    <2>4. g = E(g) BY <2>2, <2>3
    <2> QED BY <2>4
  <1>7. turn = E(turn)
    <2> HIDE DEF E
    <2> QED BY <1>6
  <1>8. \A k \in 0 .. N : turn[k] = IF k = 0 THEN x ELSE Recovers(turn[k - 1])
    <2> HIDE DEF turn
    <2> QED BY <1>7
  <1> HIDE DEF turn
  <1> DEFINE P == {k \in Nat : k <= N => turn[k] \in K}
  <1>9. 0 \in P BY <1>0, <1>3, <1>8
  <1>10. ASSUME NEW k \in Nat, k \in P PROVE k + 1 \in P
    <2> SUFFICES ASSUME k + 1 <= N PROVE turn[k + 1] \in K OBVIOUS
    <2>1. k + 1 \in 0 .. N /\ k <= N /\ k + 1 # 0 /\ (k + 1) - 1 = k BY <1>0
    <2>2. turn[k] \in K BY <1>10, <2>1
    <2>3. turn[k + 1] = Recovers(turn[k]) BY <1>8, <2>1
    <2> QED BY <1>4, <2>2, <2>3
  <1>11. Nat \subseteq P
    <2> HIDE DEF P
    <2> QED BY <1>9, <1>10, SetInduction
  <1>12. turn[N] \in K
    <2>1. N \in P /\ N <= N BY <1>0, <1>11
    <2> QED BY <2>1
  <1> QED BY <1>1, <1>12 DEF K

\* Bytes written into the memory behind what can be read.
LEMMA WriteOffsetIs ==
    ASSUME NEW s \in Seq(Byte), NEW d \in Seq(Byte), NEW o \in Nat
    PROVE  /\ WriteOffset(s, d, o) \in Seq(Byte) /\ Len(WriteOffset(s, d, o)) = Len(s)
           /\ \A i \in 1 .. Len(s) :
                 /\ i > o /\ i <= o + Len(d) => WriteOffset(s, d, o)[i] = d[i - o]
                 /\ ~(i > o /\ i <= o + Len(d)) => WriteOffset(s, d, o)[i] = s[i]
  <1> DEFINE n == Len(s)
             m == Len(d)
             V(i) == IF i \in o + 1 .. o + m THEN d[i - o] ELSE s[i]
             t == [i \in 1 .. n |-> V(i)]
  <1>1. n \in Nat /\ m \in Nat OBVIOUS
  <1>2. \A i \in 1 .. n : V(i) \in Byte
    <2> TAKE i \in 1 .. n
    <2>1. CASE i \in o + 1 .. o + m
      <3>1. i - o \in 1 .. m BY <2>1, <1>1
      <3> QED BY <2>1, <3>1
    <2>2. CASE i \notin o + 1 .. o + m BY <2>2
    <2> QED BY <2>1, <2>2
  <1>3. WriteOffset(s, d, o) = t BY DEF WriteOffset
  <1>4. \A i \in 1 .. n : i \in o + 1 .. o + m <=> i > o /\ i <= o + m BY <1>1
  <1>5. \A i \in 1 .. n : /\ i > o /\ i <= o + m => V(i) = d[i - o]
                          /\ ~(i > o /\ i <= o + m) => V(i) = s[i]
    BY <1>4
  <1> HIDE DEF V
  <1>6. t \in Seq(Byte) /\ Len(t) = n BY <1>1, <1>2
  <1>7. \A i \in 1 .. n : t[i] = V(i) OBVIOUS
  <1> QED BY <1>3, <1>5, <1>6, <1>7

LEMMA SavedIs ==
    ASSUME NEW l \in Seq(RSegment), NEW r \in RSegment
    PROVE  /\ Saved(l, r) \in Seq(RSegment)
           /\ \A j \in 1 .. Len(Saved(l, r)) :
                 Saved(l, r)[j] = r \/ \E i \in 1 .. Len(l) : Saved(l, r)[j] = l[i]
  <1> DEFINE S == {i \in 1 .. Len(l) : \A j \in 1 .. i : l[j].seq < r.seq}
             n == Cardinality(S)
             a == Take(l, n)
             b == <<r>>
             c == Drop(l, n)
             ab == a \o b
             t == ab \o c
  <1>1. Len(l) \in Nat OBVIOUS
  <1>2. n \in 0 .. Len(l)
    <2>1. IsFiniteSet(1 .. Len(l)) /\ Cardinality(1 .. Len(l)) = Len(l) BY <1>1, FS_Interval
    <2>2. S \subseteq 1 .. Len(l) OBVIOUS
    <2> HIDE DEF S
    <2>3. IsFiniteSet(S) /\ Cardinality(S) <= Cardinality(1 .. Len(l)) BY <2>1, <2>2, FS_Subset
    <2>4. Cardinality(S) \in Nat BY <2>3, FS_CardinalityType
    <2> QED BY <1>1, <2>1, <2>3, <2>4
  <1>3. Saved(l, r) = t BY DEF Saved
  <1> HIDE DEF n
  <1>4. a \in Seq(RSegment) /\ Len(a) = n /\ \A i \in 1 .. n : a[i] = l[i] BY <1>2, TakeIs
  <1>5. c \in Seq(RSegment) /\ Len(c) = Len(l) - n /\ \A i \in 1 .. Len(l) - n : c[i] = l[n + i]
    BY <1>2, DropIs
  <1>6. b \in Seq(RSegment) /\ Len(b) = 1 /\ b[1] = r OBVIOUS
  <1> HIDE DEF a, b, c
  <1>7. /\ ab \in Seq(RSegment) /\ Len(ab) = n + 1
        /\ \A i \in 1 .. n : ab[i] = a[i]
        /\ ab[n + 1] = r
    <2>1. /\ ab \in Seq(RSegment) /\ Len(ab) = Len(a) + Len(b)
          /\ \A i \in 1 .. Len(a) : ab[i] = a[i]
          /\ \A i \in 1 .. Len(b) : ab[Len(a) + i] = b[i]
      <3>1. a \in Seq(RSegment) BY <1>4
      <3>2. b \in Seq(RSegment) BY <1>6
      <3> QED BY <3>1, <3>2
    <2> HIDE DEF ab
    <2>2. ab[Len(a) + 1] = b[1] BY <2>1, <1>6
    <2> QED BY <2>1, <2>2, <1>2, <1>4, <1>6
  <1> HIDE DEF ab
  <1>8. /\ t \in Seq(RSegment) /\ Len(t) = Len(ab) + Len(c)
        /\ \A i \in 1 .. Len(ab) : t[i] = ab[i]
        /\ \A i \in 1 .. Len(c) : t[Len(ab) + i] = c[i]
    <2>1. ab \in Seq(RSegment) BY <1>7
    <2>2. c \in Seq(RSegment) BY <1>5
    <2> QED BY <2>1, <2>2
  <1> HIDE DEF t
  <1>9. ASSUME NEW j \in 1 .. Len(t) PROVE t[j] = r \/ \E i \in 1 .. Len(l) : t[j] = l[i]
    <2>1. CASE j <= n
      <3>1. j \in 1 .. n /\ j \in 1 .. Len(ab) /\ j \in 1 .. Len(l) BY <2>1, <1>2, <1>7, <1>1
      <3> QED BY <3>1, <1>4, <1>7, <1>8
    <2>2. CASE j = n + 1
      <3>1. j \in 1 .. Len(ab) BY <2>2, <1>2, <1>7
      <3> QED BY <3>1, <2>2, <1>7, <1>8
    <2>3. CASE j > n + 1
      <3> DEFINE k == j - (n + 1)
      <3>1. k \in 1 .. Len(l) - n /\ (n + 1) + k = j /\ n + k \in 1 .. Len(l)
        BY <2>3, <1>1, <1>2, <1>5, <1>7, <1>8
      <3> HIDE DEF k
      <3>2. t[j] = c[k] BY <3>1, <1>5, <1>7, <1>8
      <3>3. c[k] = l[n + k] BY <3>1, <1>5
      <3> QED BY <3>1, <3>2, <3>3
    <2>4. j \in Nat /\ n \in Nat BY <1>2, <1>8
    <2> QED BY <2>1, <2>2, <2>3, <2>4
  <1> QED BY <1>3, <1>8, <1>9

\* Only the memory behind what can be read differs.
Overwrites(x, a, y) ==
    /\ y \in Endpoint /\ Untouched(x, y) /\ y.ahead = a /\ y.rlist = x.rlist
    /\ y.rcv_nxt = x.rcv_nxt /\ y.rcv_wnd = x.rcv_wnd /\ y.readable = x.readable

LEMMA OverwriteOK ==
    ASSUME NEW L, NEW C, NEW x, OK(x, L, C), NEW a \in Seq(Byte), Len(a) = Len(x.ahead),
           NEW y, y = [x EXCEPT !.ahead = a]
    PROVE  Stores(x, L, C, y) /\ Overwrites(x, a, y)
  <1>0. x \in Endpoint BY DEF OK
  <1>1. y \in Endpoint
    <2>1. [x EXCEPT !.ahead = a] \in Endpoint BY <1>0, Zenon DEF Endpoint
    <2> QED BY <2>1
  <1>2. Untouched(x, y) BY <1>0 DEF Endpoint, Untouched, Keeps
  <1>3. /\ y.ahead = a /\ y.rlist = x.rlist /\ y.rcv_nxt = x.rcv_nxt
        /\ y.rcv_wnd = x.rcv_wnd /\ y.readable = x.readable
    BY <1>0 DEF Endpoint
  <1>4. Overwrites(x, a, y) BY <1>1, <1>2, <1>3 DEF Overwrites
  <1>5. Edge(y) = Edge(x) BY <1>3 DEF Edge
  <1>6. Received(y, C) BY <1>3, <1>5 DEF OK, Received
  <1>7. x.rcv_nxt <= y.rcv_nxt /\ Edge(x) <= Edge(y)
    <2>1. x.rcv_nxt <= x.rcv_nxt BY <1>0, Fields
    <2>2. Edge(x) \in Nat BY <1>0, Fields DEF Edge
    <2> QED BY <2>1, <2>2, <1>3, <1>5
  <1>8. OK(y, L, C) /\ Grows(x, y) BY <1>1, <1>2, <1>6, <1>7, InboxOK
  <1>9. Len(x.readable) <= Len(y.readable)
    <2>1. Len(x.readable) \in Nat BY InboxNumbers
    <2> QED BY <2>1, <1>3
  <1> QED BY <1>2, <1>4, <1>8, <1>9 DEF Stores

\* Bytes that are right leave what has been saved in its place.
LEMMA CleanOverwrite ==
    ASSUME NEW L, NEW C, NEW x, OK(x, L, C), Clean(x), NEW d \in Seq(Byte), NEW o \in Nat,
           Right(d, x.rcv_nxt + o), NEW y, Overwrites(x, WriteOffset(x.ahead, d, o), y)
    PROVE  Clean(y)
  <1> DEFINE r == x.rcv_nxt
             w == x.rcv_wnd
             q == Len(x.ahead)
             m == Len(d)
             a == WriteOffset(x.ahead, d, o)
  <1>1. /\ x \in Endpoint /\ r \in Nat /\ w \in Nat /\ x.ahead \in Seq(Byte) /\ q \in Nat
        /\ x.rlist \in Seq(RSegment) /\ w <= q /\ \A c \in C : c <= r + w
    BY InboxNumbers
  <1>2. /\ \A i \in 1 .. q :
             /\ i > o /\ i <= o + m => a[i] = d[i - o]
             /\ ~(i > o /\ i <= o + m) => a[i] = x.ahead[i]
    BY <1>1, WriteOffsetIs
  <1>3. /\ y.shutdown = x.shutdown /\ y.got = x.got /\ y.rlist = x.rlist /\ y.ahead = a
        /\ y.rcv_nxt = r /\ y.readable = x.readable /\ Arrived(y) = Arrived(x)
    BY DEF Overwrites, Untouched, Keeps, Arrived
  <1> HIDE DEF a
  <1>4. InStep(x) => InStep(y) BY <1>3 DEF InStep
  <1>5. ASSUME InPlace(x) PROVE InPlace(y)
    <2> SUFFICES ASSUME NEW k \in 1 .. Len(x.rlist), NEW s \in Nat,
                        x.rlist[k].seq <= s, s < x.rlist[k].seq + x.rlist[k].len, r <= s
                 PROVE  a[s - r + 1] = Content(s)
      BY <1>3 DEF InPlace
    <2> DEFINE e == x.rlist[k].seq + x.rlist[k].len
               i == s - r + 1
    <2>1. e \in Nat
      <3>1. x.rlist[k].seq \in Nat /\ x.rlist[k].len \in Nat BY <1>1, RSegFields
      <3> QED BY <3>1
    <2>2. e <= r + w
      <3>1. e \in C BY DEF OK, Received
      <3> QED BY <3>1, <1>1
    <2>3. i \in 1 .. q /\ m \in Nat
      <3>1. s < e /\ m \in Nat OBVIOUS
      <3> HIDE DEF r, w, q, e, m
      <3> QED BY <1>1, <2>1, <2>2, <3>1
    <2>4. x.ahead[i] = Content(s) BY <1>5 DEF InPlace
    <2>5. CASE i > o /\ i <= o + m
      <3> DEFINE j == i - o
      <3>1. j \in 1 .. m /\ (r + o) + j - 1 = s
        <4> HIDE DEF r, m, q
        <4> QED BY <1>1, <2>3, <2>5
      <3>2. a[i] = d[j] BY <1>2, <2>3, <2>5
      <3> HIDE DEF i, j
      <3>3. d[j] = Content((r + o) + j - 1) BY <3>1 DEF Right
      <3> QED BY <3>1, <3>2, <3>3 DEF i
    <2>6. CASE ~(i > o /\ i <= o + m)
      <3>1. a[i] = x.ahead[i] BY <1>2, <2>3, <2>6
      <3> QED BY <3>1, <2>4
    <2> QED BY <2>5, <2>6
  <1> QED BY <1>3, <1>4, <1>5 DEF Clean

\* Data of the stream comes after the connect message.
Ready(x, seg) == seg.data # <<>> /\ ~seg.ctl => CtlLen <= x.rcv_nxt
\* y: x with seg stored.
StoresSeg(x, L, C, seg, y) ==
    /\ Stores(x, L, C, y)
    /\ Clean(x) /\ Ready(x, seg) => Clean(y)
    /\ Level(x) => Level(y)
    /\ x.shutdown # "NONE" => y.readable = x.readable

Skips(x, n) == [x EXCEPT !.rcv_nxt = x.rcv_nxt + n]
SkipStores(x, L, C, n, y) ==
    /\ Stores(x, L, C, y) /\ y.readable = x.readable
    /\ Clean(x) /\ (x.shutdown # "NONE" \/ x.rcv_nxt + n <= CtlLen) => Clean(y)
    /\ Level(x) /\ (x.shutdown # "NONE" \/ x.rcv_nxt + n <= CtlLen) => Level(y)
\* Data that is acknowledged only: the connect message, or data after Close.
LEMMA SkippedOK ==
    ASSUME NEW L, NEW C, \A c \in C : c \in Nat, NEW x, OK(x, L, C),
           NEW n \in Nat, n > 0, x.rcv_nxt + n \in C,
           NEW y, y = Skips(x, n)
    PROVE  SkipStores(x, L, C, n, y)
  <1> DEFINE r == x.rcv_nxt
             w == x.rcv_wnd
             r2 == r + n
  <1>0. x \in Endpoint /\ r \in Nat /\ w \in Nat /\ Len(x.readable) \in Nat /\ x.got \in Nat
    BY InboxNumbers
  <1>1. y = [x EXCEPT !.rcv_nxt = r2] BY DEF Skips
  <1>2. r2 \in Nat /\ r <= r2
    <2> HIDE DEF r
    <2> QED BY <1>0
  <1>3. r2 \in C OBVIOUS
  <1> HIDE DEF r2
  <1>4. y \in Endpoint
    <2>1. [x EXCEPT !.rcv_nxt = r2] \in Endpoint BY <1>0, <1>2, Zenon DEF Endpoint
    <2> QED BY <2>1, <1>1
  <1>5. Untouched(x, y) BY <1>0, <1>1 DEF Endpoint, Untouched, Keeps
  <1>6. /\ y.rcv_nxt = r2 /\ y.rcv_wnd = w /\ y.rlist = x.rlist /\ y.readable = x.readable
        /\ y.ahead = x.ahead
    BY <1>0, <1>1 DEF Endpoint
  <1>7. Edge(x) <= Edge(y) /\ Edge(x) \in Nat /\ Edge(y) \in Nat
    <2>1. Edge(x) = r + w /\ Edge(y) = r2 + w BY <1>6 DEF Edge
    <2> HIDE DEF r, w
    <2> QED BY <2>1, <1>0, <1>2
  <1>8. Received(y, C)
    <2>1. RcvBuf <= Edge(y)
      <3>1. RcvBuf <= Edge(x) /\ RcvBuf \in Nat BY SizesAre DEF OK, Received
      <3> QED BY <3>1, <1>7
    <2>2. \A c \in C : c <= Edge(y)
      <3> TAKE c \in C
      <3>1. c <= Edge(x) BY DEF OK, Received
      <3>2. c \in Nat OBVIOUS
      <3> QED BY <3>1, <3>2, <1>7
    <2> QED BY <2>1, <2>2, <1>3, <1>6 DEF OK, Received
  <1>9. OK(y, L, C) /\ Grows(x, y)
    <2>1. x.rcv_nxt <= y.rcv_nxt BY <1>2, <1>6
    <2> QED BY <2>1, <1>4, <1>5, <1>7, <1>8, InboxOK
  <1>10. Stores(x, L, C, y)
    <2>1. Len(x.readable) <= Len(y.readable) BY <1>0, <1>6
    <2> QED BY <2>1, <1>5, <1>9 DEF Stores
  <1>11. ASSUME Clean(x), x.shutdown # "NONE" \/ r2 <= CtlLen PROVE Clean(y)
    <2>1. y.got = x.got /\ Arrived(y) = Arrived(x) /\ y.shutdown = x.shutdown
      BY <1>5, <1>6 DEF Untouched, Keeps, Arrived
    <2> DEFINE v == Arrived(x)
    <2>2. v \in Nat
      <3> DEFINE g == x.got
                 p == Len(x.readable)
      <3>1. g + p \in Nat
        <4> HIDE DEF g, p
        <4> QED BY <1>0 DEF g, p
      <3> QED BY <3>1 DEF Arrived
    <2>3. CtlLen \in Nat BY SizesAre
    <2>4. v = 0 \/ CtlLen + v <= r2
      <3>1. v = 0 \/ CtlLen + v <= r BY <1>11 DEF Clean
      <3> HIDE DEF v, r
      <3> QED BY <3>1, <2>2, <2>3, <1>0, <1>2
    <2>5. ASSUME x.shutdown = "NONE" PROVE InStep(y) /\ InPlace(y)
      <3>1. r2 <= CtlLen BY <1>11, <2>5
      <3>2. r < CtlLen
        <4>1. r2 = r + n BY DEF r2
        <4> HIDE DEF r
        <4> QED BY <3>1, <4>1, <1>0, <2>3
      <3>3. v = 0 /\ x.rlist = <<>>
        <4>1. InStep(x) BY <1>11, <2>5 DEF Clean
        <4>2. ~(r = CtlLen + v)
          <5> HIDE DEF r, v
          <5> QED BY <3>2, <1>0, <2>2, <2>3
        <4> QED BY <4>1, <4>2 DEF InStep
      <3>4. r2 = CtlLen + 0 \/ r2 < CtlLen BY <3>1, <1>2, <2>3
      <3>5. InStep(y) BY <1>6, <2>1, <3>3, <3>4 DEF InStep
      <3>6. InPlace(y) BY <1>6, <3>3 DEF InPlace
      <3> QED BY <3>5, <3>6
    <2> QED BY <1>6, <1>11, <2>1, <2>4, <2>5 DEF Clean
  <1>12. ASSUME Level(x), x.shutdown # "NONE" \/ r2 <= CtlLen PROVE Level(y)
    <2> DEFINE v == Arrived(x)
    <2>1. Arrived(y) = v /\ y.shutdown = x.shutdown /\ v \in Nat /\ CtlLen \in Nat
      BY <1>0, <1>5, <1>6, ArrivedIs, SizesAre DEF Untouched, Keeps, Arrived
    <2>2. v = 0 \/ CtlLen + v <= r BY <1>12 DEF Level
    <2>3. x.shutdown = "NONE" => r = CtlLen + v \/ (r < CtlLen /\ v = 0) BY <1>12 DEF Level
    <2>4. r2 = r + n BY DEF r2
    <2>5. v = 0 \/ CtlLen + v <= r2
      <3> HIDE DEF v, r
      <3> QED BY <2>1, <2>2, <1>0, <1>2
    <2>6. x.shutdown = "NONE" => r2 = CtlLen + v \/ (r2 < CtlLen /\ v = 0)
      <3> SUFFICES ASSUME x.shutdown = "NONE"
                   PROVE  r2 = CtlLen + v \/ (r2 < CtlLen /\ v = 0)
        OBVIOUS
      <3>1. r2 <= CtlLen /\ (r = CtlLen + v \/ (r < CtlLen /\ v = 0)) BY <1>12, <2>3
      <3> HIDE DEF v, r
      <3> QED BY <3>1, <2>1, <2>4, <1>0, <1>2
    <2> QED BY <2>1, <2>5, <2>6, <1>6 DEF Level
  <1> QED BY <1>6, <1>10, <1>11, <1>12 DEF r2, SkipStores

Places(q, s, m, h, o, i, j) ==
    i \in 1 .. h /\ i > o /\ i <= o + m /\ j \in 1 .. m /\ q + j - 1 = s
LEMMA PlaceIs ==
    ASSUME NEW q \in Nat, NEW s \in Nat, NEW m \in Nat, NEW r \in Nat, NEW w \in Nat,
           NEW h \in Nat, NEW o \in Nat, q <= s, s < q + m, r + o = q, q + m <= r + w, w <= h,
           NEW i, i = s - r + 1, NEW j, j = i - o
    PROVE  Places(q, s, m, h, o, i, j)
  <1>1. j = (s - r + 1) - o OBVIOUS
  <1> QED BY <1>1 DEF Places

Overwritten(x, d, q) == [x EXCEPT !.ahead = WriteOffset(x.ahead, d, q - x.rcv_nxt)]
Noted(y, d, q) == [y EXCEPT !.rlist = Saved(y.rlist, [seq |-> q, len |-> Len(d)])]
SaveStores(x, L, C, z) ==
    /\ Stores(x, L, C, z) /\ z.readable = x.readable
    /\ Clean(x) /\ CtlLen <= x.rcv_nxt => Clean(z)
    /\ Level(x) => Level(z)
\* A segment behind a gap is written into its place, and noted.
LEMMA SavedOK ==
    ASSUME NEW L, NEW C, NEW x, OK(x, L, C), NEW d \in Seq(Byte), NEW q \in Nat,
           x.rcv_nxt <= q, d # <<>>, q + Len(d) \in C, Right(d, q),
           NEW y, y = Overwritten(x, d, q), NEW z, z = Noted(y, d, q)
    PROVE  SaveStores(x, L, C, z)
  <1> DEFINE r == x.rcv_nxt
             w == x.rcv_wnd
             h == Len(x.ahead)
             m == Len(d)
             o == q - r
             a == WriteOffset(x.ahead, d, o)
             g == [seq |-> q, len |-> m]
             l == Saved(x.rlist, g)
  <1>0. /\ x \in Endpoint /\ r \in Nat /\ w \in Nat /\ x.ahead \in Seq(Byte) /\ h \in Nat
        /\ x.rlist \in Seq(RSegment) /\ w <= h /\ \A c \in C : c <= r + w
    BY InboxNumbers
  <1>1. m \in Nat /\ m > 0 OBVIOUS
  <1>2. o \in Nat /\ r + o = q
    <2>1. r <= q OBVIOUS
    <2> HIDE DEF r
    <2> QED BY <2>1, <1>0
  <1>3. q + m <= r + w
    <2>1. q + m \in C OBVIOUS
    <2> QED BY <2>1, <1>0
  <1>4. y = [x EXCEPT !.ahead = a] BY DEF Overwritten
  <1>5. /\ a \in Seq(Byte) /\ Len(a) = h
        /\ \A i \in 1 .. h : i > o /\ i <= o + m => a[i] = d[i - o]
    <2> DEFINE s == x.ahead
    <2>1. s \in Seq(Byte) /\ o \in Nat BY <1>0, <1>2
    <2> HIDE DEF o, s
    <2>2. /\ WriteOffset(s, d, o) \in Seq(Byte) /\ Len(WriteOffset(s, d, o)) = Len(s)
          /\ \A i \in 1 .. Len(s) :
                /\ i > o /\ i <= o + Len(d) => WriteOffset(s, d, o)[i] = d[i - o]
                /\ ~(i > o /\ i <= o + Len(d)) => WriteOffset(s, d, o)[i] = s[i]
      BY <2>1, WriteOffsetIs
    <2> QED BY <2>2 DEF s
  <1>6. g \in RSegment /\ g.seq = q /\ g.len = m
    <2> HIDE DEF m
    <2> QED BY <1>1 DEF RSegment
  <1> HIDE DEF g
  <1>7. /\ l \in Seq(RSegment)
        /\ \A j \in 1 .. Len(l) : l[j] = g \/ \E i \in 1 .. Len(x.rlist) : l[j] = x.rlist[i]
    BY <1>0, <1>6, SavedIs
  <1>8. Stores(x, L, C, y) /\ Overwrites(x, a, y)
    <2> HIDE DEF a
    <2> QED BY <1>4, <1>5, OverwriteOK
  <1>9. z = [y EXCEPT !.rlist = l]
    <2>1. y.rlist = x.rlist BY <1>8 DEF Overwrites
    <2> QED BY <2>1 DEF g, Noted
  <1>10. Right(d, r + o) BY <1>2
  <1>11. Clean(x) => Clean(y)
    <2> HIDE DEF o
    <2>1. Overwrites(x, WriteOffset(x.ahead, d, o), y) BY <1>8
    <2> QED BY <1>2, <1>10, <2>1, CleanOverwrite
  <1> HIDE DEF l, a, o, m
  <1>12. y \in Endpoint /\ OK(y, L, C) BY <1>8 DEF Stores, OK
  <1>13. Relists(y, l, z) BY <1>7, <1>9, <1>12, RlistIs
  <1>14. \A j \in 1 .. Len(l) : l[j].seq + l[j].len \in C
    <2> TAKE j \in 1 .. Len(l)
    <2>1. CASE l[j] = g
      <3>1. q + m \in C BY DEF m
      <3> QED BY <2>1, <3>1, <1>6
    <2>2. CASE \E i \in 1 .. Len(x.rlist) : l[j] = x.rlist[i] BY <2>2 DEF OK, Received
    <2> QED BY <1>7, <2>1, <2>2
  <1>15. Stores(y, L, C, z) BY <1>12, <1>13, <1>14, RlistOK
  <1>16. Stores(x, L, C, z) BY <1>0, <1>8, <1>15, StoresTrans
  <1>17. z.readable = x.readable BY <1>8, <1>13 DEF Overwrites, Relists
  <1>18. ASSUME Clean(x), CtlLen <= r PROVE Clean(z)
    <2>1. /\ z.rcv_nxt = r /\ z.ahead = a /\ z.rlist = l /\ z.got = y.got
          /\ z.readable = y.readable /\ Arrived(z) = Arrived(y) /\ z.shutdown = y.shutdown
          /\ y.rcv_nxt = r /\ y.ahead = a /\ y.rlist = x.rlist
      BY <1>8, <1>13 DEF Overwrites, Relists, Untouched, Keeps, Arrived
    <2>2. Clean(y) BY <1>11, <1>18
    <2>3. ASSUME z.shutdown = "NONE" PROVE InStep(z) /\ InPlace(z)
      <3>1. InStep(y) /\ InPlace(y) BY <2>1, <2>2, <2>3 DEF Clean
      <3>2. ~(r < CtlLen)
        <4> HIDE DEF r
        <4> QED BY <1>0, <1>18, SizesAre
      <3>3. InStep(z) BY <3>1, <3>2, <2>1 DEF InStep
      <3>4. InPlace(z)
        <4> SUFFICES ASSUME NEW k \in 1 .. Len(l), NEW s \in Nat,
                            l[k].seq <= s, s < l[k].seq + l[k].len, r <= s
                     PROVE  a[s - r + 1] = Content(s)
          BY <2>1 DEF InPlace
        <4>1. CASE l[k] = g
          <5> DEFINE i == s - r + 1
                     j == i - o
          <5>1. q <= s /\ s < q + m BY <4>1, <1>6
          <5>2. i \in 1 .. h /\ i > o /\ i <= o + m /\ j \in 1 .. m /\ q + j - 1 = s
            <6> HIDE DEF r, w, h
            <6>1. q <= s /\ s < q + m /\ r + o = q /\ q + m <= r + w /\ w <= h
              BY <5>1, <1>0, <1>2, <1>3
            <6>2. i = s - r + 1 /\ j = i - o OBVIOUS
            <6> HIDE DEF i, j
            <6>3. Places(q, s, m, h, o, i, j) BY <6>1, <6>2, <1>0, <1>1, <1>2, PlaceIs
            <6> QED BY <6>3 DEF Places
          <5> HIDE DEF i
          <5>3. a[i] = d[j] BY <1>5, <5>2
          <5> HIDE DEF j
          <5>4. d[j] = Content(q + j - 1) BY <5>2 DEF Right, m
          <5> QED BY <5>2, <5>3, <5>4 DEF i
        <4>2. CASE \E i \in 1 .. Len(x.rlist) : l[k] = x.rlist[i]
          <5>1. PICK i \in 1 .. Len(y.rlist) : l[k] = y.rlist[i] BY <4>2, <2>1
          <5> QED BY <5>1, <3>1, <2>1 DEF InPlace
        <4> QED BY <1>7, <4>1, <4>2
      <3> QED BY <3>3, <3>4
    <2> QED BY <2>1, <2>2, <2>3 DEF Clean
  <1>19. Level(x) => Level(z)
    <2>1. /\ z.rcv_nxt = x.rcv_nxt /\ Arrived(z) = Arrived(x) /\ z.shutdown = x.shutdown
      BY <1>8, <1>13 DEF Overwrites, Relists, Untouched, Keeps, Arrived
    <2> QED BY <2>1 DEF Level
  <1> QED BY <1>16, <1>17, <1>18, <1>19 DEF SaveStores

\* A segment that comes next becomes readable, with the saved ones behind it.
LEMMA NextOK ==
    ASSUME NEW L, NEW C, NEW x, OK(x, L, C), NEW d \in Seq(Byte), d # <<>>,
           x.rcv_nxt + Len(d) \in C, Right(d, x.rcv_nxt), x.shutdown = "NONE",
           NEW y, y = [x EXCEPT !.ahead = WriteOffset(x.ahead, d, 0)]
    PROVE  /\ Stores(x, L, C, Recovered(Consumed(y, Len(d))))
           /\ Clean(x) /\ CtlLen <= x.rcv_nxt => Clean(Recovered(Consumed(y, Len(d))))
           /\ Level(x) /\ CtlLen <= x.rcv_nxt => Level(Recovered(Consumed(y, Len(d))))
  <1> DEFINE r == x.rcv_nxt
             w == x.rcv_wnd
             h == Len(x.ahead)
             m == Len(d)
             a == WriteOffset(x.ahead, d, 0)
             z == Consumed(y, m)
             v == Recovered(z)
  <1>0. /\ x \in Endpoint /\ r \in Nat /\ w \in Nat /\ x.ahead \in Seq(Byte) /\ h \in Nat
        /\ w <= h /\ \A c \in C : c <= r + w
    BY InboxNumbers
  <1>1. m \in Nat /\ m > 0 OBVIOUS
  <1>3. r + m <= r + w /\ m <= w /\ m \in 0 .. h
    <2>1. r + m \in C OBVIOUS
    <2>2. r + m <= r + w BY <2>1, <1>0
    <2> HIDE DEF r, w, m, h
    <2> QED BY <2>2, <1>0, <1>1
  <1>4. y = [x EXCEPT !.ahead = a] OBVIOUS
  <1>5. /\ a \in Seq(Byte) /\ Len(a) = h
        /\ \A i \in 1 .. h : i > 0 /\ i <= 0 + m => a[i] = d[i - 0]
    <2> DEFINE s == x.ahead
               o == 0
    <2>1. s \in Seq(Byte) /\ o \in Nat BY <1>0
    <2> HIDE DEF o, s
    <2>2. /\ WriteOffset(s, d, o) \in Seq(Byte) /\ Len(WriteOffset(s, d, o)) = Len(s)
          /\ \A i \in 1 .. Len(s) :
                /\ i > o /\ i <= o + Len(d) => WriteOffset(s, d, o)[i] = d[i - o]
                /\ ~(i > o /\ i <= o + Len(d)) => WriteOffset(s, d, o)[i] = s[i]
      BY <2>1, WriteOffsetIs
    <2> QED BY <2>2 DEF s, o
  <1>8. Stores(x, L, C, y) /\ Overwrites(x, a, y)
    <2> HIDE DEF a
    <2> QED BY <1>4, <1>5, OverwriteOK
  <1>11. Clean(x) => Clean(y)
    <2> DEFINE o == 0
    <2>1. o \in Nat /\ r + o = r BY <1>0
    <2> HIDE DEF o
    <2>2. Overwrites(x, WriteOffset(x.ahead, d, o), y) BY <1>8 DEF o
    <2>3. Right(d, x.rcv_nxt + o) BY <2>1
    <2> QED BY <2>1, <2>2, <2>3, CleanOverwrite
  <1> HIDE DEF a
  <1>12. OK(y, L, C) /\ y.rcv_nxt = r /\ y.rcv_wnd = w /\ y.ahead = a /\ y.shutdown = "NONE"
    BY <1>8 DEF Stores, Overwrites, Untouched, Keeps
  <1>13. Stores(y, L, C, z) /\ Consumes(y, m, z) /\ Len(z.readable) = Len(y.readable) + m
    <2>1. m <= y.rcv_wnd /\ y.rcv_nxt + m \in C BY <1>3, <1>12
    <2>2. y \in Endpoint /\ y.rcv_wnd <= Len(y.ahead) BY <1>12 DEF OK, Received
    <2> HIDE DEF m
    <2>3. Stores(y, L, C, z) /\ Consumes(y, m, z) BY <1>1, <1>12, <2>1, ConsumedOK
    <2>4. Len(z.readable) = Len(y.readable) + m BY <1>1, <2>1, <2>2, ConsumedIs
    <2> QED BY <2>3, <2>4
  <1> SUFFICES /\ Stores(x, L, C, v) /\ (Clean(x) /\ CtlLen <= r => Clean(v))
               /\ Level(x) /\ CtlLen <= r => Level(v)
    OBVIOUS
  <1> HIDE DEF z
  <1>14. OK(z, L, C) /\ z.shutdown = "NONE"
    BY <1>12, <1>13 DEF Stores, Consumes, Untouched, Keeps
  <1>15. Stores(z, L, C, v) /\ (Clean(z) => Clean(v)) /\ Advances(z, v) BY <1>14, RecoveredOK
  <1> HIDE DEF v
  <1>16. Stores(x, L, C, v)
    <2>1. y \in Endpoint BY <1>12 DEF OK
    <2>2. Stores(y, L, C, v) BY <2>1, <1>13, <1>15, StoresTrans
    <2> QED BY <2>2, <1>0, <1>8, StoresTrans
  <1>17. ASSUME Clean(x), CtlLen <= r PROVE Clean(v)
    <2>1. Right(Take(y.ahead, m), y.rcv_nxt)
      <3> DEFINE t == Take(a, m)
      <3>1. Len(t) = m /\ \A i \in 1 .. m : t[i] = a[i]
        <4> HIDE DEF m
        <4>1. m \in 0 .. Len(a) BY <1>3, <1>5
        <4> QED BY <4>1, <1>5, TakeIs
      <3> HIDE DEF t
      <3> SUFFICES ASSUME NEW i \in 1 .. Len(t) PROVE t[i] = Content(r + i - 1)
        BY <1>12 DEF Right, t
      <3>2. i \in 1 .. m /\ i \in 1 .. h /\ i > 0 /\ i <= 0 + m /\ i - 0 = i
        <4> HIDE DEF m, h
        <4> QED BY <1>0, <1>1, <1>3, <3>1
      <3>3. t[i] = d[i] BY <1>5, <3>1, <3>2
      <3> QED BY <3>2, <3>3 DEF Right
    <2>2. m <= y.rcv_wnd /\ CtlLen <= y.rcv_nxt BY <1>3, <1>12, <1>17
    <2>3. Clean(y) BY <1>11, <1>17
    <2>4. Clean(z)
      <3> HIDE DEF m
      <3> QED BY <1>1, <1>12, <1>13, <2>1, <2>2, <2>3, CleanConsumed
    <2> QED BY <2>4, <1>15
  <1>18. ASSUME Level(x), CtlLen <= r PROVE Level(v)
    <2>1. y \in Endpoint /\ z \in Endpoint /\ v \in Endpoint
      BY <1>12, <1>14, <1>16 DEF Stores, OK
    <2>2. Advances(x, y)
      <3>1. Arrived(y) = Arrived(x) /\ y.rcv_nxt = x.rcv_nxt
        BY <1>8 DEF Overwrites, Untouched, Arrived
      <3> QED BY <3>1 DEF Advances
    <2>3. Advances(y, z)
      <3> HIDE DEF m
      <3> QED BY <1>1, <1>13, <2>1, ConsumesAdvances
    <2>4. Advances(x, z) BY <1>0, <2>1, <2>2, <2>3, AdvancesTrans
    <2>5. Advances(x, v) BY <1>0, <1>15, <2>1, <2>4, AdvancesTrans
    <2> QED BY <1>0, <1>18, <2>1, <2>5, AdvancesLevel
  <1> QED BY <1>16, <1>17, <1>18

LEMMA StoreOK ==
    ASSUME NEW L, NEW C, \A c \in C : c \in Nat, NEW x, OK(x, L, C),
           NEW seg, DataOK(C, seg), NEW s, Fits(x, seg, s)
    PROVE  StoresSeg(x, L, C, seg, Store(x, s))
  <1> DEFINE n == Len(s.data)
             d == s.data
             q == s.seq
             r == x.rcv_nxt
             y == [x EXCEPT !.ahead = WriteOffset(@, d, q - r)]
             z == Store(x, s)
  <1>0. x \in Endpoint /\ r \in Nat BY InboxNumbers
  <1>1. d \in Seq(Byte) /\ n \in Nat BY DEF Fits
  <1>2. CASE d = <<>>
    <2>1. z = x BY <1>2 DEF Store
    <2>2. Stores(x, L, C, x) BY StoresSame
    <2> HIDE DEF z
    <2> QED BY <2>1, <2>2 DEF StoresSeg, z
  <1>3. CASE d # <<>>
    <2>0. n > 0 BY <1>1, <1>3
    <2>1. /\ seg.data # <<>> /\ q \in Nat /\ r <= q /\ seg.seq <= q
          /\ q + n = seg.seq + Len(seg.data) /\ Right(d, q)
      BY <1>3 DEF Fits
    <2>2. q + n \in C /\ seg.seq \in Nat /\ (seg.ctl <=> seg.seq < CtlLen)
          /\ (seg.ctl => q + n <= CtlLen)
      BY <2>1 DEF DataOK
    <2>3. s.ctl = seg.ctl /\ s.ctl \in BOOLEAN
      <3>1. s.ctl = seg.ctl BY DEF Fits
      <3>2. seg.ctl \in BOOLEAN BY PacketFields DEF DataOK
      <3> QED BY <3>1, <3>2
    <2>4. CASE s.ctl \/ x.shutdown # "NONE"
      <3>1. CASE q = r
        <4>1. z = Skips(x, n) BY <2>0, <2>4, <3>1 DEF Store, Skips
        <4>2. r + n \in C /\ (s.ctl => r + n <= CtlLen) BY <2>2, <2>3, <3>1
        <4> HIDE DEF z, n
        <4>3. SkipStores(x, L, C, n, z) BY <4>1, <4>2, <2>0, <1>1, SkippedOK
        <4> QED BY <4>2, <4>3, <2>4 DEF SkipStores, StoresSeg, z
      <3>2. CASE q # r
        <4>1. z = x BY <2>0, <2>4, <3>2 DEF Store
        <4>2. Stores(x, L, C, x) BY StoresSame
        <4> HIDE DEF z
        <4> QED BY <4>1, <4>2 DEF StoresSeg, z
      <3> QED BY <3>1, <3>2
    <2>5. CASE ~s.ctl /\ x.shutdown = "NONE"
      <3>0. seg.data # <<>> /\ ~seg.ctl /\ (Ready(x, seg) => CtlLen <= r)
        BY <2>1, <2>3, <2>5 DEF Ready
      <3>3. CtlLen <= q
        <4> DEFINE b == seg.seq
        <4>1. b \in Nat /\ q \in Nat /\ b <= q /\ ~(b < CtlLen) /\ CtlLen \in Nat
          BY <2>1, <2>2, <3>0, SizesAre
        <4> HIDE DEF b, q
        <4> QED BY <4>1
      <3>1. CASE q = r
        <4>1. z = Recovered(Consumed(y, n)) BY <2>0, <2>5, <3>1 DEF Store
        <4>2. y = [x EXCEPT !.ahead = WriteOffset(x.ahead, d, 0)]
          <5>1. q - r = 0 BY <1>0, <2>1, <3>1
          <5>2. y = [x EXCEPT !.ahead = WriteOffset(x.ahead, d, q - r)] OBVIOUS
          <5> QED BY <5>1, <5>2
        <4>3. r + n \in C /\ Right(d, r) BY <2>1, <2>2, <3>1
        <4> HIDE DEF z, y, d
        <4>4. /\ Stores(x, L, C, Recovered(Consumed(y, Len(d))))
              /\ Clean(x) /\ CtlLen <= x.rcv_nxt => Clean(Recovered(Consumed(y, Len(d))))
              /\ Level(x) /\ CtlLen <= x.rcv_nxt => Level(Recovered(Consumed(y, Len(d))))
          <5>1. d # <<>> /\ d \in Seq(Byte) /\ x.rcv_nxt + Len(d) \in C
                /\ Right(d, x.rcv_nxt) /\ x.shutdown = "NONE"
            BY <1>1, <1>3, <4>3, <2>5 DEF d
          <5> QED BY <4>2, <5>1, NextOK
        <4>5. n = Len(d) BY DEF d
        <4>6. CtlLen <= x.rcv_nxt BY <3>1, <3>3
        <4> QED BY <4>1, <4>4, <4>5, <4>6, <3>0, <2>5 DEF StoresSeg, z
      <3>2. CASE q # r
        <4> DEFINE v == [y EXCEPT !.rlist = Saved(y.rlist, [seq |-> q, len |-> Len(d)])]
        <4>1. z = v BY <2>0, <2>5, <3>2 DEF Store
        <4>2. y = Overwritten(x, d, q) BY DEF Overwritten
        <4>3. v = Noted(y, d, q) BY DEF Noted
        <4> HIDE DEF z, y, d, v, q
        <4>4. SaveStores(x, L, C, v)
          <5>1. d # <<>> /\ d \in Seq(Byte) /\ q + Len(d) \in C
                /\ Right(d, q) /\ q \in Nat /\ x.rcv_nxt <= q
            BY <1>1, <1>3, <2>1, <2>2 DEF d
          <5> QED BY <4>2, <4>3, <5>1, SavedOK
        <4> QED BY <4>1, <4>4, <3>0, <2>5 DEF SaveStores, StoresSeg, z
      <3> QED BY <3>1, <3>2
    <2> QED BY <2>3, <2>4, <2>5
  <1> QED BY <1>2, <1>3

\* Sending and the application's notifications leave the receive buffer alone.
LEMMA CleanSame ==
    ASSUME NEW x, NEW y, SameInbox(x, y), y.shutdown = x.shutdown
    PROVE  Fares(x, y)
  <1>1. Arrived(y) = Arrived(x) BY DEF SameInbox, Arrived
  <1>2. Clean(x) => Clean(y) BY <1>1 DEF SameInbox, Clean, InStep, InPlace
  <1>3. Level(x) => Level(y) BY <1>1 DEF SameInbox, Level
  <1> QED BY <1>2, <1>3 DEF Fares

\* z: x once seg has been looked at for its data.
Takes(x, L, C, seg, z) ==
    /\ OK(z, L, C) /\ Grows(x, z) /\ Keeps(x, z) /\ z.state = x.state /\ z.got = x.got
    /\ x.snd_nxt <= z.snd_nxt /\ Total(z) = Total(x) /\ (Unsplit(x) => Unsplit(z))
    /\ z.snd_una = x.snd_una /\ Len(x.readable) <= Len(z.readable)
    /\ x.shutdown # "NONE" => z.readable = x.readable
    /\ Clean(x) /\ Ready(x, seg) => Clean(z)
    /\ Level(x) => Level(z)

LEMMA StoredOK ==
    ASSUME NEW L \in Nat, NEW C, \A c \in C : c \in Nat, NEW x, OK(x, L, C),
           NEW seg, NEW s, NEW y, StoresSeg(x, L, C, seg, y), NEW idle \in BOOLEAN,
           NEW result \in {"success", "fail", "too_large"}
    PROVE  /\ Takes(x, L, C, seg, Stored(x, y, seg, s, idle, result))
           /\ Stored(x, y, seg, s, idle, result).rcv_nxt = y.rcv_nxt
  <1> DEFINE a == AckOwed(x, y, seg, s)
             new == Len(y.readable) > Len(x.readable)
             v == attemptSend(y, a, idle, result)
             z == NotifyReadable(v, new)
  <1>0. x \in Endpoint BY DEF OK
  <1>1. OK(y, L, C) /\ Stores(x, L, C, y) /\ y \in Endpoint BY DEF StoresSeg, Stores, OK
  <1>2. a \in {"none", "now", "delayed"} BY DEF AckOwed
  <1> HIDE DEF a, new
  <1>3. Progress(y, L, C, v) BY <1>1, <1>2, AttemptOK
  <1>4. z = Stored(x, y, seg, s, idle, result) BY DEF Stored, a, new
  <1> HIDE DEF v
  <1>5. OK(v, L, C) /\ v \in Endpoint BY <1>3 DEF Progress, OK
  <1>6. Settles(v, L, C, z) /\ z.state = v.state BY <1>5, NotifyReadableOK
  <1> HIDE DEF z
  <1>7. OK(z, L, C) /\ z \in Endpoint BY <1>6 DEF Settles, OK
  <1>8. Grows(x, z)
    <2>1. Grows(x, y) /\ Grows(y, v) /\ Grows(v, z) BY <1>1, <1>3, <1>6 DEF Stores, Progress, Settles
    <2>2. Grows(y, z) BY <2>1, <1>1, <1>5, <1>7, GrowsTrans
    <2> QED BY <2>1, <2>2, <1>0, <1>1, <1>7, GrowsTrans
  <1>9. Keeps(x, z) /\ z.state = x.state /\ z.got = x.got
    <2>1. Keeps(x, y) /\ y.state = x.state /\ y.got = x.got BY <1>1 DEF Stores, Untouched
    <2>2. Keeps(y, v) /\ v.state = y.state /\ v.got = y.got
      BY <1>3 DEF Progress, Sends, Receiving
    <2>3. Keeps(v, z) /\ z.state = v.state /\ z.got = v.got
      BY <1>6 DEF Settles, Restated, Steady, Keeps
    <2> QED BY <2>1, <2>2, <2>3 DEF Keeps
  <1>10. SameInbox(y, z)
    <2>1. SameInbox(y, v) BY <1>3 DEF Progress, Sends, Receiving, SameInbox
    <2>2. SameInbox(v, z) BY <1>6 DEF Settles, Restated, Steady, SameInbox
    <2> QED BY <2>1, <2>2 DEF SameInbox
  <1>11. x.snd_nxt <= z.snd_nxt
    BY <1>1, <1>3, <1>6 DEF Stores, Untouched, Progress, Settles, Restated, Steady
  <1>12. Total(z) = Total(x) /\ z.snd_una = x.snd_una
    <2>1. Total(y) = Total(x) /\ y.snd_una = x.snd_una BY <1>1 DEF Stores, Untouched, Total
    <2>2. Total(v) = Total(y) /\ v.snd_una = y.snd_una BY <1>3 DEF Progress, Sends, Total
    <2>3. Total(z) = Total(v) /\ z.snd_una = v.snd_una
      BY <1>6 DEF Settles, Restated, Steady, Total
    <2> QED BY <2>1, <2>2, <2>3
  <1>13. Unsplit(x) => Unsplit(z)
    <2>1. Unsplit(x) => Unsplit(y) BY <1>1 DEF Stores, Untouched, Unsplit
    <2>2. Unsplit(y) => Unsplit(v) BY <1>3 DEF Progress
    <2>3. Unsplit(v) => Unsplit(z) BY <1>6 DEF Settles, Restated, Steady, Unsplit
    <2> QED BY <2>1, <2>2, <2>3
  <1>14. z.readable = y.readable /\ z.rcv_nxt = y.rcv_nxt BY <1>10 DEF SameInbox
  <1>15. Len(x.readable) <= Len(z.readable) BY <1>1, <1>14 DEF Stores
  <1>16. x.shutdown # "NONE" => z.readable = x.readable BY <1>14 DEF StoresSeg
  <1>17. (Clean(x) /\ Ready(x, seg) => Clean(z)) /\ (Level(x) => Level(z))
    <2>1. z.shutdown = y.shutdown BY <1>1, <1>9 DEF Keeps, Stores, Untouched
    <2>2. Fares(y, z) BY <2>1, <1>10, CleanSame
    <2> QED BY <2>2 DEF StoresSeg, Fares
  <1>18. Takes(x, L, C, seg, z)
    BY <1>7, <1>8, <1>9, <1>11, <1>12, <1>13, <1>15, <1>16, <1>17 DEF Takes
  <1> QED BY <1>4, <1>14, <1>18

LEMMA OnDataOK ==
    ASSUME NEW L \in Nat, NEW C, \A c \in C : c \in Nat, NEW x, OK(x, L, C),
           NEW seg, DataOK(C, seg), NEW idle \in BOOLEAN,
           NEW result \in {"success", "fail", "too_large"}
    PROVE  /\ Takes(x, L, C, seg, OnData(x, seg, Fitted(x, seg), idle, result))
           /\ seg.ctl /\ WholePacket(seg) /\ seg.data # <<>> =>
                CtlLen <= OnData(x, seg, Fitted(x, seg), idle, result).rcv_nxt
  <1> DEFINE s == Fitted(x, seg)
             y == Store(x, s)
             z == OnData(x, seg, s, idle, result)
  <1>1. Fits(x, seg, s) BY FittedOK
  <1> HIDE DEF s
  <1>2. StoresSeg(x, L, C, seg, y) BY <1>1, StoreOK
  <1>3. z = Stored(x, y, seg, s, idle, result) BY DEF OnData
  <1>4. Takes(x, L, C, seg, z) /\ z.rcv_nxt = y.rcv_nxt
    <2> HIDE DEF y
    <2> QED BY <1>2, <1>3, StoredOK
  <1>5. ASSUME seg.ctl, WholePacket(seg), seg.data # <<>> PROVE CtlLen <= y.rcv_nxt
    <2>1. seg.seq = 0 /\ Len(seg.data) = CtlLen BY <1>5 DEF WholePacket
    <2>2. x \in Endpoint /\ x.rcv_nxt \in Nat /\ CtlLen \in Nat BY InboxNumbers, SizesAre
    <2>3. CASE s.data = <<>>
      <3>1. 0 + CtlLen <= x.rcv_nxt BY <1>1, <1>5, <2>1, <2>3 DEF Fits
      <3>2. y = x BY <2>3 DEF Store
      <3> QED BY <3>1, <3>2, <2>2
    <2>4. CASE s.data # <<>>
      <3>1. /\ s.seq \in Nat /\ x.rcv_nxt <= s.seq /\ s.seq + Len(s.data) = 0 + CtlLen
            /\ s.seq = x.rcv_nxt \/ s.seq = 0
            /\ s.data \in Seq(Byte) /\ s.ctl
        BY <1>1, <1>5, <2>1, <2>4 DEF Fits
      <3>2. s.seq = x.rcv_nxt
        <4> DEFINE r == x.rcv_nxt
                   q == s.seq
        <4>1. q \in Nat /\ r \in Nat /\ r <= q /\ (q = r \/ q = 0) BY <2>2, <3>1
        <4> SUFFICES q = r OBVIOUS
        <4> HIDE DEF r, q
        <4> QED BY <4>1
      <3>3. Len(s.data) # 0 /\ Len(s.data) \in Nat BY <3>1, <2>4
      <3>4. y = [x EXCEPT !.rcv_nxt = @ + Len(s.data)] BY <3>1, <3>2, <3>3 DEF Store
      <3>5. y.rcv_nxt = x.rcv_nxt + Len(s.data)
        <4> HIDE DEF y
        <4> QED BY <3>4, <2>2 DEF Endpoint
      <3>6. y.rcv_nxt = 0 + CtlLen BY <3>1, <3>2, <3>5
      <3> HIDE DEF y
      <3> QED BY <3>6, <2>2
    <2> QED BY <2>3, <2>4
  <1> HIDE DEF y, z
  <1> QED BY <1>4, <1>5 DEF z, s

\* y: x once seg, whose acknowledgement has been looked at, has been handled.
Handled(x, L, C, seg, y) ==
    /\ OK(y, L, C) /\ Grows(x, y) /\ Keeps(x, y) /\ y.got = x.got
    /\ x.snd_nxt <= y.snd_nxt /\ Total(y) = Total(x) /\ (Unsplit(x) => Unsplit(y))
    /\ y.snd_una = x.snd_una /\ Len(x.readable) <= Len(y.readable)
    /\ x.shutdown # "NONE" => y.readable = x.readable
    /\ Clean(x) /\ Ready(x, seg) => Clean(y)
    /\ Level(x) => Level(y)
    /\ y.state = "CLOSED" => y.readable = x.readable
    /\ x.state = "CLOSED" => y = x
    /\ \/ y.state = x.state
       \/ x.state = "SYN_RECEIVED" /\ ~seg.ctl /\ y.state = "ESTABLISHED"
    /\ x.state # "CLOSED" /\ seg.ctl /\ WholePacket(seg) /\ seg.data # <<>>
       => CtlLen <= y.rcv_nxt

LEMMA OnAckedOK ==
    ASSUME NEW L \in Nat, NEW C, \A c \in C : c \in Nat, NEW x, OK(x, L, C),
           NEW seg, DataOK(C, seg), NEW idle \in BOOLEAN,
           NEW result \in {"success", "fail", "too_large"}
    PROVE  Handled(x, L, C, seg, OnAcked(x, seg, idle, result))
  <1> DEFINE z == OnAcked(x, seg, idle, result)
  <1>0. x \in Endpoint BY DEF OK
  <1>1. CASE x.state = "CLOSED"
    <2>1. z = x BY <1>1 DEF OnAcked
    <2>2. Reacts(x, L, C, x) BY ReactsSame
    <2>3. Len(x.readable) \in Nat BY InboxNumbers
    <2> HIDE DEF z
    <2>4. Handled(x, L, C, seg, x) BY <1>1, <2>2, <2>3 DEF Handled, Reacts, SameInbox
    <2> QED BY <2>1, <2>4 DEF z
  <1>2. CASE x.state # "CLOSED"
    <2> DEFINE o == IF x.state = "SYN_RECEIVED" /\ ~seg.ctl THEN Established(x) ELSE x
               y == NotifyWriteable(o)
               r == IF x.out # {} THEN "success" ELSE result
    <2>1. z = OnData(y, seg, Fitted(y, seg), idle, r) BY <1>2 DEF OnAcked
    <2>2. r \in {"success", "fail", "too_large"} OBVIOUS
    <2>3. /\ Settles(x, L, C, o)
          /\ \/ o.state = x.state
             \/ x.state = "SYN_RECEIVED" /\ ~seg.ctl /\ o.state = "ESTABLISHED"
      <3>1. CASE x.state = "SYN_RECEIVED" /\ ~seg.ctl
        <4>1. x.state \notin {"LISTEN", "CLOSED"} BY <3>1
        <4>2. Settles(x, L, C, Established(x)) /\ Established(x).state = "ESTABLISHED"
          BY <4>1, EstablishedOK
        <4> QED BY <3>1, <4>2
      <3>2. CASE ~(x.state = "SYN_RECEIVED" /\ ~seg.ctl) BY <3>2, SettlesSame
      <3> QED BY <3>1, <3>2
    <2> HIDE DEF o, r
    <2>4. OK(o, L, C) /\ o \in Endpoint BY <2>3 DEF Settles, OK
    <2>5. Settles(o, L, C, y) /\ y.state = o.state BY <2>4, NotifyWriteableOK
    <2> HIDE DEF y
    <2>6. OK(y, L, C) /\ y \in Endpoint BY <2>5 DEF Settles, OK
    <2>7. /\ Takes(y, L, C, seg, z)
          /\ seg.ctl /\ WholePacket(seg) /\ seg.data # <<>> => CtlLen <= z.rcv_nxt
      <3> HIDE DEF z
      <3>1. /\ Takes(y, L, C, seg, OnData(y, seg, Fitted(y, seg), idle, r))
            /\ seg.ctl /\ WholePacket(seg) /\ seg.data # <<>> =>
                 CtlLen <= OnData(y, seg, Fitted(y, seg), idle, r).rcv_nxt
        BY <2>2, <2>6, OnDataOK
      <3> QED BY <2>1, <3>1
    <2> HIDE DEF z
    <2>8. Restated(x, y)
      <3>1. Restated(x, o) /\ Restated(o, y) BY <2>3, <2>5 DEF Settles
      <3> QED BY <3>1, RestatedTrans
    <2>9. /\ SameInbox(x, y) /\ Keeps(x, y) /\ Total(y) = Total(x) /\ y.snd_nxt = x.snd_nxt
          /\ (Unsplit(x) => Unsplit(y)) /\ (Ready(x, seg) => Ready(y, seg))
          /\ y.readable = x.readable /\ y.got = x.got /\ y.shutdown = x.shutdown
          /\ y.snd_una = x.snd_una
      BY <2>8 DEF Restated, Steady, SameInbox, Keeps, Total, Unsplit, Ready
    <2>10. Fares(x, y) BY <2>9, CleanSame
    <2>11. Grows(x, z)
      <3>1. Grows(x, o) /\ Grows(o, y) /\ Grows(y, z) /\ z \in Endpoint
        BY <2>3, <2>5, <2>7 DEF Settles, Takes, OK
      <3>2. Grows(o, z) BY <3>1, <2>4, <2>6, GrowsTrans
      <3> QED BY <3>1, <3>2, <1>0, <2>4, GrowsTrans
    <2>12. Keeps(x, z) BY <2>7, <2>9 DEF Takes, Keeps
    <2>13. /\ OK(z, L, C) /\ z.got = x.got /\ x.snd_nxt <= z.snd_nxt /\ Total(z) = Total(x)
           /\ (Unsplit(x) => Unsplit(z)) /\ Len(x.readable) <= Len(z.readable)
           /\ (x.shutdown # "NONE" => z.readable = x.readable)
           /\ (Clean(x) /\ Ready(x, seg) => Clean(z)) /\ z.state = o.state
           /\ z.snd_una = x.snd_una /\ (Level(x) => Level(z))
      BY <2>5, <2>7, <2>9, <2>10 DEF Takes, Fares
    <2>14. z.state # "CLOSED" BY <1>2, <2>3, <2>13
    <2>15. Handled(x, L, C, seg, z)
      BY <1>2, <2>3, <2>7, <2>11, <2>12, <2>13, <2>14 DEF Handled
    <2> QED BY <2>15 DEF z
  <1> QED BY <1>1, <1>2

\* An acknowledgement closes nothing when nothing is in flight.
LEMMA NothingResent ==
    ASSUME NEW L, NEW C, NEW x, OK(x, L, C), x.snd_una = x.snd_nxt, NEW seg, seg \in Packet,
           seg.data # <<>>, NEW result
    PROVE  OnAck(x, seg, result).state = x.state
  <1>0. x \in Endpoint BY DEF OK
  <1>1. ~(seg.ack > x.snd_una /\ seg.ack <= x.snd_nxt)
    <2> DEFINE a == seg.ack
               u == x.snd_una
    <2>1. a \in Nat /\ u \in Nat BY <1>0, Fields, PacketFields
    <2>2. ~(a > u /\ a <= u)
      <3> HIDE DEF a, u
      <3> QED BY <2>1
    <2> QED BY <2>2
  <1>2. CASE seg.ack = x.snd_una
    <2> DEFINE y == [x EXCEPT !.snd_wnd = seg.wnd * x.swnd_scale]
    <2>1. OnAck(x, seg, result) = y BY <1>1, <1>2 DEF OnAck, OnSameAck
    <2>2. y.state = x.state BY <1>0 DEF Endpoint
    <2> HIDE DEF y
    <2> QED BY <2>1, <2>2
  <1>3. CASE seg.ack # x.snd_una
    <2>1. OnAck(x, seg, result) = x BY <1>1, <1>3 DEF OnAck
    <2> QED BY <2>1
  <1> QED BY <1>2, <1>3

\* The states a packet leads to.
Reaches(x, seg, y) ==
    \/ y.state = x.state \/ y.state = "CLOSED"
    \/ x.state = "LISTEN" /\ seg.ctl /\ y.state = "SYN_RECEIVED"
    \/ x.state = "SYN_SENT" /\ seg.ctl /\ y.state = "ESTABLISHED"
    \/ x.state = "SYN_RECEIVED" /\ ~seg.ctl /\ y.state = "ESTABLISHED"
\* y: x once the packet seg has been handled.
Handles(x, L, C, seg, y) ==
    /\ OK(y, L, C) /\ Grows(x, y)
    /\ y.shutdown = x.shutdown /\ y.deleted = x.deleted /\ y.wrote = x.wrote /\ y.got = x.got
    /\ Len(x.readable) <= Len(y.readable)
    /\ x.shutdown # "NONE" => y.readable = x.readable
    /\ Clean(x) /\ Ready(x, seg) => Clean(y)
    /\ Level(x) => Level(y)
    /\ x.snd_nxt <= y.snd_nxt /\ (y.snd_una = x.snd_una \/ y.snd_una = seg.ack)
    /\ x.state # "LISTEN" \/ ~seg.ctl => Total(y) = Total(x) /\ (Unsplit(x) => Unsplit(y))
    /\ y.state = "CLOSED" => y.readable = x.readable
    /\ x.state = "CLOSED" => y = x
    /\ Reaches(x, seg, y)
    /\ x.state = "LISTEN" /\ seg.ctl /\ WholePacket(seg) => CtlLen <= y.rcv_nxt

LEMMA HandlesSame ==
    ASSUME NEW L, NEW C, NEW x, OK(x, L, C), NEW seg, x.state = "LISTEN" => ~seg.ctl
    PROVE  Handles(x, L, C, seg, x)
  <1>1. Reacts(x, L, C, x) BY ReactsSame
  <1>2. Len(x.readable) \in Nat BY InboxNumbers
  <1> QED BY <1>1, <1>2 DEF Handles, Reaches, Reacts, SameInbox

LEMMA ProcessOK ==
    ASSUME NEW L \in Nat, CtlLen <= L, NEW C, \A c \in C : c \in Nat, NEW x, OK(x, L, C),
           NEW seg, AckOK(x, L, seg), DataOK(C, seg), seg.data = <<>> => ~seg.ctl,
           NEW idle \in BOOLEAN, NEW result \in {"success", "fail", "too_large"}
    PROVE  Handles(x, L, C, seg, process(x, seg, idle, result))
  <1> DEFINE v == IF seg.ctl THEN OnConnect(x) ELSE x
             w == OnAck(v, seg, result)
             y == OnAcked(w, seg, idle, result)
             z == process(x, seg, idle, result)
  <1>0. x \in Endpoint /\ x.state \in TcpState BY Fields DEF OK
  <1>1. CASE x.state = "CLOSED"
    <2>1. z = x BY <1>1 DEF process
    <2>2. Handles(x, L, C, seg, x) BY <1>1, HandlesSame
    <2> QED BY <2>1, <2>2
  <1>2. CASE x.state # "CLOSED"
    <2>1. z = y BY <1>2 DEF process
    <2> DEFINE Links == /\ OK(v, L, C) /\ Grows(x, v) /\ SameInbox(x, v)
                        /\ v.shutdown = x.shutdown /\ v.deleted = x.deleted /\ v.wrote = x.wrote
                        /\ v.snd_nxt = x.snd_nxt /\ v.state # "CLOSED"
    <2>2. Links
      <3>1. CASE seg.ctl
        <4>1. Connects(x, L, C, v) BY <3>1, OnConnectOK
        <4> HIDE DEF v
        <4> QED BY <1>2, <4>1 DEF Connects, Receiving, SameInbox
      <3>2. CASE ~seg.ctl
        <4>1. v = x BY <3>2
        <4>2. Reacts(x, L, C, x) BY ReactsSame
        <4> HIDE DEF v
        <4> QED BY <1>2, <4>1, <4>2 DEF Reacts, SameInbox
      <3> QED BY <3>1, <3>2
    <2>3. /\ x.state # "LISTEN" \/ ~seg.ctl => Total(v) = Total(x) /\ (Unsplit(x) => Unsplit(v))
          /\ x.state = "LISTEN" /\ seg.ctl => v.state = "SYN_RECEIVED"
          /\ x.state = "SYN_SENT" /\ seg.ctl => v.state = "ESTABLISHED"
          /\ ~(x.state \in {"LISTEN", "SYN_SENT"} /\ seg.ctl) => v.state = x.state
      <3>1. CASE seg.ctl
        <4>1. Connects(x, L, C, v) BY <3>1, OnConnectOK
        <4> HIDE DEF v
        <4> QED BY <3>1, <4>1 DEF Connects, Steady, Total, Unsplit
      <3>2. CASE ~seg.ctl
        <4>1. v = x BY <3>2
        <4> HIDE DEF v
        <4> QED BY <3>2, <4>1
      <3> QED BY <3>1, <3>2
    <2> HIDE DEF v
    <2>4. AckOK(v, L, seg)
      <3>1. XCuts(x) \subseteq XCuts(v) BY <2>2 DEF Grows
      <3> QED BY <3>1 DEF AckOK
    <2>5. Acted(v, L, C, seg.ack, w) BY <2>2, <2>4, OnAckOK
    <2>6. x.state = "LISTEN" /\ seg.ctl => w.state = "SYN_RECEIVED"
      <3> SUFFICES ASSUME x.state = "LISTEN", seg.ctl PROVE w.state = "SYN_RECEIVED" OBVIOUS
      <3>1. Total(x) = 0 BY DEF OK, Counted
      <3>2. x.snd_nxt = 0 BY <3>1, NothingQueued
      <3>3. v.snd_una = v.snd_nxt
        <4> DEFINE u == v.snd_una
                   n == v.snd_nxt
        <4>1. u \in Nat /\ n \in Nat /\ u <= n /\ n = 0 BY <2>2, <3>2, TunedNumbers
        <4> SUFFICES u = n OBVIOUS
        <4> HIDE DEF u, n
        <4> QED BY <4>1
      <3>4. seg \in Packet /\ seg.data # <<>> BY DEF AckOK
      <3>5. w.state = v.state BY <2>2, <3>3, <3>4, NothingResent
      <3> QED BY <2>3, <3>5
    <2>20. v.snd_una = x.snd_una
      <3>1. CASE x.state = "LISTEN"
        <4>1. Total(x) = 0 BY <3>1 DEF OK, Counted
        <4>2. x.snd_nxt = 0 /\ x.snd_una = 0 BY <4>1, NothingQueued
        <4> DEFINE u == v.snd_una
                   n == v.snd_nxt
        <4>3. u \in Nat /\ n \in Nat /\ u <= n /\ n = 0 BY <2>2, <4>2, TunedNumbers
        <4> HIDE DEF u, n
        <4>4. u = 0 BY <4>3
        <4> QED BY <4>2, <4>4 DEF u
      <3>2. CASE x.state # "LISTEN" /\ seg.ctl
        <4>1. Connects(x, L, C, OnConnect(x)) BY OnConnectOK
        <4>2. v = OnConnect(x) BY <3>2 DEF v
        <4> QED BY <3>2, <4>1, <4>2 DEF Connects, Steady
      <3>3. CASE x.state # "LISTEN" /\ ~seg.ctl BY <3>3 DEF v
      <3> QED BY <3>1, <3>2, <3>3
    <2> HIDE DEF w, Links
    <2>7. OK(w, L, C) BY <2>5 DEF Acted
    <2>8. Handled(w, L, C, seg, y) BY <2>7, OnAckedOK
    <2> HIDE DEF y
    <2>9. Grows(x, y)
      <3>1. Grows(x, v) /\ Grows(v, w) /\ Grows(w, y) BY <2>2, <2>5, <2>8 DEF Links, Acted, Handled
      <3>2. v \in Endpoint /\ w \in Endpoint /\ y \in Endpoint
        BY <2>2, <2>5, <2>8 DEF Links, Acted, Handled, OK
      <3>3. Grows(v, y) BY <3>1, <3>2, GrowsTrans
      <3> QED BY <3>1, <3>2, <3>3, <1>0, GrowsTrans
    <2>10. /\ SameInbox(x, w) /\ w.shutdown = x.shutdown /\ w.deleted = x.deleted
           /\ w.wrote = x.wrote /\ w.got = x.got /\ w.readable = x.readable
           /\ w.rcv_nxt = x.rcv_nxt
      BY <2>2, <2>5 DEF Links, Acted, SameInbox, Keeps
    <2>11. Fares(x, w) /\ (Ready(x, seg) => Ready(w, seg))
      <3>1. Fares(x, w) BY <2>10, CleanSame
      <3> QED BY <3>1, <2>10 DEF Ready
    <2>12. x.snd_nxt <= y.snd_nxt
      <3> DEFINE a == x.snd_nxt
                 b == w.snd_nxt
                 c == y.snd_nxt
      <3>1. a <= b /\ b <= c BY <2>2, <2>5, <2>8 DEF Links, Acted, Handled
      <3>2. a \in Nat /\ b \in Nat /\ c \in Nat
        BY <2>7, <2>8, Fields DEF Handled, OK
      <3> SUFFICES a <= c OBVIOUS
      <3> HIDE DEF a, b, c
      <3> QED BY <3>1, <3>2
    <2>13. x.state # "LISTEN" \/ ~seg.ctl => Total(y) = Total(x) /\ (Unsplit(x) => Unsplit(y))
      BY <2>3, <2>5, <2>8 DEF Acted, Handled
    <2>14. /\ y.shutdown = x.shutdown /\ y.deleted = x.deleted /\ y.wrote = x.wrote
           /\ y.got = x.got /\ Len(x.readable) <= Len(y.readable)
           /\ (x.shutdown # "NONE" => y.readable = x.readable)
           /\ (y.state = "CLOSED" => y.readable = x.readable)
      BY <2>8, <2>10 DEF Handled, Keeps
    <2>15. Reaches(x, seg, y)
      <3>1. w.state = v.state \/ w.state = "CLOSED" BY <2>5 DEF Acted
      <3>2. \/ y.state = w.state
            \/ w.state = "SYN_RECEIVED" /\ ~seg.ctl /\ y.state = "ESTABLISHED"
        BY <2>8 DEF Handled
      <3> QED BY <2>3, <3>1, <3>2 DEF Reaches
    <2>16. x.state = "LISTEN" /\ seg.ctl /\ WholePacket(seg) => CtlLen <= y.rcv_nxt
      BY <2>6, <2>8 DEF Handled
    <2>17. (Clean(x) /\ Ready(x, seg) => Clean(y)) /\ (Level(x) => Level(y))
      BY <2>8, <2>11 DEF Handled, Fares
    <2>18. OK(y, L, C) BY <2>8 DEF Handled
    <2>21. y.snd_una = x.snd_una \/ y.snd_una = seg.ack
      BY <2>5, <2>8, <2>20 DEF Acted, Handled
    <2>19. Handles(x, L, C, seg, y)
      BY <2>21, <1>2, <2>9, <2>12, <2>13, <2>14, <2>15, <2>16, <2>17, <2>18 DEF Handles
    <2> QED BY <2>1, <2>19
  <1> QED BY <1>1, <1>2

-----------------------------------------------------------------------------
(* The timers                                                              *)

LEMMA AcksReacts ==
    ASSUME NEW L, NEW C, NEW x, OK(x, L, C), NEW seq \in Int
    PROVE  Reacts(x, L, C, packet(x, seq, FALSE, 0, 0))
  <1> DEFINE z == packet(x, seq, FALSE, 0, 0)
  <1>0. x.snd_nxt \in Nat BY Fields DEF OK
  <1>1. Acks(x, L, C, z) BY EmptiesOK
  <1> HIDE DEF z
  <1>2. /\ SameInbox(x, z) /\ Keeps(x, z) /\ Total(z) = Total(x) /\ z.state = x.state
        /\ z.snd_una = x.snd_una
    BY <1>1 DEF Acks, Sends, Receiving, SameInbox, Total
  <1>3. x.snd_nxt <= z.snd_nxt BY <1>0, <1>1 DEF Acks
  <1>4. Reacts(x, L, C, z) BY <1>1, <1>2, <1>3 DEF Acks, Reacts
  <1> QED BY <1>4 DEF z

LEMMA OnAckTimerOK ==
    ASSUME NEW L, NEW C, NEW x, OK(x, L, C), NEW due
    PROVE  Reacts(x, L, C, OnAckTimer(x, due)) /\ OnAckTimer(x, due).state = x.state
  <1>1. x \in Endpoint /\ x.snd_nxt \in Int BY Fields DEF OK
  <1>2. CASE "ack" \in due /\ x.ack_set
    <2> DEFINE z == packet(x, x.snd_nxt, FALSE, 0, 0)
    <2>1. OnAckTimer(x, due) = z BY <1>2 DEF OnAckTimer, SendAck
    <2>2. Reacts(x, L, C, z) /\ Acks(x, L, C, z) BY <1>1, AcksReacts, EmptiesOK
    <2> HIDE DEF z
    <2> QED BY <2>1, <2>2 DEF Acks, Sends
  <1>3. CASE ~("ack" \in due /\ x.ack_set)
    <2>1. OnAckTimer(x, due) = x BY <1>3 DEF OnAckTimer
    <2> QED BY <2>1, ReactsSame
  <1> QED BY <1>2, <1>3

LEMMA OnProbeTimerOK ==
    ASSUME NEW L, NEW C, NEW x, OK(x, L, C), NEW due
    PROVE  Reacts(x, L, C, OnProbeTimer(x, due))
  <1>0. x \in Endpoint BY DEF OK
  <1>1. CASE x.state = "CLOSED"
    <2>1. OnProbeTimer(x, due) = x BY <1>1 DEF OnProbeTimer
    <2> QED BY <2>1, ReactsSame
  <1>2. CASE x.state # "CLOSED" /\ "silent" \in due
    <2>1. OnProbeTimer(x, due) = closedown(x) BY <1>2 DEF OnProbeTimer
    <2> QED BY <2>1, ClosedReacts
  <1>3. CASE x.state # "CLOSED" /\ "silent" \notin due
    <2> DEFINE y == IF "probe" \in due THEN Probe(x) ELSE x
    <2>1. OnProbeTimer(x, due) = OnAckTimer(y, due) BY <1>3 DEF OnProbeTimer
    <2>2. Reacts(x, L, C, y)
      <3>1. CASE "probe" \in due
        <4> DEFINE q == x.snd_nxt - 1
        <4>1. q \in Int BY <1>0, Fields
        <4>2. y = packet(x, q, FALSE, 0, 0) BY <3>1 DEF Probe
        <4> HIDE DEF q, y
        <4>3. Reacts(x, L, C, packet(x, q, FALSE, 0, 0)) BY <4>1, AcksReacts
        <4> QED BY <4>2, <4>3
      <3>2. CASE "probe" \notin due
        <4>1. y = x BY <3>2
        <4> HIDE DEF y
        <4> QED BY <4>1, ReactsSame
      <3> QED BY <3>1, <3>2
    <2> HIDE DEF y
    <2>3. OK(y, L, C) BY <2>2 DEF Reacts
    <2>4. Reacts(y, L, C, OnAckTimer(y, due)) BY <2>3, OnAckTimerOK
    <2>5. Reacts(x, L, C, OnAckTimer(y, due)) BY <1>0, <2>2, <2>4, ReactsTrans
    <2> QED BY <2>1, <2>5
  <1> QED BY <1>1, <1>2, <1>3

LEMMA OnTimersOK ==
    ASSUME NEW L \in Nat, NEW C, NEW x, OK(x, L, C), x.state # "CLOSED", NEW due,
           Expired(x, due), NEW result
    PROVE  Reacts(x, L, C, OnTimers(x, due, result))
  <1>0. x \in Endpoint BY DEF OK
  <1>1. CASE "rto" \in due
    <2> DEFINE v == Resent(x, result)
               b == Backoff(v)
               w == UnlessClosed(v, b)
               z == OnProbeTimer(w, due)
    <2>1. x.snd_una # x.snd_nxt BY <1>1 DEF Expired, OK, Timed
    <2>2. OnTimers(x, due, result) = z BY <1>1 DEF OnTimers, OnResent
    <2>3. Reacts(x, L, C, v) BY <2>1, ResentOK
    <2> HIDE DEF v
    <2>4. OK(v, L, C) /\ v \in Endpoint BY <2>3 DEF Reacts, OK
    <2>5. Reacts(v, L, C, b)
      <3>1. Retunes(v, L, C, b) BY <2>4, BackoffOK
      <3> HIDE DEF b
      <3> QED BY <3>1, <2>4, RetunesReacts
    <2> HIDE DEF b
    <2>6. Reacts(v, L, C, w) BY <2>4, <2>5, UnlessClosedOK
    <2> HIDE DEF w
    <2>7. OK(w, L, C) BY <2>6 DEF Reacts
    <2>8. Reacts(w, L, C, z) BY <2>7, OnProbeTimerOK
    <2> HIDE DEF z
    <2>9. Reacts(v, L, C, z) BY <2>4, <2>6, <2>8, ReactsTrans
    <2>10. Reacts(x, L, C, z) BY <1>0, <2>3, <2>9, ReactsTrans
    <2> QED BY <2>2, <2>10
  <1>2. CASE "rto" \notin due
    <2>1. OnTimers(x, due, result) = OnProbeTimer(x, due) BY <1>2 DEF OnTimers
    <2> QED BY <2>1, OnProbeTimerOK
  <1> QED BY <1>1, <1>2

\* A timer that is not set does nothing.
LEMMA NoTimer ==
    ASSUME NEW x, x.state # "CLOSED", NEW due, Expired(x, due), ~x.rto_set, ~x.ack_set,
           x.snd_wnd # 0, NEW result
    PROVE  OnTimers(x, due, result) = x
  BY DEF Expired, OnTimers, OnProbeTimer, OnAckTimer

-----------------------------------------------------------------------------
(* The calls of the application                                            *)

\* The k bytes an application writes after w of them.
Bytes(w, k) == [i \in 1 .. k |-> w + i]

LEMMA BytesTaken ==
    ASSUME NEW w \in Nat, NEW k \in Nat, k > 0, NEW room \in Nat, room > 0,
           NEW d, d = Take(Bytes(w, k), Least(Len(Bytes(w, k)), room))
    PROVE  /\ d \in Seq(Byte) /\ d # <<>> /\ Len(d) \in 1 .. k /\ Len(d) <= room
           /\ Right(d, CtlLen + w)
  <1> DEFINE b == Bytes(w, k)
             m == Least(k, room)
  <1>1. b \in Seq(Nat) /\ Len(b) = k /\ \A i \in 1 .. k : b[i] = w + i BY DEF Bytes
  <1> HIDE DEF b
  <1>2. m \in 1 .. k /\ m <= room /\ m \in 0 .. Len(b) BY <1>1 DEF Least
  <1>3. d = Take(b, m) BY <1>1 DEF b
  <1> HIDE DEF m
  <1>4. d \in Seq(Nat) /\ Len(d) = m /\ \A i \in 1 .. m : d[i] = b[i] BY <1>1, <1>2, <1>3, TakeIs
  <1>5. d \in Seq(Byte) BY <1>4 DEF Byte
  <1>6. Right(d, CtlLen + w)
    <2> SUFFICES ASSUME NEW i \in 1 .. Len(d) PROVE d[i] = Content((CtlLen + w) + i - 1)
      BY DEF Right
    <2>1. i \in 1 .. m /\ i \in 1 .. k /\ CtlLen \in Nat BY <1>2, <1>4, SizesAre
    <2>2. d[i] = w + i BY <1>1, <1>4, <2>1
    <2>3. Content((CtlLen + w) + i - 1) = w + i BY <2>1 DEF Content
    <2> QED BY <2>2, <2>3
  <1>7. d # <<>> BY <1>2, <1>4
  <1> QED BY <1>2, <1>4, <1>5, <1>6, <1>7

Wrote(x, n) == [x EXCEPT !.wrote = x.wrote + n]
\* z: x with m bytes more to send.
WritesMore(x, L, C, m, z) ==
    /\ OK(z, L, C) /\ Grows(x, z) /\ Receiving(x, z) /\ z.state = x.state
    /\ z.shutdown = x.shutdown /\ z.deleted = x.deleted /\ z.wrote = x.wrote + m
    /\ z.snd_nxt = x.snd_nxt /\ z.snd_una = x.snd_una /\ Total(z) = Total(x) + m
    /\ Len(x.sbuf) + m <= SndBuf /\ (Unsplit(x) => Unsplit(z))

LEMMA SendQueues ==
    ASSUME NEW L, NEW C, NEW x, OK(x, L, C), x.state = "ESTABLISHED", Len(x.sbuf) # SndBuf,
           NEW k \in Nat, k > 0, NEW y, y = queue(x, Bytes(x.wrote, k), FALSE)
    PROVE  \E m \in 1 .. k : WritesMore(x, L, C, m, Wrote(y, Len(y.sbuf) - Len(x.sbuf)))
  <1> DEFINE w == x.wrote
             n == Len(x.sbuf)
             room == SndBuf - n
             d == Take(Bytes(w, k), Least(Len(Bytes(w, k)), room))
             m == Len(d)
             z == Wrote(y, Len(y.sbuf) - Len(x.sbuf))
  <1>0. /\ x \in Endpoint /\ w \in Nat /\ n \in Nat /\ x.sbuf \in Seq(Byte) /\ x.snd_una \in Nat
        /\ SndBuf \in Nat /\ CtlLen \in Nat
    BY Fields, SizesAre DEF OK
  <1>1. room \in Nat /\ room > 0 /\ n + room = SndBuf
    <2>1. n <= SndBuf /\ n # SndBuf BY DEF OK, Tiled
    <2> HIDE DEF n
    <2> QED BY <2>1, <1>0
  <1>2. Total(x) = CtlLen + w
    <2>1. x.state \notin {"LISTEN", "CLOSED"} OBVIOUS
    <2> QED BY <2>1 DEF OK, Counted
  <1>3. d = Take(Bytes(w, k), Least(Len(Bytes(w, k)), SndBuf - Len(x.sbuf))) OBVIOUS
  <1>4. /\ d \in Seq(Byte) /\ d # <<>> /\ m \in 1 .. k /\ m <= room /\ Right(d, CtlLen + w)
    <2>1. d = Take(Bytes(w, k), Least(Len(Bytes(w, k)), room)) OBVIOUS
    <2> HIDE DEF d, room
    <2> QED BY <2>1, <1>0, <1>1, BytesTaken
  <1> HIDE DEF d, room
  <1>5. Tiled(x) /\ CtlLen <= Total(x)
    <2>1. Tiled(x) BY DEF OK
    <2> QED BY <2>1, <1>0, <1>2
  <1>6. Len(x.sbuf) + Len(d) <= SndBuf
    <2> HIDE DEF n, m
    <2>1. n + m <= SndBuf BY <1>0, <1>1, <1>4
    <2> QED BY <2>1 DEF n, m
  <1>7. Len(d) \in Nat \ {0} BY <1>4
  <1>8. QueuedList(x, Len(d), FALSE) \in Seq(SSegment) BY <1>0, <1>5, <1>7, QueuedTiling
  <1>9. Queued(x, d, FALSE, y) BY <1>0, <1>3, <1>4, <1>8, QueueIs
  <1>10. /\ Tiled(y) /\ Total(y) = Total(x) + Len(d) /\ Grows(x, y)
         /\ (Unsplit(x) => Unsplit(y))
    <2>1. Right(d, Total(x)) BY <1>2, <1>4
    <2>2. OfKind(x, d, FALSE) BY <1>5 DEF OfKind
    <2>3. Lengthens(x, d, FALSE, y) BY <2>1, <2>2, <1>0, <1>4, <1>5, <1>6, <1>9, QueuedOK
    <2> QED BY <2>3 DEF Lengthens
  <1>11. y \in Endpoint /\ Receiving(x, y) /\ Keeps(x, y) /\ y.sbuf = x.sbuf \o d BY <1>9 DEF Queued
  <1>12. Len(y.sbuf) - Len(x.sbuf) = m
    <2>1. Len(x.sbuf \o d) = Len(x.sbuf) + Len(d) BY <1>0, <1>4
    <2>2. n \in Nat /\ m \in Nat BY <1>0, <1>4
    <2>3. Len(y.sbuf) = n + m BY <1>11, <2>1
    <2> DEFINE b == Len(y.sbuf)
    <2>4. b = n + m BY <2>3
    <2> HIDE DEF n, m, b
    <2>5. b - n = m BY <2>2, <2>4
    <2> QED BY <2>5 DEF n, b
  <1>13. z = [y EXCEPT !.wrote = w + m]
    <2>1. y.wrote = w BY <1>11 DEF Keeps
    <2> QED BY <1>12, <2>1 DEF Wrote
  <1>14. w + m \in Nat BY <1>0, <1>4
  <1> HIDE DEF z, w, m, n
  <1>15. z \in Endpoint
    <2>1. [y EXCEPT !.wrote = w + m] \in Endpoint BY <1>11, <1>14, Zenon DEF Endpoint
    <2> QED BY <2>1, <1>13
  <1>16. /\ z.wrote = w + m /\ z.state = y.state /\ z.shutdown = y.shutdown
         /\ z.deleted = y.deleted /\ z.mtu_advise = y.mtu_advise /\ z.swnd_scale = y.swnd_scale
    BY <1>11, <1>13 DEF Endpoint
  <1>17. /\ z.snd_una = y.snd_una /\ z.snd_nxt = y.snd_nxt /\ z.snd_wnd = y.snd_wnd
         /\ z.slist = y.slist /\ z.sbuf = y.sbuf /\ z.recover = y.recover
         /\ z.rto_set = y.rto_set /\ z.out = y.out
    BY <1>11, <1>13 DEF Endpoint
  <1>18. /\ Receiving(y, z) /\ z.mss = y.mss /\ z.cwnd = y.cwnd /\ z.ssthresh = y.ssthresh
    BY <1>11, <1>13 DEF Endpoint, Receiving
  <1>19. Receiving(x, z) BY <1>11, <1>18 DEF Receiving
  <1>20. /\ y.state = x.state /\ y.snd_una = x.snd_una /\ y.snd_nxt = x.snd_nxt
         /\ y.snd_wnd = x.snd_wnd /\ y.rto_set = x.rto_set /\ y.cwnd = x.cwnd /\ y.mss = x.mss
         /\ y.ssthresh = x.ssthresh /\ y.out = x.out
    BY <1>9 DEF Queued
  <1>21. Total(z) = Total(x) + m
    <2>1. Total(z) = Total(y) BY <1>17 DEF Total
    <2> QED BY <2>1, <1>10 DEF m
  <1>22. Grows(x, z)
    <2>1. XCuts(z) = XCuts(y) /\ Edge(z) = Edge(y) /\ z.rcv_nxt = y.rcv_nxt
      BY <1>17, <1>18 DEF XCuts, Receiving, Edge
    <2> QED BY <2>1, <1>10, <1>17 DEF Grows
  <1>23. OK(z, L, C)
    <2>1. Tiled(z)
      <3>1. Total(z) = Total(y) BY <1>17 DEF Total
      <3> QED BY <3>1, <1>10, <1>17 DEF Tiled
    <2>2. Timed(z) BY <1>16, <1>17, <1>20 DEF OK, Timed
    <2>3. Limited(z, L) BY <1>17, <1>20 DEF OK, Limited
    <2>4. Counted(z)
      <3>1. m \in Nat BY <1>4
      <3>2. Total(z) = CtlLen + (w + m) BY <3>1, <1>0, <1>2, <1>21
      <3>3. z.state = "ESTABLISHED" BY <1>16, <1>20
      <3> QED BY <3>2, <3>3, <1>16 DEF Counted
    <2>5. Received(z, C)
      <3>1. Edge(z) = Edge(x) BY <1>19 DEF Receiving, Edge
      <3> QED BY <3>1, <1>19 DEF Receiving, OK, Received
    <2>6. Tuned(z) BY <1>11, <1>16, <1>18, <1>20 DEF Keeps, OK, Tuned
    <2>7. Written(z, C)
      <3>1. Written(x, C) /\ z.out = x.out BY <1>17, <1>20 DEF OK
      <3> QED BY <3>1, <1>0, <1>15, <1>22, WrittenKept
    <2> QED BY <1>15, <2>1, <2>2, <2>3, <2>4, <2>5, <2>6, <2>7 DEF OK
  <1>24. Unsplit(x) => Unsplit(z) BY <1>10, <1>17 DEF Unsplit
  <1>25. WritesMore(x, L, C, m, z)
    <2>1. z.wrote = x.wrote + m BY <1>16 DEF w
    <2>2. Len(x.sbuf) + m <= SndBuf BY <1>6 DEF m
    <2>3. z.state = x.state /\ z.shutdown = x.shutdown /\ z.deleted = x.deleted
      BY <1>11, <1>16, <1>20 DEF Keeps
    <2> QED BY <2>1, <2>2, <2>3, <1>17, <1>19, <1>20, <1>21, <1>22, <1>23, <1>24 DEF WritesMore
  <1>26. m \in 1 .. k BY <1>4
  <1> QED BY <1>25, <1>26 DEF z

\* Only the receive buffer, and how much of it has been read, differ.
Drains(x, y) ==
    /\ Keeps(x, y) /\ y.state = x.state /\ y.rcv_nxt = x.rcv_nxt /\ y.rlist = x.rlist
    /\ y.snd_una = x.snd_una /\ y.snd_nxt = x.snd_nxt /\ y.snd_wnd = x.snd_wnd
    /\ y.slist = x.slist /\ y.sbuf = x.sbuf /\ y.rto_set = x.rto_set /\ y.out = x.out
    /\ y.recover = x.recover /\ y.dup_acks = x.dup_acks /\ y.ack_set = x.ack_set
    /\ y.mss = x.mss /\ y.cwnd = x.cwnd /\ y.ssthresh = x.ssthresh

LEMMA DrainsOK ==
    ASSUME NEW L, NEW C, NEW x, OK(x, L, C), NEW y \in Endpoint, Drains(x, y),
           Received(y, C), Edge(x) <= Edge(y)
    PROVE  OK(y, L, C) /\ Grows(x, y)
  <1>0. x \in Endpoint BY DEF OK
  <1>1. Total(y) = Total(x) /\ XCuts(y) = XCuts(x) BY DEF Drains, Total, XCuts
  <1>2. Grows(x, y)
    <2>1. x.snd_una <= x.snd_una /\ x.rcv_nxt <= x.rcv_nxt BY <1>0, Fields
    <2> QED BY <1>1, <2>1 DEF Grows, Drains
  <1>3. Tiled(y) BY <1>1 DEF OK, Tiled, Drains
  <1>4. Timed(y) BY DEF OK, Timed, Drains
  <1>5. Limited(y, L) BY DEF OK, Limited, Drains
  <1>6. Counted(y) BY <1>1 DEF OK, Counted, Drains, Keeps
  <1>7. Tuned(y) BY DEF OK, Tuned, Drains, Keeps
  <1>8. Written(y, C)
    <2>1. Written(x, C) BY DEF OK
    <2>2. y.out = x.out BY DEF Drains
    <2> QED BY <2>1, <2>2, <1>0, <1>2, WrittenKept
  <1> QED BY <1>2, <1>3, <1>4, <1>5, <1>6, <1>7, <1>8 DEF OK

Blank(k) == [i \in 1 .. k |-> Stale]
ReadBytes(x, k) ==
    [x EXCEPT !.readable = Drop(x.readable, k), !.got = x.got + k, !.ahead = x.ahead \o Blank(k)]
Opened(x) == [x EXCEPT !.rcv_wnd = Len(x.ahead)]
\* y: x with k bytes read.
Reads(x, L, C, k, y) ==
    /\ OK(y, L, C) /\ Grows(x, y) /\ Drains(x, y)
    /\ y.got = x.got + k /\ y.readable = Drop(x.readable, k)
    /\ Fares(x, y)

LEMMA ReadBytesOK ==
    ASSUME NEW L, NEW C, NEW x, OK(x, L, C), NEW k \in 0 .. Len(x.readable)
    PROVE  Reads(x, L, C, k, ReadBytes(x, k)) /\ ReadBytes(x, k).rcv_wnd = x.rcv_wnd
  <1> DEFINE y == ReadBytes(x, k)
             b == Drop(x.readable, k)
             g == x.got + k
             a == x.ahead \o Blank(k)
             p == Len(x.readable)
             h == Len(x.ahead)
             r == x.rcv_nxt
             w == x.rcv_wnd
  <1>0. /\ x \in Endpoint /\ r \in Nat /\ w \in Nat /\ x.got \in Nat
        /\ x.readable \in Seq(Byte) /\ x.ahead \in Seq(Byte) /\ x.rlist \in Seq(RSegment)
        /\ p \in Nat /\ h \in Nat /\ w <= h /\ \A c \in C : c <= r + w
    BY InboxNumbers
  <1>1. b \in Seq(Byte) /\ Len(b) = p - k /\ \A i \in 1 .. p - k : b[i] = x.readable[k + i]
    BY <1>0, DropIs
  <1>2. g \in Nat BY <1>0
  <1>3. Blank(k) \in Seq(Byte) /\ Len(Blank(k)) = k BY DEF Blank, Byte, Stale
  <1>4. a \in Seq(Byte) /\ Len(a) = h + k /\ \A i \in 1 .. h : a[i] = x.ahead[i]
    <2> DEFINE s == x.ahead
               t == Blank(k)
    <2>1. s \in Seq(Byte) /\ t \in Seq(Byte) /\ Len(t) = k BY <1>0, <1>3
    <2> HIDE DEF s, t
    <2>2. s \o t \in Seq(Byte) /\ Len(s \o t) = Len(s) + Len(t)
          /\ \A i \in 1 .. Len(s) : (s \o t)[i] = s[i]
      BY <2>1
    <2> QED BY <2>1, <2>2 DEF s, t
  <1>5. y = [x EXCEPT !.readable = b, !.got = g, !.ahead = a] BY DEF ReadBytes
  <1> SUFFICES Reads(x, L, C, k, y) /\ y.rcv_wnd = w OBVIOUS
  <1> HIDE DEF y, b, g, a
  <1>6. y \in Endpoint
    <2>1. [x EXCEPT !.readable = b, !.got = g, !.ahead = a] \in Endpoint
      BY <1>0, <1>1, <1>2, <1>4, Zenon DEF Endpoint
    <2> QED BY <2>1, <1>5
  <1>7. Drains(x, y) BY <1>0, <1>5 DEF Endpoint, Drains, Keeps
  <1>8. y.readable = b /\ y.got = g /\ y.ahead = a /\ y.rcv_wnd = w BY <1>0, <1>5 DEF Endpoint
  <1>9. Edge(y) = Edge(x) BY <1>7, <1>8 DEF Drains, Edge
  <1>10. Received(y, C)
    <2>1. p + h = RcvBuf BY DEF OK, Received
    <2>2. Len(b) + Len(a) = RcvBuf /\ w <= Len(a)
      <3>1. k \in Nat /\ k <= p BY <1>0
      <3> HIDE DEF p, h, w
      <3> QED BY <3>1, <2>1, <1>0, <1>1, <1>4
    <2> QED BY <2>2, <1>7, <1>8, <1>9 DEF Drains, OK, Received
  <1>11. OK(y, L, C) /\ Grows(x, y)
    <2>1. Edge(x) <= Edge(y)
      <3>1. Edge(x) \in Nat BY <1>0 DEF Edge
      <3> QED BY <3>1, <1>9
    <2> QED BY <2>1, <1>6, <1>7, <1>10, DrainsOK
  <1>13. Arrived(y) = Arrived(x)
    <2>1. Arrived(y) = g + Len(b) /\ Arrived(x) = x.got + p BY <1>8 DEF Arrived
    <2>2. g = x.got + k /\ k \in Nat /\ k <= p BY <1>0 DEF g
    <2> DEFINE o == x.got
    <2>3. Arrived(y) = g + (p - k) /\ Arrived(x) = o + p /\ g = o + k /\ o \in Nat
      BY <2>1, <2>2, <1>0, <1>1
    <2> HIDE DEF o, p
    <2> QED BY <2>2, <2>3, <1>0
  <1>14. Level(x) => Level(y)
    <2>1. y.shutdown = x.shutdown /\ y.rcv_nxt = x.rcv_nxt BY <1>7 DEF Drains, Keeps
    <2> QED BY <2>1, <1>13 DEF Level
  <1>12. ASSUME Clean(x) PROVE Clean(y)
    <2>1. Arrived(y) = Arrived(x) BY <1>13
    <2>2. y.shutdown = x.shutdown /\ y.rcv_nxt = r /\ y.rlist = x.rlist
      BY <1>7 DEF Drains, Keeps
    <2>3. ASSUME x.shutdown = "NONE" PROVE InStep(y) /\ InPlace(y)
      <3>1. InStep(x) /\ InPlace(x) BY <1>12, <2>3 DEF Clean
      <3>2. InStep(y) BY <3>1, <2>1, <2>2 DEF InStep
      <3>3. InPlace(y)
        <4> SUFFICES ASSUME NEW j \in 1 .. Len(x.rlist), NEW s \in Nat, x.rlist[j].seq <= s,
                            s < x.rlist[j].seq + x.rlist[j].len, r <= s
                     PROVE  a[s - r + 1] = Content(s)
          BY <1>8, <2>2 DEF InPlace
        <4>1. x.ahead[s - r + 1] = Content(s) BY <3>1 DEF InPlace
        <4> DEFINE e == x.rlist[j].seq + x.rlist[j].len
        <4>2. e \in C BY DEF OK, Received
        <4>3. e <= r + w /\ s < e BY <4>2, <1>0
        <4>4. e \in Nat
          <5>1. x.rlist[j] \in RSegment BY <1>0
          <5> QED BY <5>1 DEF RSegment
        <4>5. s - r + 1 \in 1 .. h
          <5> HIDE DEF e, r, w, h
          <5> QED BY <1>0, <4>3, <4>4
        <4> QED BY <1>4, <4>1, <4>5
      <3> QED BY <3>2, <3>3
    <2>4. ASSUME NEW i \in 1 .. Len(b) PROVE b[i] = g + i
      <3>1. i \in 1 .. p - k /\ k + i \in 1 .. p /\ k \in Nat BY <1>0, <1>1
      <3>2. b[i] = x.readable[k + i] BY <1>1, <3>1
      <3>3. x.readable[k + i] = x.got + (k + i) BY <1>12, <3>1 DEF Clean
      <3>4. g + i = x.got + (k + i) BY <1>0, <3>1 DEF g
      <3> QED BY <3>2, <3>3, <3>4
    <2> QED BY <1>8, <1>12, <2>1, <2>2, <2>3, <2>4 DEF Clean
  <1> QED BY <1>7, <1>8, <1>11, <1>12, <1>14 DEF Reads, Fares, b, g

LEMMA OpenedOK ==
    ASSUME NEW L, NEW C, \A c \in C : c \in Nat, NEW x, OK(x, L, C)
    PROVE  /\ OK(Opened(x), L, C) /\ Grows(x, Opened(x)) /\ Drains(x, Opened(x))
           /\ Opened(x).got = x.got /\ Opened(x).readable = x.readable
           /\ Fares(x, Opened(x))
  <1> DEFINE y == Opened(x)
             h == Len(x.ahead)
             r == x.rcv_nxt
             w == x.rcv_wnd
  <1>0. /\ x \in Endpoint /\ r \in Nat /\ w \in Nat /\ h \in Nat /\ w <= h
        /\ \A c \in C : c <= r + w
    BY InboxNumbers
  <1>1. y = [x EXCEPT !.rcv_wnd = h] BY DEF Opened
  <1> SUFFICES /\ OK(y, L, C) /\ Grows(x, y) /\ Drains(x, y) /\ y.got = x.got
               /\ y.readable = x.readable /\ Fares(x, y)
    OBVIOUS
  <1> HIDE DEF y
  <1>2. y \in Endpoint
    <2>1. [x EXCEPT !.rcv_wnd = h] \in Endpoint
      <3> HIDE DEF h
      <3> QED BY <1>0, Zenon DEF Endpoint
    <2> QED BY <2>1, <1>1
  <1>3. Drains(x, y) BY <1>0, <1>1 DEF Endpoint, Drains, Keeps
  <1>4. y.readable = x.readable /\ y.got = x.got /\ y.ahead = x.ahead /\ y.rcv_wnd = h
    BY <1>0, <1>1 DEF Endpoint
  <1>5. Edge(y) = r + h /\ Edge(x) = r + w BY <1>3, <1>4 DEF Drains, Edge
  <1>6. Edge(x) <= Edge(y) /\ Edge(x) \in Nat /\ Edge(y) \in Nat
    <2> HIDE DEF r, h, w
    <2> QED BY <1>0, <1>5
  <1>7. Received(y, C)
    <2>1. Len(x.readable) + h = RcvBuf /\ RcvBuf <= Edge(x) /\ RcvBuf \in Nat
      BY SizesAre DEF OK, Received
    <2>2. RcvBuf <= Edge(y)
      <3> DEFINE m == Edge(x)
                 n == Edge(y)
      <3>1. m <= n /\ m \in Nat /\ n \in Nat /\ RcvBuf <= m BY <1>6, <2>1
      <3> HIDE DEF m, n
      <3>2. RcvBuf <= n BY <2>1, <3>1
      <3> QED BY <3>2 DEF n
    <2>3. \A c \in C : c <= Edge(y)
      <3> SUFFICES ASSUME NEW c \in C PROVE c <= r + h BY <1>5
      <3>1. c <= r + w BY <1>0
      <3>2. c \in Int OBVIOUS
      <3> HIDE DEF r, h, w
      <3> QED BY <3>1, <3>2, <1>0
    <2>4. h <= h BY <1>0
    <2>5. y.rcv_nxt \in C /\ \A i \in 1 .. Len(y.rlist) : y.rlist[i].seq + y.rlist[i].len \in C
      BY <1>3 DEF Drains, OK, Received
    <2> QED BY <2>1, <2>2, <2>3, <2>4, <2>5, <1>4 DEF Received
  <1>8. OK(y, L, C) /\ Grows(x, y) BY <1>2, <1>3, <1>6, <1>7, DrainsOK
  <1>9. Fares(x, y)
    <2>1. Arrived(y) = Arrived(x) BY <1>4 DEF Arrived
    <2>2. Clean(x) => Clean(y) BY <2>1, <1>3, <1>4 DEF Drains, Keeps, Clean, InStep, InPlace
    <2>3. Level(x) => Level(y) BY <2>1, <1>3 DEF Drains, Keeps, Level
    <2> QED BY <2>2, <2>3 DEF Fares
  <1> QED BY <1>3, <1>4, <1>8, <1>9
=============================================================================
