---------------------------- MODULE StatusProofs ----------------------------
(***************************************************************************)
(* What the status evidence keeps, proved for any objects, certificates,   *)
(* keys, clocks and histories, and what the anchored journal keeps, proved *)
(* for any issuers, keys, operators, stages and evidence.                  *)
(*                                                                         *)
(* The reducer: HistoryInv relates the retained state of one issuer to     *)
(* everything it heard.  Compaction may merge and thin the evidence, but   *)
(* leaves for each observation one that stands for it; every way an object *)
(* is decided then leaves a state that has absorbed it or asks for         *)
(* reconciliation.                                                         *)
(*                                                                         *)
(* The journal needs nothing of the reducer: whatever a writer computed,   *)
(* its record reaches the anchor only through the gate of the commit,      *)
(* which validates the transition from the very record it replaces.        *)
(***************************************************************************)
EXTENDS SecurityJournal, StatusHistory, WellFoundedInduction, FiniteSetTheorems,
        SequenceTheorems, TLAPS

-----------------------------------------------------------------------------
(* What the library does not give: extremes, induction along a function,   *)
(* and recursion.                                                          *)

(* A set of numbers that is not empty has a least one (the order on the    *)
(* numbers is well founded).                                               *)
LEMMA LeastExists ==
  ASSUME NEW S, S \subseteq Nat, S # {}
  PROVE  \E x \in S : \A y \in S : x <= y
<1> DEFINE R == {p \in Nat \X Nat : p[1] < p[2]}
<1>1. R = OpToRel(<, Nat)
  BY Zenon DEF OpToRel
<1>2. IsWellFoundedOn(R, Nat)
  BY <1>1, NatLessThanWellFounded, Zenon
<1>3. PICK x \in S : \A y \in S : <<y, x>> \notin R
  <2> HIDE DEF R
  <2> QED
    BY <1>2, WFMin
<1>4. ASSUME NEW y \in S PROVE x <= y
  <2>1. x \in Nat /\ y \in Nat /\ <<y, x>> \in Nat \X Nat /\ <<y, x>>[1] = y /\ <<y, x>>[2] = x
    OBVIOUS
  <2>2. ~(y < x)
    BY <1>3, <2>1, Zenon
  <2> QED
    BY <2>1, <2>2
<1> QED
  BY <1>4

(* Min picks a member.                                                     *)
LEMMA LeastOf ==
  ASSUME NEW S, S \subseteq Nat, S # {}
  PROVE  Min(S) \in S
BY LeastExists DEF Min

(* Max picks a member of a bounded set.                                    *)
LEMMA GreatestOf ==
  ASSUME NEW S, NEW n \in Nat, S \subseteq 0..n, S # {}
  PROVE  Max(S) \in S
<1> DEFINE U == {u \in Nat : \A x \in S : x <= u}
<1>1. n \in U
  OBVIOUS
<1>2. PICK u \in U : \A v \in U : u <= v
  <2> U \subseteq Nat /\ U # {}
    BY <1>1
  <2> HIDE DEF U
  <2> QED
    BY LeastExists
<1>3. u \in S
  <2> SUFFICES ASSUME u \notin S PROVE FALSE
    OBVIOUS
  <2>1. u \in Nat /\ \A x \in S : x \in Nat /\ x < u
    OBVIOUS
  <2>2. PICK x0 \in S : x0 \in Nat /\ x0 < u
    BY <2>1
  <2>3. u - 1 \in Nat
    BY <2>1, <2>2
  <2>4. \A x \in S : x <= u - 1
    BY <2>1
  <2> QED
    BY <1>2, <2>1, <2>3, <2>4
<1> QED
  BY <1>3 DEF Max

(* A function that starts in T[0] and steps from T[k - 1] into T[k] stays  *)
(* in them: the recursions below are taken step by step with it.           *)
LEMMA Induct ==
  ASSUME NEW n \in Nat, NEW g, NEW T, g[0] \in T[0],
         \A k \in 1..n : g[k - 1] \in T[k - 1] => g[k] \in T[k]
  PROVE  \A k \in 0..n : g[k] \in T[k]
<1> DEFINE S == {k \in 0..n : g[k] \notin T[k]}
<1> SUFFICES ASSUME S # {} PROVE FALSE
  OBVIOUS
<1>1. PICK x \in S : \A y \in S : x <= y
  <2> S \subseteq Nat
    OBVIOUS
  <2> HIDE DEF S
  <2> QED
    BY LeastExists
<1>2. x \in 1..n
  OBVIOUS
<1>3. x - 1 \notin S
  BY <1>1, <1>2
<1> QED
  BY <1>2, <1>3

(* f is the first n values of a recursion over T.                          *)
Recurses(f, n, T, base, step) ==
  /\ f \in [0..n -> T]
  /\ f[0] = base /\ \A k \in 1..n : f[k] = step[<<f[k - 1], k>>]

(* A recursion with a total step has such a function, so a recursive       *)
(* function of the model equals its defining equation.                     *)
LEMMA Recursion ==
  ASSUME NEW n \in Nat, NEW T, NEW base \in T, NEW step \in [T \X (1..n) -> T]
  PROVE  \E f : Recurses(f, n, T, base, step)
<1> USE DEF Recurses
<1> DEFINE Upto(m, f) == f[0] = base /\ \A k \in 1..m : f[k] = step[<<f[k - 1], k>>]
           S == {m \in 0..n : ~\E f \in [0..m -> T] : Upto(m, f)}
<1> SUFFICES ASSUME S # {} PROVE FALSE
  OBVIOUS
<1>1. PICK m \in S : \A y \in S : m <= y
  <2> S \subseteq Nat
    OBVIOUS
  <2> HIDE DEF S
  <2> QED
    BY LeastExists
<1>2. m # 0
  <2> [k \in 0..0 |-> base] \in [0..0 -> T] /\ Upto(0, [k \in 0..0 |-> base])
    OBVIOUS
  <2> QED
    BY <1>1
<1>3. PICK f \in [0..(m - 1) -> T] : Upto(m - 1, f)
  <2>1. m \in 0..n /\ m - 1 \in 0..n /\ ~(m <= m - 1)
    BY <1>1, <1>2
  <2>2. m - 1 \notin S
    BY <1>1, <2>1
  <2> QED
    BY <2>1, <2>2
<1> DEFINE h == [k \in 0..m |-> IF k = m THEN step[<<f[m - 1], m>>] ELSE f[k]]
<1>4. h \in [0..m -> T]
  <2>1. <<f[m - 1], m>> \in T \X (1..n)
    BY <1>2, <1>3
  <2>2. step[<<f[m - 1], m>>] \in T
    BY <2>1
  <2> QED
    BY <2>2, <1>3
<1>5. h[0] = base
  BY <1>2, <1>3
<1>6. ASSUME NEW k \in 1..m PROVE h[k] = step[<<h[k - 1], k>>]
  <2>1. m \in Nat /\ k - 1 \in 0..m /\ k - 1 # m
    OBVIOUS
  <2>2. h[k - 1] = f[k - 1]
    BY <2>1
  <2>3. CASE k = m
    <3>1. h[k] = step[<<f[m - 1], m>>]
      BY <2>3
    <3> QED
      BY <2>2, <2>3, <3>1
  <2>4. CASE k # m
    <3>1. k \in 1..(m - 1) /\ h[k] = f[k]
      BY <2>4
    <3> QED
      BY <1>3, <2>2, <3>1
  <2> QED
    BY <2>3, <2>4
<1>7. Upto(m, h)
  BY <1>5, <1>6
<1> QED
  BY <1>1, <1>4, <1>7

-----------------------------------------------------------------------------
(* Compaction.                                                             *)

(* The sequence has o somewhere.                                           *)
Holds(obs, o) == \E i \in 1..Len(obs) : obs[i] = o

(* Inserting in order loses no observation and brings in nothing else.     *)
LEMMA InsertKeeps ==
  ASSUME NEW S, NEW sorted \in Seq(S), NEW o \in S
  PROVE  /\ Insert(sorted, o) \in Seq(S)
         /\ Holds(Insert(sorted, o), o)
         /\ \A x : Holds(sorted, x) => Holds(Insert(sorted, o), x)
<1> DEFINE before == {i \in DOMAIN sorted : ~CompactionBefore(o, sorted[i])}
           c == Cardinality(before)
           head == SubSeq(sorted, 1, (c + 1) - 1)
           tail == SubSeq(sorted, c + 1, Len(sorted))
           r == Insert(sorted, o)
<1>1. c \in Nat /\ c <= Len(sorted)
  <2>1. before \subseteq 1..Len(sorted)
    OBVIOUS
  <2>2. IsFiniteSet(1..Len(sorted)) /\ Cardinality(1..Len(sorted)) = Len(sorted)
    <3>1. Len(sorted) \in Nat
      OBVIOUS
    <3> QED
      BY <3>1, FS_Interval
  <2> HIDE DEF before
  <2> QED
    BY <2>1, <2>2, FS_Subset, FS_CardinalityType
<1>2. r = head \o <<o>> \o tail
  BY DEF Insert, InsertAt
<1> HIDE DEF c, r
<1>3. /\ head \in Seq(S) /\ Len(head) = c /\ \A i \in 1..c : head[i] = sorted[i]
      /\ tail \in Seq(S) /\ Len(tail) = Len(sorted) - c
      /\ \A i \in 1..(Len(sorted) - c) : tail[i] = sorted[c + i]
  BY <1>1
<1> HIDE DEF head, tail
<1>4. /\ r \in Seq(S) /\ Len(r) = Len(sorted) + 1 /\ r[c + 1] = o
      /\ \A i \in 1..c : r[i] = head[i]
      /\ \A i \in 1..(Len(sorted) - c) : r[c + 1 + i] = tail[i]
  <2> DEFINE upto == head \o <<o>>
  <2>1. /\ upto \in Seq(S) /\ Len(upto) = c + 1 /\ upto[c + 1] = o
        /\ \A i \in 1..c : upto[i] = head[i]
    BY <1>1, <1>3
  <2> HIDE DEF upto
  <2>2. r = upto \o tail
    BY <1>2 DEF upto
  <2>3. /\ r \in Seq(S) /\ Len(r) = (c + 1) + (Len(sorted) - c)
        /\ \A i \in 1..(c + 1) : r[i] = upto[i]
    <3>1. ASSUME NEW i \in 1..(c + 1) PROVE r[i] = upto[i]
      BY <1>1, <1>3, <2>1, <2>2
    <3>2. r \in Seq(S)
      BY <1>3, <2>1, <2>2
    <3>3. Len(r) = Len(upto) + Len(tail)
      <4>1. upto \in Seq(S) /\ tail \in Seq(S)
        BY <1>3, <2>1
      <4>2. Len(upto \o tail) = Len(upto) + Len(tail)
        BY <4>1
      <4> QED
        BY <2>2, <4>2
    <3> QED
      BY <1>3, <2>1, <3>1, <3>2, <3>3
  <2>4. ASSUME NEW i \in 1..(Len(sorted) - c) PROVE r[c + 1 + i] = tail[i]
    BY <1>1, <1>3, <2>1, <2>2
  <2> QED
    BY <1>1, <2>1, <2>3, <2>4
<1>5. Holds(r, o)
  BY <1>1, <1>4 DEF Holds
<1>6. ASSUME NEW i \in 1..Len(sorted) PROVE Holds(r, sorted[i])
  <2>1. CASE i <= c
    <3>1. i \in 1..c /\ i \in 1..Len(r) /\ r[i] = sorted[i]
      BY <1>1, <1>3, <1>4, <2>1
    <3> QED
      BY <3>1 DEF Holds
  <2>2. CASE i > c
    <3>1. PICK j \in 1..(Len(sorted) - c) : i = c + j
      <4>1. i - c \in 1..(Len(sorted) - c) /\ i = c + (i - c)
        BY <1>1, <2>2
      <4> QED
        BY <4>1
    <3>2. r[c + 1 + j] = sorted[i]
      BY <1>3, <1>4, <3>1
    <3>3. c + 1 + j \in 1..Len(r)
      BY <1>1, <1>4
    <3> QED
      BY <3>2, <3>3 DEF Holds
  <2> QED
    BY <1>1, <2>1, <2>2
<1>7. \A x : Holds(sorted, x) => Holds(r, x)
  BY <1>6 DEF Holds
<1> QED
  BY <1>4, <1>5, <1>7 DEF r

(* Sorting loses no observation and brings in nothing else (the stable     *)
(* sort compact begins with).                                              *)
LEMMA SortedKeeps ==
  ASSUME NEW S, NEW obs \in Seq(S)
  PROVE  /\ Sorted(obs) \in Seq(S)
         /\ \A x : Holds(obs, x) => Holds(Sorted(obs), x)
<1> DEFINE n == Len(obs)
           step == [p \in Seq(S) \X (1..n) |-> Insert(p[1], obs[p[2]])]
           Def(f) == f = [k \in 0..n |-> IF k = 0 THEN <<>> ELSE Insert(f[k - 1], obs[k])]
           g == CHOOSE f : Def(f)
<1>1. step \in [Seq(S) \X (1..n) -> Seq(S)]
  <2> SUFFICES ASSUME NEW p \in Seq(S) \X (1..n) PROVE Insert(p[1], obs[p[2]]) \in Seq(S)
    OBVIOUS
  <2>1. p[1] \in Seq(S) /\ obs[p[2]] \in S
    OBVIOUS
  <2> QED
    BY <2>1, InsertKeeps
<1>2. n \in Nat /\ <<>> \in Seq(S)
  OBVIOUS
<1>3. PICK f : Recurses(f, n, Seq(S), <<>>, step)
  <2> HIDE DEF step, n
  <2> QED
    BY <1>1, <1>2, Recursion, Zenon
<1> USE DEF Recurses
<1>4. \A k \in 1..n : f[k] = Insert(f[k - 1], obs[k])
  <2> SUFFICES ASSUME NEW k \in 1..n PROVE f[k] = Insert(f[k - 1], obs[k])
    OBVIOUS
  <2>1. n \in Nat /\ k - 1 \in 0..n
    OBVIOUS
  <2>2. f[k - 1] \in Seq(S)
    BY <1>3, <2>1
  <2>3. <<f[k - 1], k>> \in Seq(S) \X (1..n)
    BY <2>2
  <2>4. step[<<f[k - 1], k>>] = Insert(f[k - 1], obs[k])
    BY <2>3
  <2> QED
    BY <1>3, <2>4
<1>5. Def(f)
  <2> HIDE DEF step
  <2> QED
    BY <1>3, <1>4
<1>6. Def(g)
  <2> HIDE DEF Def
  <2> QED
    BY <1>5
<1>7. Sorted(obs) = g[n]
  BY DEF Sorted
<1>8. g[0] = <<>> /\ \A k \in 1..n : g[k] = Insert(g[k - 1], obs[k])
  <2> HIDE DEF g
  <2> QED
    BY <1>2, <1>6
<1> HIDE DEF g
<1> DEFINE T == [k \in 0..n |-> {q \in Seq(S) : \A i \in 1..k : Holds(q, obs[i])}]
<1>9. ASSUME NEW k \in 1..n, g[k - 1] \in T[k - 1] PROVE g[k] \in T[k]
  <2>1. obs[k] \in S /\ k - 1 \in 0..n /\ k \in 0..n
    OBVIOUS
  <2>2. g[k - 1] \in Seq(S) /\ \A i \in 1..(k - 1) : Holds(g[k - 1], obs[i])
    BY <1>9, <2>1
  <2> HIDE DEF T, n
  <2>3. g[k] \in Seq(S) /\ Holds(g[k], obs[k]) /\ \A i \in 1..(k - 1) : Holds(g[k], obs[i])
    <3>1. g[k] = Insert(g[k - 1], obs[k])
      BY <1>8
    <3> QED
      BY <2>1, <2>2, <3>1, InsertKeeps
  <2> USE DEF T
  <2>4. \A i \in 1..k : i = k \/ i \in 1..(k - 1)
    OBVIOUS
  <2> QED
    BY <2>1, <2>3, <2>4
<1>10. \A k \in 0..n : g[k] \in T[k]
  <2>1. g[0] \in T[0]
    BY <1>2, <1>8
  <2> HIDE DEF n, T
  <2> QED
    BY <1>2, <1>9, <2>1, Induct
<1>11. g[n] \in T[n] /\ n \in 0..n
  BY <1>2, <1>10
<1>12. g[n] \in Seq(S) /\ \A i \in 1..n : Holds(g[n], obs[i])
  BY <1>11
<1> QED
  BY <1>7, <1>12 DEF Holds

(* What a signed object holds.                                             *)
LEMMA ObjectTyped ==
  ASSUME NEW o \in Authentic
  PROVE  /\ o.type \in {"list", "push"} /\ o.seq \in Nat /\ o.seq > 0
         /\ o.at \in Int /\ o.revoked \subseteq Certs /\ Body(o).revoked = o.revoked
<1>1. o \in StatusObject
  BY HistoryAssumption
<1>2. o.seq \in Nat \ {0}
  BY <1>1 DEF StatusObject
<1>3. o.seq > 0
  BY <1>2
<1> QED
  BY <1>1, <1>2, <1>3 DEF StatusObject, Body

(* The status keys of the epochs.                                          *)
StatusKeyValues == {StatusKeys[e] : e \in DOMAIN StatusKeys}

(* The observations a state can retain.                                    *)
ObservationType ==
  [type : {"list", "push"}, epoch : DOMAIN StatusKeys, key : StatusKeyValues, seq : Nat \ {0},
   evidence : Authentic, body : {Body(o) : o \in Authentic}, set : SUBSET Certs,
   revoked : SUBSET Certs, future : BOOLEAN, fork : BOOLEAN, gap : BOOLEAN, accepted : BOOLEAN]

(* An observation is of one object: its type, sequence and content are the *)
(* object's, and it claims no revocation the object does not hold.         *)
Faithful(o) ==
  /\ o.evidence.type = o.type /\ o.evidence.seq = o.seq
  /\ o.revoked \subseteq o.evidence.revoked
  /\ o.type = "list" => o.set = o.evidence.revoked
  /\ o.type = "push" => o.body = Body(o.evidence)

(* The observations of heard objects: what they revoke is denied, and      *)
(* those of the current epoch are of objects heard in it.                  *)
Known(denied, objects, epoch) ==
  {o \in ObservationType :
     /\ Faithful(o)
     /\ o.evidence.revoked \subseteq denied
     /\ o.epoch <= epoch
     /\ o.epoch = epoch => o.evidence \in objects}

(* The evidence the accepted set rests on: the accepted base and the       *)
(* pushes accepted after it.                                               *)
Firm(s, o) ==
  \/ IsAcceptedBase(s, o)
  \/ /\ s.snapshot # NoList
     /\ o.epoch = s.status_key_epoch /\ o.type = "push" /\ o.accepted
     /\ o.seq > s.snapshot.seq /\ o.seq <= s.floor

(* What two observations must share to be one: the set of a list, the body *)
(* of a push.                                                              *)
Content(o) == IF o.type = "list" THEN o.set ELSE o.body

(* r may stand for o in the retained evidence: it is of the same content   *)
(* at the same sequence, and if the accepted set rests on o then it rests  *)
(* on r, which holds as much.                                              *)
StandsFor(s, r, o) ==
  /\ r.epoch = o.epoch /\ r.type = o.type /\ r.seq = o.seq /\ Content(r) = Content(o)
  /\ Firm(s, o) => Firm(s, r) /\ o.revoked \subseteq r.revoked

(* A semantic key is that of the observation kept under it.                *)
KeyFits(k, r) == k[1] = r.epoch /\ k[2] = r.type /\ k[3] = r.seq /\ k[4] = Content(r)

(* The accumulator of compact, with each key beside its observation.       *)
Compacting(K) ==
  {a \in [retained : Seq(K), keys : Seq({SemanticKey(o) : o \in K}), witnessed : SUBSET Certs] :
     /\ Len(a.keys) = Len(a.retained)
     /\ \A i \in 1..Len(a.keys) : KeyFits(a.keys[i], a.retained[i])}

(* An observation with other flags, revocations and evidence is one.       *)
LEMMA ObservationWith ==
  ASSUME NEW p \in ObservationType, NEW accepted \in BOOLEAN, NEW fork \in BOOLEAN,
         NEW gap \in BOOLEAN, NEW future \in BOOLEAN, NEW revoked \in SUBSET Certs,
         NEW evidence \in Authentic
  PROVE  [p EXCEPT !.accepted = accepted, !.fork = fork, !.gap = gap, !.future = future,
                   !.revoked = revoked, !.evidence = evidence] \in ObservationType
  BY DEF ObservationType

(* A merged observation is of a heard object and stands for both.          *)
LEMMA MergeKeeps ==
  ASSUME NEW s, NEW D, NEW H, NEW e, NEW p \in Known(D, H, e), NEW o \in Known(D, H, e),
         p.epoch = o.epoch, p.type = o.type, p.seq = o.seq, Content(p) = Content(o)
  PROVE  /\ Merge(s, p, o) \in Known(D, H, e)
         /\ StandsFor(s, Merge(s, p, o), p) /\ StandsFor(s, Merge(s, p, o), o)
         /\ o.revoked \subseteq Merge(s, p, o).revoked
<1> DEFINE base == IsAcceptedBase(s, o)
           g == Merge(s, p, o)
<1>1. base \in BOOLEAN
  BY DEF IsAcceptedBase
<1>2. /\ p \in ObservationType /\ o \in ObservationType /\ Faithful(p) /\ Faithful(o)
      /\ o.evidence.revoked \subseteq D /\ p.evidence.revoked \subseteq D
      /\ p.evidence \in Authentic /\ o.evidence \in Authentic
  BY DEF Known, ObservationType
<1>3. g =
        [p EXCEPT !.accepted = (p.accepted \/ o.accepted) \/ base,
                  !.fork     = p.fork \/ o.fork,
                  !.gap      = (p.gap \/ o.gap) /\ ~(base /\ ~s.reconciliation),
                  !.future   = (p.future \/ o.future) /\ ~(p.accepted \/ o.accepted) /\ ~base,
                  !.revoked  = p.revoked \cup o.revoked,
                  !.evidence = IF base THEN o.evidence ELSE p.evidence]
  BY <1>2 DEF Merge, ObservationType
<1> HIDE DEF base, g
<1>4. g \in ObservationType
  <2> DEFINE accepted == (p.accepted \/ o.accepted) \/ base
             fork == p.fork \/ o.fork
             gap == (p.gap \/ o.gap) /\ ~(base /\ ~s.reconciliation)
             future == (p.future \/ o.future) /\ ~(p.accepted \/ o.accepted) /\ ~base
             evidence == IF base THEN o.evidence ELSE p.evidence
  <2>1. accepted \in BOOLEAN /\ fork \in BOOLEAN /\ gap \in BOOLEAN /\ future \in BOOLEAN
    OBVIOUS
  <2>2. evidence \in Authentic /\ p.revoked \cup o.revoked \in SUBSET Certs
    BY <1>2 DEF ObservationType
  <2> HIDE DEF accepted, fork, gap, future, evidence
  <2>3. g = [p EXCEPT !.accepted = accepted, !.fork = fork, !.gap = gap, !.future = future,
                      !.revoked = p.revoked \cup o.revoked, !.evidence = evidence]
    BY <1>3 DEF accepted, fork, gap, future, evidence
  <2>4. p \in ObservationType
    BY <1>2
  <2>5. [p EXCEPT !.accepted = accepted, !.fork = fork, !.gap = gap, !.future = future,
                  !.revoked = p.revoked \cup o.revoked, !.evidence = evidence] \in ObservationType
    BY <2>1, <2>2, <2>4, ObservationWith, Zenon
  <2> QED
    BY <2>3, <2>5, Zenon
<1>5. /\ g.set = p.set /\ g.body = p.body /\ g.type = p.type
      /\ g.epoch = p.epoch /\ g.seq = p.seq /\ g.revoked = p.revoked \cup o.revoked
      /\ g.evidence = IF base THEN o.evidence ELSE p.evidence
      /\ (p.accepted \/ o.accepted) => g.accepted
  BY <1>2, <1>3 DEF ObservationType
<1>6. p.evidence.revoked = o.evidence.revoked
  <2>1. p.type \in {"list", "push"}
    BY <1>2 DEF ObservationType
  <2>2. CASE p.type = "list"
    BY <1>2, <2>2 DEF Faithful, Content
  <2>3. CASE p.type = "push"
    <3>1. Body(p.evidence) = Body(o.evidence)
      BY <1>2, <2>3 DEF Faithful, Content
    <3> QED
      BY <1>2, <3>1, ObjectTyped
  <2> QED
    BY <2>1, <2>2, <2>3
<1>7. Faithful(g)
  <2>1. base => o.type = "list"
    BY DEF base, IsAcceptedBase
  <2>2. CASE base
    BY <1>2, <1>5, <1>6, <2>1, <2>2 DEF Faithful, Content
  <2>3. CASE ~base
    BY <1>2, <1>5, <1>6, <2>3 DEF Faithful
  <2> QED
    BY <2>2, <2>3
<1>8. g \in Known(D, H, e)
  BY <1>2, <1>4, <1>5, <1>7 DEF Known
<1>9. Content(g) = Content(p)
  BY <1>5 DEF Content
<1>10. Firm(s, p) => Firm(s, g)
  <2>1. CASE base
    BY <1>5, <2>1 DEF Firm, base, IsAcceptedBase
  <2>2. CASE ~base
    BY <1>5, <2>2 DEF Firm, IsAcceptedBase
  <2> QED
    BY <2>1, <2>2
<1>11. Firm(s, o) => Firm(s, g)
  <2>1. CASE base
    BY <1>5, <2>1 DEF Firm, base, IsAcceptedBase
  <2>2. CASE ~base
    BY <1>5, <2>2 DEF Firm, base
  <2> QED
    BY <2>1, <2>2
<1> QED
  BY <1>5, <1>8, <1>9, <1>10, <1>11 DEF StandsFor, g

(* Some observation of the sequence stands for o.                          *)
Stands(s, obs, o) == \E j \in 1..Len(obs) : StandsFor(s, obs[j], o)

(* Standing for is transitive.                                             *)
LEMMA StandsTransitive ==
  ASSUME NEW s, NEW x, NEW y, NEW z, StandsFor(s, x, y), StandsFor(s, y, z)
  PROVE  StandsFor(s, x, z)
BY DEF StandsFor

(* An observation that need not be retained and is not the base can give   *)
(* up the revocations others witness: it still stands for itself, as       *)
(* nothing accepted rests on it.                                           *)
LEMMA ReducedKeeps ==
  ASSUME NEW s, NEW D, NEW H, NEW e, NEW o \in Known(D, H, e), NEW w,
         ~(IsAcceptedBase(s, o) \/ MustRetain(s, o))
  PROVE  /\ [o EXCEPT !.revoked = @ \ w] \in Known(D, H, e)
         /\ StandsFor(s, [o EXCEPT !.revoked = @ \ w], o)
<1> DEFINE r == [o EXCEPT !.revoked = o.revoked \ w]
<1>1. o \in ObservationType
  BY DEF Known
<1>2. r \in ObservationType
  BY <1>1 DEF ObservationType
<1>3. /\ r.epoch = o.epoch /\ r.type = o.type /\ r.seq = o.seq /\ r.set = o.set
      /\ r.body = o.body /\ r.evidence = o.evidence /\ r.accepted = o.accepted
      /\ r.revoked = o.revoked \ w
  BY <1>1 DEF ObservationType
<1> HIDE DEF r
<1>4. r \in Known(D, H, e)
  BY <1>2, <1>3 DEF Known, Faithful
<1>5. ~Firm(s, o)
  BY DEF Firm, MustRetain
<1>6. StandsFor(s, r, o)
  BY <1>3, <1>5 DEF StandsFor, Content
<1> QED
  BY <1>4, <1>6 DEF r

(* A step of compact keeps the accumulator in order, keeps something that  *)
(* stands for the observation it takes in, and lets go of nothing kept.    *)
LEMMA CompactStepKeeps ==
  ASSUME NEW s, NEW D, NEW H, NEW e, NEW o \in Known(D, H, e),
         NEW a \in Compacting(Known(D, H, e))
  PROVE  /\ CompactStep(s, a, o) \in Compacting(Known(D, H, e))
         /\ Stands(s, CompactStep(s, a, o).retained, o)
         /\ \A x : Stands(s, a.retained, x) => Stands(s, CompactStep(s, a, o).retained, x)
<1> DEFINE K  == Known(D, H, e)
           Q  == {SemanticKey(x) : x \in K}
           ob == IF IsAcceptedBase(s, o) \/ MustRetain(s, o)
                   THEN o ELSE [o EXCEPT !.revoked = @ \ a.witnessed]
           I  == {j \in 1..Len(a.keys) : a.keys[j] = SemanticKey(ob)}
           i  == IF I # {} THEN Min(I) ELSE 0
           w  == a.witnessed \cup o.revoked
           r  == CompactStep(s, a, o)
<1>1. ob \in K /\ StandsFor(s, ob, o)
  BY ReducedKeeps DEF StandsFor
<1>2. /\ a.retained \in Seq(K) /\ a.keys \in Seq(Q) /\ a.witnessed \subseteq Certs
      /\ Len(a.keys) = Len(a.retained)
      /\ \A j \in 1..Len(a.keys) : KeyFits(a.keys[j], a.retained[j])
      /\ a \in [retained : Seq(K), keys : Seq(Q), witnessed : SUBSET Certs]
  BY DEF Compacting
<1>3. w \subseteq Certs
  BY <1>2 DEF Known, ObservationType
<1>4. i # 0 => i \in 1..Len(a.keys) /\ a.keys[i] = SemanticKey(ob)
  <2>1. I \subseteq 1..Len(a.keys) /\ I \subseteq Nat
    OBVIOUS
  <2>2. I # {} => Min(I) \in I
    <3> HIDE DEF I
    <3> QED
      BY <2>1, LeastOf
  <2> QED
    BY <2>2
<1>5. r = IF i # 0 THEN [a EXCEPT !.retained[i] = Merge(s, @, ob), !.witnessed = w]
          ELSE [retained |-> Append(a.retained, ob),
                keys |-> Append(a.keys, SemanticKey(ob)), witnessed |-> w]
  BY DEF CompactStep, SelectInSeq
<1>6. ASSUME NEW x, StandsFor(s, x, ob) PROVE StandsFor(s, x, o)
  BY <1>1, <1>6, StandsTransitive
<1>7. KeyFits(SemanticKey(ob), ob)
  BY DEF KeyFits, SemanticKey, Content
<1> HIDE DEF K, ob, w, i, r
<1>8. CASE i # 0
  <2> DEFINE p == a.retained[i]
             g == Merge(s, p, ob)
             q == [a.retained EXCEPT ![i] = g]
  <2>1. p \in K /\ KeyFits(a.keys[i], p) /\ i \in 1..Len(a.retained)
    BY <1>2, <1>4, <1>8
  <2>2. /\ p.epoch = ob.epoch /\ p.type = ob.type /\ p.seq = ob.seq /\ Content(p) = Content(ob)
    BY <1>4, <1>7, <1>8, <2>1 DEF KeyFits
  <2>3. /\ g \in K /\ StandsFor(s, g, p) /\ StandsFor(s, g, ob)
    BY <1>1, <2>1, <2>2, MergeKeeps DEF K
  <2>4. KeyFits(a.keys[i], g)
    BY <2>1, <2>3 DEF KeyFits, StandsFor
  <2> HIDE DEF p, g
  <2>5. /\ q \in Seq(K) /\ Len(q) = Len(a.retained)
        /\ \A j \in 1..Len(a.retained) : q[j] = IF j = i THEN g ELSE a.retained[j]
    BY <1>2, <2>1, <2>3, ExceptSeq
  <2>6. r = [a EXCEPT !.retained = q, !.witnessed = w]
    BY <1>2, <1>5, <1>8 DEF p, g
  <2> HIDE DEF q, Q
  <2>7. r.retained = q /\ r.keys = a.keys
        /\ r \in [retained : Seq(K), keys : Seq(Q), witnessed : SUBSET Certs]
    BY <1>2, <1>3, <2>5, <2>6
  <2>8. r \in Compacting(K)
    BY <1>2, <2>4, <2>5, <2>7 DEF Compacting, Q
  <2>9. Stands(s, r.retained, o)
    <3>1. StandsFor(s, q[i], o)
      BY <1>6, <2>1, <2>3, <2>5
    <3> QED
      BY <2>1, <2>5, <2>7, <3>1 DEF Stands
  <2>10. ASSUME NEW x, Stands(s, a.retained, x) PROVE Stands(s, r.retained, x)
    <3>1. PICK j \in 1..Len(a.retained) : StandsFor(s, a.retained[j], x)
      BY <2>10 DEF Stands
    <3>2. StandsFor(s, q[j], x)
      <4>1. CASE j = i
        BY <2>3, <2>5, <3>1, <4>1, StandsTransitive DEF p
      <4>2. CASE j # i
        BY <2>5, <3>1, <4>2
      <4> QED
        BY <4>1, <4>2
    <3> QED
      BY <2>5, <2>7, <3>2 DEF Stands
  <2> QED
    BY <2>8, <2>9, <2>10 DEF K, r
<1>9. CASE i = 0
  <2> DEFINE n == Len(a.retained)
             q == Append(a.retained, ob)
             ks == Append(a.keys, SemanticKey(ob))
  <2>1. SemanticKey(ob) \in Q
    BY <1>1
  <2> HIDE DEF Q
  <2>2. /\ q \in Seq(K) /\ ks \in Seq(Q) /\ Len(q) = n + 1 /\ Len(ks) = n + 1 /\ n \in Nat
        /\ q[n + 1] = ob /\ ks[n + 1] = SemanticKey(ob)
        /\ \A j \in 1..n : q[j] = a.retained[j] /\ ks[j] = a.keys[j]
    BY <1>1, <1>2, <2>1
  <2>3. r = [retained |-> q, keys |-> ks, witnessed |-> w]
    BY <1>5, <1>9
  <2> HIDE DEF q, ks, n
  <2>4. r.retained = q /\ r.keys = ks
        /\ r \in [retained : Seq(K), keys : Seq(Q), witnessed : SUBSET Certs]
    BY <1>3, <2>2, <2>3
  <2>5. ASSUME NEW j \in 1..(n + 1) PROVE KeyFits(ks[j], q[j])
    <3>1. j = n + 1 \/ j \in 1..n
      BY <2>2
    <3> QED
      BY <1>2, <1>7, <2>2, <3>1 DEF n
  <2>6. r \in Compacting(K)
    BY <2>2, <2>4, <2>5 DEF Compacting, Q
  <2>7. Stands(s, r.retained, o)
    <3>1. n + 1 \in 1..Len(q)
      BY <2>2
    <3> QED
      BY <1>1, <2>2, <2>4, <3>1 DEF Stands
  <2>8. ASSUME NEW x, Stands(s, a.retained, x) PROVE Stands(s, r.retained, x)
    <3>1. PICK j \in 1..n : StandsFor(s, a.retained[j], x)
      BY <2>8 DEF Stands, n
    <3>2. j \in 1..Len(q) /\ StandsFor(s, q[j], x)
      BY <2>2, <3>1
    <3> QED
      BY <2>4, <3>2 DEF Stands
  <2> QED
    BY <2>6, <2>7, <2>8 DEF K, r
<1> QED
  BY <1>8, <1>9

(* Whatever it is given, compact retains something for it.                 *)
LEMMA RetainedKeeps ==
  ASSUME NEW s, NEW D, NEW H, NEW e, NEW obs \in Seq(Known(D, H, e))
  PROVE  /\ Retained(s, obs) \in Seq(Known(D, H, e))
         /\ \A i \in 1..Len(obs) : Stands(s, Retained(s, obs), obs[i])
<1> DEFINE K == Known(D, H, e)
           T == Compacting(K)
           n == Len(obs)
           step == [p \in T \X (1..n) |-> CompactStep(s, p[1], obs[p[2]])]
           Def(f) == f = [k \in 0..n |-> IF k = 0 THEN NothingRetained
                                         ELSE CompactStep(s, f[k - 1], obs[k])]
           g == CHOOSE f : Def(f)
<1>1. step \in [T \X (1..n) -> T]
  <2> SUFFICES ASSUME NEW p \in T \X (1..n) PROVE CompactStep(s, p[1], obs[p[2]]) \in T
    OBVIOUS
  <2>1. p[1] \in T /\ obs[p[2]] \in K
    OBVIOUS
  <2> QED
    BY <2>1, CompactStepKeeps
<1>2. n \in Nat /\ NothingRetained \in T
  BY DEF Compacting, NothingRetained
<1>3. PICK f : Recurses(f, n, T, NothingRetained, step)
  <2> HIDE DEF step, n, T
  <2> QED
    BY <1>1, <1>2, Recursion, Zenon
<1> USE DEF Recurses
<1>4. \A k \in 1..n : f[k] = CompactStep(s, f[k - 1], obs[k])
  <2> SUFFICES ASSUME NEW k \in 1..n PROVE f[k] = CompactStep(s, f[k - 1], obs[k])
    OBVIOUS
  <2>1. n \in Nat /\ k - 1 \in 0..n
    OBVIOUS
  <2> HIDE DEF T
  <2>2. f[k - 1] \in T
    BY <1>3, <2>1
  <2>3. <<f[k - 1], k>> \in T \X (1..n)
    BY <2>2
  <2>4. step[<<f[k - 1], k>>] = CompactStep(s, f[k - 1], obs[k])
    BY <2>3
  <2> QED
    BY <1>3, <2>4
<1>5. Def(f)
  <2> HIDE DEF step, T
  <2> QED
    BY <1>3, <1>4
<1>6. Def(g)
  <2> HIDE DEF Def
  <2> QED
    BY <1>5
<1>7. Retained(s, obs) = g[n].retained
  BY DEF Retained
<1>8. g[0] = NothingRetained /\ \A k \in 1..n : g[k] = CompactStep(s, g[k - 1], obs[k])
  <2> HIDE DEF g
  <2> QED
    BY <1>2, <1>6
<1> DEFINE U == [k \in 0..n |-> {q \in T : \A i \in 1..k : Stands(s, q.retained, obs[i])}]
<1> HIDE DEF g, T
<1>9. ASSUME NEW k \in 1..n, g[k - 1] \in U[k - 1] PROVE g[k] \in U[k]
  <2>1. obs[k] \in K /\ k - 1 \in 0..n /\ k \in 0..n
    OBVIOUS
  <2>2. g[k - 1] \in T /\ \A i \in 1..(k - 1) : Stands(s, g[k - 1].retained, obs[i])
    BY <1>9, <2>1
  <2> HIDE DEF U, n
  <2>3. /\ g[k] \in T /\ Stands(s, g[k].retained, obs[k])
        /\ \A i \in 1..(k - 1) : Stands(s, g[k].retained, obs[i])
    <3>1. g[k] = CompactStep(s, g[k - 1], obs[k])
      BY <1>8
    <3> QED
      BY <2>1, <2>2, <3>1, CompactStepKeeps DEF T
  <2>4. \A i \in 1..k : i = k \/ i \in 1..(k - 1)
    OBVIOUS
  <2> QED
    BY <2>1, <2>3, <2>4 DEF U
<1>10. \A k \in 0..n : g[k] \in U[k]
  <2>1. g[0] \in U[0]
    BY <1>2, <1>8
  <2> HIDE DEF n, U
  <2> QED
    BY <1>2, <1>9, <2>1, Induct
<1>11. g[n] \in U[n] /\ n \in 0..n
  BY <1>2, <1>10
<1>12. g[n] \in T /\ \A i \in 1..n : Stands(s, g[n].retained, obs[i])
  BY <1>11
<1> QED
  BY <1>7, <1>12 DEF T, Compacting

(* Clearing the gap of the accepted base changes nothing else.             *)
LEMMA ClearBaseGapKeeps ==
  ASSUME NEW s, NEW D, NEW H, NEW e, NEW obs \in Seq(Known(D, H, e))
  PROVE  /\ ClearBaseGap(s, obs) \in Seq(Known(D, H, e))
         /\ \A x : Stands(s, obs, x) => Stands(s, ClearBaseGap(s, obs), x)
<1> DEFINE K == Known(D, H, e)
           I == {j \in 1..Len(obs) : IsAcceptedBase(s, obs[j]) /\ obs[j].accepted /\ ~obs[j].future}
           i == IF I # {} THEN Min(I) ELSE 0
<1>1. i # 0 => i \in 1..Len(obs)
  <2>1. I \subseteq 1..Len(obs) /\ I \subseteq Nat
    OBVIOUS
  <2> HIDE DEF I
  <2> QED
    BY <2>1, LeastOf
<1>2. ClearBaseGap(s, obs) =
        IF s.reconciliation \/ i = 0 THEN obs ELSE [obs EXCEPT ![i].gap = FALSE]
  BY DEF ClearBaseGap, SelectInSeq
<1> HIDE DEF i
<1>3. CASE ~s.reconciliation /\ i # 0
  <2> DEFINE p == obs[i]
             g == [p EXCEPT !.gap = FALSE]
             q == [obs EXCEPT ![i] = g]
  <2>1. p \in K
    BY <1>1, <1>3
  <2>2. p \in ObservationType
    BY <2>1 DEF Known
  <2>3. g \in ObservationType
    BY <2>2 DEF ObservationType
  <2>4. /\ g.epoch = p.epoch /\ g.type = p.type /\ g.seq = p.seq /\ g.set = p.set
        /\ g.body = p.body /\ g.evidence = p.evidence /\ g.accepted = p.accepted
        /\ g.revoked = p.revoked
    BY <2>2 DEF ObservationType
  <2>5. ClearBaseGap(s, obs) = q
    BY <1>2, <1>3
  <2> HIDE DEF g, p
  <2>6. g \in K
    BY <2>1, <2>3, <2>4 DEF Known, Faithful
  <2>7. StandsFor(s, g, p)
    BY <2>4 DEF StandsFor, Content, Firm, IsAcceptedBase
  <2>8. /\ q \in Seq(K) /\ Len(q) = Len(obs)
        /\ \A j \in 1..Len(obs) : q[j] = IF j = i THEN g ELSE obs[j]
    BY <1>1, <1>3, <2>6, ExceptSeq
  <2> HIDE DEF q
  <2>9. ASSUME NEW x, Stands(s, obs, x) PROVE Stands(s, q, x)
    <3>1. PICK j \in 1..Len(obs) : StandsFor(s, obs[j], x)
      BY <2>9 DEF Stands
    <3>2. StandsFor(s, q[j], x)
      <4>1. CASE j = i
        BY <2>7, <2>8, <3>1, <4>1, StandsTransitive DEF p
      <4>2. CASE j # i
        BY <2>8, <3>1, <4>2
      <4> QED
        BY <4>1, <4>2
    <3> QED
      BY <2>8, <3>2 DEF Stands
  <2> QED
    BY <2>5, <2>8, <2>9
<1>4. CASE ~(~s.reconciliation /\ i # 0)
  BY <1>2, <1>4
<1> QED
  BY <1>3, <1>4

(* Compaction (sort, merge, clear): the observations stay those of heard   *)
(* objects, and each has one left that stands for it.                      *)
LEMMA CompactedKeeps ==
  ASSUME NEW s, NEW D, NEW H, NEW e, NEW obs \in Seq(Known(D, H, e)),
         NEW r, r = ClearBaseGap(s, Retained(s, Sorted(obs)))
  PROVE  /\ r \in Seq(Known(D, H, e))
         /\ \A x \in ToSet(obs) : \E y \in ToSet(r) : StandsFor(s, y, x)
<1> DEFINE K == Known(D, H, e)
           a == Sorted(obs)
           b == Retained(s, a)
<1>1. a \in Seq(K) /\ \A x : Holds(obs, x) => Holds(a, x)
  BY SortedKeeps
<1> HIDE DEF a
<1>2. b \in Seq(K) /\ \A i \in 1..Len(a) : Stands(s, b, a[i])
  BY <1>1, RetainedKeeps
<1> HIDE DEF b
<1>3. r \in Seq(K) /\ \A x : Stands(s, b, x) => Stands(s, r, x)
  BY <1>2, ClearBaseGapKeeps DEF a, b
<1>4. ASSUME NEW x \in ToSet(obs) PROVE \E y \in ToSet(r) : StandsFor(s, y, x)
  <2>1. Holds(obs, x)
    BY DEF ToSet, Holds
  <2>2. PICK i \in 1..Len(a) : a[i] = x
    BY <1>1, <2>1 DEF Holds
  <2>3. Stands(s, r, x)
    BY <1>2, <1>3, <2>2
  <2>4. PICK j \in 1..Len(r) : StandsFor(s, r[j], x)
    BY <2>3 DEF Stands
  <2>5. r[j] \in ToSet(r)
    BY <1>3 DEF ToSet
  <2> QED
    BY <2>4, <2>5
<1> QED
  BY <1>3, <1>4

-----------------------------------------------------------------------------
(* What the state is worth: the invariant, and what the parts of a         *)
(* reduction keep.                                                         *)

(* The states of one issuer.                                               *)
StatusType ==
  [status_key_epoch : DOMAIN StatusKeys, status_key : StatusKeyValues,
   retired : SUBSET StatusKeyValues, floor : Nat, snapshot : Authentic \cup {NoList},
   accepted : SUBSET Certs, preceding_floor : Nat, preceding_accepted : SUBSET Certs,
   deny_union : SUBSET Certs, observations : Seq(ObservationType), max_observed : Nat,
   fork_sequence : Nat, reconciliation : BOOLEAN, future_observed : BOOLEAN]

(* The state is of the objects H heard in its epoch: its evidence is       *)
(* theirs, max_observed and deny_union cover them, and a floor rests on a  *)
(* list among them.                                                        *)
Consistent(s, H) ==
  /\ s \in StatusType
  /\ H \subseteq Authentic
  /\ s.observations \in Seq(Known(s.deny_union, H, s.status_key_epoch))
  /\ \A h \in H : h.seq <= s.max_observed /\ h.revoked \subseteq s.deny_union
  /\ s.floor <= s.max_observed /\ s.fork_sequence <= s.max_observed
  /\ s.floor > 0 <=> s.snapshot # NoList
  /\ s.floor > 0 => s.snapshot \in H /\ s.snapshot.type = "list" /\ s.snapshot.seq <= s.floor
  /\ s.future_observed => s.reconciliation

(* Every list heard in this epoch has an observation with its set.         *)
Observed(s, H) ==
  \A h \in H : h.type = "list" =>
    \E o \in ToSet(s.observations) :
      /\ o.epoch = s.status_key_epoch /\ o.type = "list"
      /\ o.seq = h.seq /\ o.set = h.revoked

(* Every accepted revocation has firm evidence.                            *)
Covered(s) ==
  s.floor > 0 =>
    \A c \in s.accepted : \E o \in ToSet(s.observations) : Firm(s, o) /\ c \in o.revoked

(* While no reconciliation is wanted, everything heard is in the accepted  *)
(* set, and no list at the snapshot's sequence and no push at or below it  *)
(* contradicts the snapshot.                                               *)
Settled(s, H) ==
  s.floor > 0 /\ ~s.reconciliation =>
    \A h \in H :
      /\ h.revoked \subseteq s.accepted
      /\ h.type = "list" /\ h.seq = s.snapshot.seq => h.revoked = s.snapshot.revoked
      /\ h.type = "push" /\ h.seq <= s.snapshot.seq => h.revoked \subseteq s.snapshot.revoked

(* t is s after it took in what makes its denials D, its highest sequence  *)
(* m and its history H.                                                    *)
Took(t, s, D, m, H) ==
  /\ Consistent(t, H)
  /\ t.status_key_epoch = s.status_key_epoch /\ t.status_key = s.status_key
  /\ t.deny_union = D /\ t.max_observed = m

(* The greater of two numbers.                                             *)
Higher(a, b) == IF a >= b THEN a ELSE b

(* It is what Max gives for the pair.                                      *)
LEMMA MaxOfTwo ==
  ASSUME NEW a \in Nat, NEW b \in Nat
  PROVE  Max({a, b}) = Higher(a, b)
<1>1. \E x \in {a, b} : \A y \in {a, b} : x >= y
  OBVIOUS
<1>2. Max({a, b}) \in {a, b} /\ \A y \in {a, b} : Max({a, b}) >= y
  BY <1>1 DEF Max
<1> QED
  BY <1>2 DEF Higher

(* A floor rests on a list that was heard.                                 *)
LEMMA SnapshotTyped ==
  ASSUME NEW s, NEW H, Consistent(s, H), s.floor > 0
  PROVE  /\ s.snapshot \in H /\ s.snapshot \in Authentic /\ s.snapshot.seq \in Nat
         /\ s.snapshot.seq <= s.max_observed /\ s.snapshot.seq <= s.floor
         /\ s.snapshot.type = "list"
<1>1. s.snapshot \in H /\ s.snapshot \in Authentic
  BY DEF Consistent
<1> QED
  BY <1>1, ObjectTyped DEF Consistent

(* What is known stays known when more is denied and heard.                *)
LEMMA KnownGrows ==
  ASSUME NEW D, NEW D2, D \subseteq D2, NEW H, NEW H2, H \subseteq H2, NEW e,
         NEW obs \in Seq(Known(D, H, e))
  PROVE  obs \in Seq(Known(D2, H2, e))
<1>1. Known(D, H, e) \subseteq Known(D2, H2, e)
  BY DEF Known
<1> QED
  BY <1>1

(* Known observations have their type.                                     *)
LEMMA KnownTyped ==
  ASSUME NEW D, NEW H, NEW e, NEW obs \in Seq(Known(D, H, e))
  PROVE  obs \in Seq(ObservationType)
<1>1. Known(D, H, e) \subseteq ObservationType
  BY DEF Known
<1> QED
  BY <1>1

(* Every retained observation is of a heard object.                        *)
LEMMA KnownAt ==
  ASSUME NEW s, NEW H, Consistent(s, H), NEW o \in ToSet(s.observations)
  PROVE  o \in Known(s.deny_union, H, s.status_key_epoch)
BY DEF Consistent, ToSet

(* r is o with other flags.                                                *)
Flagged(o, r) ==
  /\ r.epoch = o.epoch /\ r.type = o.type /\ r.seq = o.seq /\ r.set = o.set
  /\ r.revoked = o.revoked /\ r.evidence = o.evidence

(* The flags of an observation do not touch what it is of.                 *)
LEMMA FlagsKeep ==
  ASSUME NEW D, NEW H, NEW e, NEW o \in Known(D, H, e), NEW b \in BOOLEAN
  PROVE  /\ [o EXCEPT !.gap = b] \in Known(D, H, e) /\ Flagged(o, [o EXCEPT !.gap = b])
         /\ [o EXCEPT !.fork = b] \in Known(D, H, e) /\ Flagged(o, [o EXCEPT !.fork = b])
         /\ [o EXCEPT !.accepted = b] \in Known(D, H, e)
         /\ Flagged(o, [o EXCEPT !.accepted = b]) /\ [o EXCEPT !.accepted = b].accepted = b
BY DEF Known, ObservationType, Faithful, Flagged

(* What the reducer notes of an object is known.                           *)
LEMMA ObservationKnown ==
  ASSUME NEW s \in StatusType, NEW D, NEW H, NEW o \in Authentic, o \in H, NEW time,
         NEW fork \in BOOLEAN, o.revoked \subseteq D
  PROVE  /\ [Observation(s, o, time) EXCEPT !.fork = fork] \in Known(D, H, s.status_key_epoch)
         /\ Flagged(Observation(s, o, time), [Observation(s, o, time) EXCEPT !.fork = fork])
         /\ [Observation(s, o, time) EXCEPT !.fork = fork].fork = fork
<1>1. /\ s.status_key_epoch \in DOMAIN StatusKeys /\ s.status_key_epoch \in Nat
      /\ s.status_key \in StatusKeyValues
  BY HistoryAssumption DEF StatusType
<1>2. o \in StatusObject
  BY HistoryAssumption
<1>3. BeyondSkew(o.at, time) \in BOOLEAN
  BY DEF BeyondSkew
<1>4. Body(o) \in {Body(x) : x \in Authentic}
  BY ObjectTyped
<1> DEFINE f == BeyondSkew(o.at, time)
           b == Body(o)
           bodies == {Body(x) : x \in Authentic}
           ob == [type |-> o.type, epoch |-> s.status_key_epoch, key |-> s.status_key,
                  seq |-> o.seq,
                  evidence |-> o, body |-> b, set |-> o.revoked, revoked |-> o.revoked,
                  future |-> f, fork |-> FALSE, gap |-> FALSE, accepted |-> FALSE]
<1>5. Observation(s, o, time) = ob
  BY DEF Observation
<1>6. b \in bodies /\ f \in BOOLEAN
  BY <1>3, <1>4
<1>7. ObservationType =
        [type : {"list", "push"}, epoch : DOMAIN StatusKeys, key : StatusKeyValues, seq : Nat \ {0},
         evidence : Authentic, body : bodies, set : SUBSET Certs, revoked : SUBSET Certs,
         future : BOOLEAN, fork : BOOLEAN, gap : BOOLEAN, accepted : BOOLEAN]
  BY DEF ObservationType
<1> HIDE DEF f, b, bodies
<1>8. ob \in ObservationType
  BY <1>1, <1>2, <1>6, <1>7 DEF StatusObject
<1>9. /\ ob.revoked = o.revoked /\ ob.set = o.revoked /\ ob.evidence = o
      /\ ob.body = b /\ ob.epoch = s.status_key_epoch /\ ob.seq = o.seq /\ ob.type = o.type
  OBVIOUS
<1> HIDE DEF ob
<1>10. ob \in Known(D, H, s.status_key_epoch)
  <2>1. Faithful(ob)
    BY <1>9 DEF Faithful, b
  <2> QED
    BY <1>1, <1>8, <1>9, <2>1 DEF Known
<1>11. [ob EXCEPT !.fork = fork].fork = fork
  BY <1>8 DEF ObservationType
<1> QED
  BY <1>5, <1>10, <1>11, FlagsKeep

(* What the reducer notes of an object.                                    *)
LEMMA ObservationOf ==
  ASSUME NEW s, NEW o, NEW time
  PROVE  LET ob == Observation(s, o, time)
         IN  /\ ob.epoch = s.status_key_epoch /\ ob.type = o.type /\ ob.seq = o.seq
             /\ ob.set = o.revoked /\ ob.revoked = o.revoked /\ ob.evidence = o
BY DEF Observation

(* The accepted state of t is that of s.                                   *)
SameBase(t, s) ==
  /\ t.floor = s.floor /\ t.snapshot = s.snapshot /\ t.accepted = s.accepted
  /\ t.status_key_epoch = s.status_key_epoch

(* Recording an observation adds it and changes nothing else.              *)
LEMMA RecordKeeps ==
  ASSUME NEW s, NEW t, NEW D, NEW m, NEW H, Took(t, s, D, m, H),
         NEW o \in Known(D, H, s.status_key_epoch)
  PROVE  /\ Took(Record(t, o), s, D, m, H)
         /\ ToSet(Record(t, o).observations) = ToSet(t.observations) \cup {o}
         /\ SameBase(Record(t, o), t) /\ Record(t, o).reconciliation = t.reconciliation
<1>1. t \in StatusType /\ t.observations \in Seq(Known(D, H, s.status_key_epoch))
  BY DEF Took, Consistent
<1> DEFINE obs == Append(t.observations, o)
           n == Len(t.observations)
<1>2. /\ obs \in Seq(Known(D, H, s.status_key_epoch)) /\ Len(obs) = n + 1 /\ n \in Nat
      /\ \A i \in 1..n : obs[i] = t.observations[i]
      /\ obs[n + 1] = o
  BY <1>1
<1>3. ToSet(obs) = ToSet(t.observations) \cup {o}
  <2>1. DOMAIN obs = 1..(n + 1) /\ DOMAIN t.observations = 1..n
    BY <1>1, <1>2
  <2>2. \A i \in 1..(n + 1) : i \in 1..n \/ i = n + 1
    BY <1>2
  <2>3. \A i \in 1..n : i \in 1..(n + 1)
    BY <1>2
  <2>4. n + 1 \in 1..(n + 1)
    BY <1>2
  <2> HIDE DEF obs, n
  <2> QED
    BY <1>2, <2>1, <2>2, <2>3, <2>4 DEF ToSet
<1>4. obs \in Seq(ObservationType)
  BY <1>2, KnownTyped
<1>5. Record(t, o) = [t EXCEPT !.observations = obs]
  BY <1>1 DEF Record, StatusType
<1> HIDE DEF obs
<1>6. /\ Record(t, o) \in StatusType /\ Record(t, o).observations = obs
      /\ Record(t, o).floor = t.floor /\ Record(t, o).snapshot = t.snapshot
      /\ Record(t, o).accepted = t.accepted /\ Record(t, o).status_key_epoch = t.status_key_epoch
      /\ Record(t, o).status_key = t.status_key /\ Record(t, o).deny_union = t.deny_union
      /\ Record(t, o).max_observed = t.max_observed /\ Record(t, o).fork_sequence = t.fork_sequence
      /\ Record(t, o).reconciliation = t.reconciliation
      /\ Record(t, o).future_observed = t.future_observed
  BY <1>1, <1>4, <1>5 DEF StatusType
<1> HIDE DEF n
<1>7. Took(Record(t, o), s, D, m, H)
  BY <1>2, <1>6 DEF Took, Consistent
<1> QED
  BY <1>3, <1>6, <1>7 DEF SameBase

(* Compacting a state keeps everything the invariant says of it.           *)
LEMMA CompactKeeps ==
  ASSUME NEW s, NEW t, NEW D, NEW m, NEW H, Took(t, s, D, m, H)
  PROVE  /\ Took(Compact(t), s, D, m, H)
         /\ Observed(t, H) => Observed(Compact(t), H)
         /\ Covered(t) => Covered(Compact(t))
         /\ Settled(t, H) => Settled(Compact(t), H)
<1> DEFINE obs == ClearBaseGap(t, Retained(t, Sorted(t.observations)))
           r == Compact(t)
<1>1. t \in StatusType
  BY DEF Took, Consistent
<1>2. r = [t EXCEPT !.observations = obs]
  BY <1>1 DEF Compact, StatusType
<1>3. t.observations \in Seq(Known(D, H, t.status_key_epoch))
  BY DEF Took, Consistent
<1>4. /\ obs \in Seq(Known(D, H, t.status_key_epoch))
      /\ \A x \in ToSet(t.observations) : \E y \in ToSet(obs) : StandsFor(t, y, x)
  <2>1. obs = ClearBaseGap(t, Retained(t, Sorted(t.observations)))
    OBVIOUS
  <2> HIDE DEF obs, r
  <2> QED
    BY <1>3, <2>1, CompactedKeeps, Zenon
<1>5. obs \in Seq(ObservationType)
  BY <1>4, KnownTyped
<1> HIDE DEF obs, r
<1>6. /\ r \in StatusType /\ r.observations = obs
      /\ r.floor = t.floor /\ r.snapshot = t.snapshot
      /\ r.accepted = t.accepted /\ r.status_key_epoch = t.status_key_epoch
      /\ r.status_key = t.status_key /\ r.deny_union = t.deny_union
      /\ r.max_observed = t.max_observed /\ r.fork_sequence = t.fork_sequence
      /\ r.reconciliation = t.reconciliation /\ r.future_observed = t.future_observed
  BY <1>1, <1>2, <1>5 DEF StatusType
<1>7. Took(r, s, D, m, H)
  BY <1>4, <1>6 DEF Took, Consistent
<1>8. ASSUME Observed(t, H) PROVE Observed(r, H)
  <2> SUFFICES ASSUME NEW h \in H, h.type = "list"
               PROVE  \E o \in ToSet(r.observations) :
                        /\ o.epoch = r.status_key_epoch /\ o.type = "list"
                        /\ o.seq = h.seq /\ o.set = h.revoked
    BY DEF Observed
  <2>1. PICK x \in ToSet(t.observations) :
          /\ x.epoch = t.status_key_epoch /\ x.type = "list"
          /\ x.seq = h.seq /\ x.set = h.revoked
    BY <1>8 DEF Observed
  <2>2. PICK y \in ToSet(obs) : StandsFor(t, y, x)
    BY <1>4, <2>1
  <2>3. y.epoch = x.epoch /\ y.type = x.type /\ y.seq = x.seq /\ y.set = x.set
    BY <2>1, <2>2 DEF StandsFor, Content
  <2> QED
    BY <1>6, <2>1, <2>3
<1>9. ASSUME Covered(t) PROVE Covered(r)
  <2> SUFFICES ASSUME r.floor > 0, NEW c \in r.accepted
               PROVE  \E o \in ToSet(r.observations) : Firm(r, o) /\ c \in o.revoked
    BY DEF Covered
  <2>1. PICK x \in ToSet(t.observations) : Firm(t, x) /\ c \in x.revoked
    BY <1>6, <1>9 DEF Covered
  <2>2. PICK y \in ToSet(obs) : StandsFor(t, y, x)
    BY <1>4, <2>1
  <2>3. Firm(t, y) /\ c \in y.revoked
    BY <2>1, <2>2 DEF StandsFor
  <2>4. Firm(r, y)
    BY <1>6, <2>3 DEF Firm, IsAcceptedBase
  <2> QED
    BY <1>6, <2>3, <2>4
<1>10. Settled(t, H) => Settled(r, H)
  BY <1>6 DEF Settled
<1> QED
  BY <1>7, <1>8, <1>9, <1>10 DEF r

(* Marking a fork at a sequence heard asks for reconciliation.             *)
LEMMA MarkForkKeeps ==
  ASSUME NEW s, NEW t, NEW D, NEW m, NEW H, Took(t, s, D, m, H), NEW seq \in Nat, seq <= m
  PROVE  /\ Took(MarkFork(t, seq), s, D, m, H)
         /\ MarkFork(t, seq).observations = t.observations
         /\ SameBase(MarkFork(t, seq), t)
         /\ MarkFork(t, seq).reconciliation
<1>1. t \in StatusType /\ t.floor \in 0..m /\ t.fork_sequence \in 0..m /\ m \in Nat
  BY DEF Took, Consistent, StatusType
<1> DEFINE top == Max({t.fork_sequence, t.floor, seq})
           r == MarkFork(t, seq)
<1>2. top \in 0..m
  BY <1>1, GreatestOf
<1>3. r = [t EXCEPT !.reconciliation = TRUE, !.fork_sequence = top]
  BY <1>1 DEF MarkFork, StatusType
<1> HIDE DEF top, r
<1>4. r \in StatusType
  <2>1. top \in Nat
    BY <1>1, <1>2
  <2> QED
    BY <1>1, <1>3, <2>1 DEF StatusType
<1>5. /\ r.fork_sequence = top /\ r.reconciliation = TRUE
      /\ r.observations = t.observations /\ r.accepted = t.accepted
      /\ r.snapshot = t.snapshot /\ r.floor = t.floor
      /\ r.max_observed = t.max_observed /\ r.deny_union = t.deny_union
      /\ r.status_key_epoch = t.status_key_epoch /\ r.status_key = t.status_key
  BY <1>1, <1>3 DEF StatusType
<1>6. Took(r, s, D, m, H)
  BY <1>1, <1>2, <1>4, <1>5 DEF Took, Consistent
<1> QED
  BY <1>5, <1>6 DEF SameBase, r

(* Asking for reconciliation changes nothing else.                         *)
LEMMA ReconciliationKeeps ==
  ASSUME NEW s, NEW t, NEW D, NEW m, NEW H, Took(t, s, D, m, H)
  PROVE  LET r == [t EXCEPT !.reconciliation = TRUE]
         IN  /\ Took(r, s, D, m, H) /\ r.observations = t.observations
             /\ SameBase(r, t) /\ r.reconciliation
<1>1. t \in StatusType
  BY DEF Took, Consistent
<1> DEFINE r == [t EXCEPT !.reconciliation = TRUE]
<1>2. /\ r \in StatusType /\ r.observations = t.observations
      /\ r.floor = t.floor /\ r.snapshot = t.snapshot
      /\ r.accepted = t.accepted /\ r.status_key_epoch = t.status_key_epoch
      /\ r.status_key = t.status_key /\ r.deny_union = t.deny_union
      /\ r.max_observed = t.max_observed /\ r.fork_sequence = t.fork_sequence
      /\ r.reconciliation = TRUE /\ r.future_observed = t.future_observed
  BY <1>1 DEF StatusType
<1> HIDE DEF r
<1>3. Took(r, s, D, m, H)
  BY <1>2 DEF Took, Consistent
<1> QED
  BY <1>2, <1>3 DEF SameBase, r

(* Accepting a list: at the floor it refreshes the snapshot, elsewhere it  *)
(* replaces the accepted state.                                            *)
LEMMA AcceptSnapshotKeeps ==
  ASSUME NEW s, NEW t, NEW D, NEW m, NEW H, Took(t, s, D, m, H),
         NEW l \in H, l.type = "list", l.seq = t.floor => l.revoked = t.accepted
  PROVE  LET r == AcceptSnapshot(t, l)
         IN  /\ Took(r, s, D, m, H) /\ r.observations = t.observations
             /\ r.status_key_epoch = t.status_key_epoch
             /\ r.reconciliation = t.reconciliation
             /\ r.floor = l.seq /\ r.accepted = l.revoked
             /\ r.snapshot = l \/ (r.snapshot = t.snapshot /\ t.snapshot.seq = l.seq)
<1> DEFINE r == AcceptSnapshot(t, l)
<1> SUFFICES /\ Took(r, s, D, m, H) /\ r.observations = t.observations
             /\ r.status_key_epoch = t.status_key_epoch
             /\ r.reconciliation = t.reconciliation
             /\ r.floor = l.seq /\ r.accepted = l.revoked
             /\ r.snapshot = l \/ (r.snapshot = t.snapshot /\ t.snapshot.seq = l.seq)
  OBVIOUS
<1> HIDE DEF r
<1>1. /\ t \in StatusType /\ l \in Authentic /\ l.seq \in Nat /\ l.seq > 0 /\ l.seq <= m
      /\ l.revoked \subseteq Certs /\ l # NoList /\ t.floor \in Nat
      /\ H \subseteq Authentic
  <2>1. l \in Authentic
    BY DEF Took, Consistent
  <2>2. l # NoList
    BY DEF NoList
  <2> QED
    BY <2>1, <2>2, ObjectTyped DEF Took, Consistent, StatusType
<1>2. CASE t.floor > 0 /\ l.seq = t.floor
  <2>1. /\ t.snapshot.seq \in Nat /\ t.snapshot.seq <= t.floor
    BY <1>2, SnapshotTyped DEF Took
  <2>2. CASE r = t /\ ~(t.snapshot.seq < l.seq)
    BY <1>1, <1>2, <2>1, <2>2
  <2>3. CASE r = [t EXCEPT !.snapshot = l]
    <3>1. /\ r \in StatusType /\ r.observations = t.observations
          /\ r.floor = t.floor /\ r.snapshot = l
          /\ r.accepted = t.accepted /\ r.status_key_epoch = t.status_key_epoch
          /\ r.status_key = t.status_key /\ r.deny_union = t.deny_union
          /\ r.max_observed = t.max_observed /\ r.fork_sequence = t.fork_sequence
          /\ r.reconciliation = t.reconciliation /\ r.future_observed = t.future_observed
      BY <1>1, <2>3 DEF StatusType
    <3>2. Took(r, s, D, m, H)
      BY <1>1, <1>2, <3>1 DEF Took, Consistent
    <3> QED
      BY <1>2, <3>1, <3>2
  <2>4. (r = t /\ ~(t.snapshot.seq < l.seq)) \/ r = [t EXCEPT !.snapshot = l]
    BY <1>2 DEF AcceptSnapshot, r
  <2> QED
    BY <2>2, <2>3, <2>4
<1>3. CASE ~(t.floor > 0 /\ l.seq = t.floor)
  <2> DEFINE pf == IF t.floor > 0 /\ l.seq = t.floor + 1 THEN t.floor ELSE 0
             pa == IF t.floor > 0 /\ l.seq = t.floor + 1 THEN t.accepted ELSE {}
  <2>1. r = [t EXCEPT !.preceding_floor = pf, !.preceding_accepted = pa,
                      !.snapshot = l, !.accepted = l.revoked, !.floor = l.seq]
    BY <1>3 DEF AcceptSnapshot, r
  <2>2. pf \in Nat /\ pa \in SUBSET Certs
    BY <1>1 DEF StatusType
  <2> HIDE DEF pf, pa
  <2>3. /\ r \in StatusType /\ r.observations = t.observations
        /\ r.floor = l.seq /\ r.snapshot = l
        /\ r.accepted = l.revoked /\ r.status_key_epoch = t.status_key_epoch
        /\ r.status_key = t.status_key /\ r.deny_union = t.deny_union
        /\ r.max_observed = t.max_observed /\ r.fork_sequence = t.fork_sequence
        /\ r.reconciliation = t.reconciliation /\ r.future_observed = t.future_observed
    BY <1>1, <2>1, <2>2 DEF StatusType
  <2>4. Took(r, s, D, m, H)
    BY <1>1, <2>3 DEF Took, Consistent
  <2> QED
    BY <2>3, <2>4
<1> QED
  BY <1>2, <1>3

(* Reconciliation ends only with a list that holds every denial.           *)
LEMMA ReconcileKeeps ==
  ASSUME NEW s, NEW t, NEW D, NEW m, NEW H, Took(t, s, D, m, H), NEW l
  PROVE  /\ Took(Reconcile(t, l), s, D, m, H)
         /\ Reconcile(t, l).observations = t.observations /\ SameBase(Reconcile(t, l), t)
         /\ Reconcile(t, l).reconciliation \/ ~t.reconciliation \/ D \subseteq l.revoked
<1>1. t \in StatusType /\ t.deny_union = D
  BY DEF Took, Consistent
<1> DEFINE u == [t EXCEPT !.reconciliation = FALSE, !.future_observed = FALSE,
                          !.fork_sequence = 0]
<1>2. /\ u \in StatusType /\ u.observations = t.observations
      /\ u.floor = t.floor /\ u.snapshot = t.snapshot
      /\ u.accepted = t.accepted /\ u.status_key_epoch = t.status_key_epoch
      /\ u.status_key = t.status_key /\ u.deny_union = t.deny_union
      /\ u.max_observed = t.max_observed /\ u.fork_sequence = 0
      /\ u.reconciliation = FALSE /\ u.future_observed = FALSE
  BY <1>1 DEF StatusType
<1>3. Reconcile(t, l) = t \/ (Reconcile(t, l) = u /\ D \subseteq l.revoked)
  <2>1. CASE t.deny_union \subseteq l.revoked
    BY <1>1, <2>1 DEF Reconcile
  <2>2. CASE ~(t.deny_union \subseteq l.revoked)
    BY <2>2 DEF Reconcile
  <2> QED
    BY <2>1, <2>2
<1> HIDE DEF u
<1>4. Took(u, s, D, m, H)
  <2>1. u.max_observed \in Nat
    BY <1>2 DEF StatusType
  <2> QED
    BY <1>2, <2>1 DEF Took, Consistent
<1>5. CASE Reconcile(t, l) = t
  BY <1>5 DEF SameBase
<1>6. CASE Reconcile(t, l) = u /\ D \subseteq l.revoked
  BY <1>2, <1>4, <1>6 DEF SameBase
<1> QED
  BY <1>3, <1>5, <1>6

(* The invariant of one state.                                             *)
Sound(s, H) == Consistent(s, H) /\ Observed(s, H) /\ Covered(s) /\ Settled(s, H)

(* What deny_union and max_observed become when o is taken in.             *)
DenyUnionWith(s, o) == s.deny_union \cup o.revoked
Top(s, o) == Higher(s.max_observed, o.seq)

(* An object heard has the type, sequence and revocations of o.            *)
Twin(H, o) == \E h \in H : h.type = o.type /\ h.seq = o.seq /\ h.revoked = o.revoked

(* The highest sequence only grows, and covers the object.                 *)
LEMMA TopBound ==
  ASSUME NEW s, NEW H, Consistent(s, H), NEW o \in Authentic
  PROVE  /\ s.max_observed \in Nat /\ o.seq \in Nat /\ Top(s, o) \in Nat
         /\ s.max_observed <= Top(s, o) /\ o.seq <= Top(s, o)
<1>1. s.max_observed \in Nat /\ o.seq \in Nat
  BY ObjectTyped DEF Consistent, StatusType
<1> QED
  BY <1>1 DEF Top, Higher

(* A duplicate was heard.                                                  *)
LEMMA FoundHeard ==
  ASSUME NEW s, NEW H, Consistent(s, H), NEW o, FindObservation(s, o) # 0
  PROVE  /\ o \in H
         /\ \E x \in ToSet(s.observations) : x.epoch = s.status_key_epoch /\ x.evidence = o
<1>1. PICK i \in 1..Len(s.observations) :
        /\ s.observations[i].epoch = s.status_key_epoch /\ s.observations[i].evidence = o
  BY Zenon DEF FindObservation, SelectLastInSeq
<1>2. s.observations[i] \in ToSet(s.observations)
  BY DEF ToSet, Consistent
<1>3. s.observations[i] \in Known(s.deny_union, H, s.status_key_epoch)
  BY DEF Consistent
<1> QED
  BY <1>1, <1>2, <1>3 DEF Known

(* A list whose set was seen at its sequence has a twin.                   *)
LEMMA FoundSetTwin ==
  ASSUME NEW s, NEW H, Consistent(s, H), NEW l, l.type = "list", FindSetObservation(s, l) # 0
  PROVE  Twin(H, l)
<1>1. PICK i \in 1..Len(s.observations) :
        /\ s.observations[i].epoch = s.status_key_epoch /\ s.observations[i].type = "list"
        /\ s.observations[i].seq = l.seq /\ s.observations[i].set = l.revoked
  BY Zenon DEF FindSetObservation, SelectLastInSeq
<1>2. s.observations[i] \in Known(s.deny_union, H, s.status_key_epoch)
  BY DEF Consistent
<1> QED
  BY <1>1, <1>2 DEF Known, Faithful, Twin

(* A push that is ignored has a twin.                                      *)
LEMMA PushIgnoredTwin ==
  ASSUME NEW s, NEW H, Consistent(s, H), NEW p \in Authentic, p.type = "push", PushIgnored(s, p)
  PROVE  Twin(H, p)
<1>1. PICK x \in ToSet(s.observations) :
        /\ x.epoch = s.status_key_epoch /\ x.type = "push" /\ x.seq = p.seq
        /\ x.evidence = p \/ x.body = Body(p)
  BY DEF PushIgnored, At
<1>2. x \in Known(s.deny_union, H, s.status_key_epoch)
  BY KnownAt
<1>3. x.evidence \in H /\ Faithful(x) /\ x.evidence \in Authentic
  BY <1>1, <1>2 DEF Known, ObservationType
<1>4. x.evidence.revoked = p.revoked
  <2>1. CASE x.evidence = p
    BY <2>1
  <2>2. CASE x.body = Body(p)
    <3>1. Body(x.evidence) = Body(p)
      BY <1>1, <1>3, <2>2 DEF Faithful
    <3> QED
      BY <1>3, <3>1, ObjectTyped
  <2> QED
    BY <1>1, <2>1, <2>2
<1> QED
  BY <1>1, <1>3, <1>4 DEF Faithful, Twin

(* An object with a twin is absorbed already: the early returns of the     *)
(* apply functions leave a state that needs no change.                     *)
LEMMA TwinSound ==
  ASSUME NEW s, NEW H, Sound(s, H), NEW o \in Authentic, Twin(H, o)
  PROVE  /\ Took(s, s, DenyUnionWith(s, o), Top(s, o), H \cup {o})
         /\ Sound(s, H \cup {o})
<1>1. PICK h \in H : h.type = o.type /\ h.seq = o.seq /\ h.revoked = o.revoked
  BY DEF Twin
<1>2. Consistent(s, H) /\ Observed(s, H) /\ Covered(s) /\ Settled(s, H)
  BY DEF Sound
<1>3. o.seq <= s.max_observed /\ o.revoked \subseteq s.deny_union
  BY <1>1, <1>2 DEF Consistent
<1>4. DenyUnionWith(s, o) = s.deny_union /\ Top(s, o) = s.max_observed
  BY <1>2, <1>3, TopBound DEF DenyUnionWith, Top, Higher
<1>5. s.observations \in Seq(Known(s.deny_union, H \cup {o}, s.status_key_epoch))
  <2>1. s.observations \in Seq(Known(s.deny_union, H, s.status_key_epoch)) /\ H \subseteq H \cup {o}
    BY <1>2 DEF Consistent
  <2> QED
    BY <2>1, KnownGrows
<1>6. Consistent(s, H \cup {o})
  BY <1>2, <1>3, <1>5 DEF Consistent
<1>7. Observed(s, H \cup {o})
  BY <1>1, <1>2 DEF Observed
<1>8. Settled(s, H \cup {o})
  BY <1>1, <1>2 DEF Settled
<1> QED
  BY <1>2, <1>4, <1>6, <1>7, <1>8 DEF Took, Sound

(* Noting an object adds its revocations and its sequence.                 *)
LEMMA NotedTook ==
  ASSUME NEW s, NEW H, Consistent(s, H), NEW o \in Authentic, NEW time
  PROVE  LET t == Noted(s, o, time)
         IN  /\ Took(t, s, DenyUnionWith(s, o), Top(s, o), H \cup {o})
             /\ t.observations = s.observations /\ SameBase(t, s)
             /\ s.reconciliation => t.reconciliation
             /\ BeyondSkew(o.at, time) => t.reconciliation
<1> DEFINE D  == DenyUnionWith(s, o)
           m  == Top(s, o)
           H2 == H \cup {o}
           s1 == IF FindObservation(s, o) # 0 THEN s
                 ELSE [s EXCEPT !.deny_union = @ \cup o.revoked,
                                !.max_observed = Max({@, o.seq})]
           s2 == [s1 EXCEPT !.future_observed = TRUE, !.reconciliation = TRUE]
<1>1. /\ s \in StatusType /\ s.max_observed \in Nat /\ o.seq \in Nat /\ o.revoked \subseteq Certs
      /\ s.deny_union \subseteq Certs /\ H \subseteq Authentic
  BY ObjectTyped DEF Consistent, StatusType
<1>2. m \in Nat /\ s.max_observed <= m /\ o.seq <= m /\ Max({s.max_observed, o.seq}) = m
      /\ D \subseteq Certs /\ s.deny_union \subseteq D /\ o.revoked \subseteq D
      /\ H \subseteq H2 /\ H2 \subseteq Authentic
  BY <1>1, MaxOfTwo DEF DenyUnionWith, Top, Higher
<1>3. Took(s1, s, D, m, H2) /\ s1.observations = s.observations /\ SameBase(s1, s)
      /\ s1.reconciliation = s.reconciliation
  <2>1. CASE FindObservation(s, o) # 0
    <3>1. o \in H
      BY <2>1, FoundHeard
    <3>2. o.seq <= s.max_observed /\ o.revoked \subseteq s.deny_union /\ H2 = H
      BY <3>1 DEF Consistent
    <3>3. D = s.deny_union /\ m = s.max_observed
      BY <1>1, <3>2 DEF DenyUnionWith, Top, Higher
    <3> QED
      BY <2>1, <3>2, <3>3 DEF Took, SameBase
  <2>2. CASE FindObservation(s, o) = 0
    <3>1. s1 = [s EXCEPT !.deny_union = D, !.max_observed = m]
      BY <1>1, <1>2, <2>2 DEF DenyUnionWith, StatusType
    <3>2. s.observations \in Seq(Known(D, H2, s.status_key_epoch))
      BY <1>2, KnownGrows DEF Consistent
    <3> HIDE DEF s1, D, m
    <3>3. /\ s1 \in StatusType
          /\ s1.observations = s.observations /\ s1.deny_union = D /\ s1.max_observed = m
          /\ s1.floor = s.floor /\ s1.fork_sequence = s.fork_sequence /\ s1.snapshot = s.snapshot
          /\ s1.accepted = s.accepted
          /\ s1.future_observed = s.future_observed /\ s1.reconciliation = s.reconciliation
          /\ s1.status_key_epoch = s.status_key_epoch /\ s1.status_key = s.status_key
      BY <1>1, <1>2, <3>1 DEF StatusType
    <3>4. s.floor \in Nat /\ s.fork_sequence \in Nat
      BY <1>1 DEF StatusType
    <3>5. \A h \in H2 : h.seq <= m /\ h.revoked \subseteq D
      <4>1. \A h \in H : /\ h.seq \in Nat /\ h.seq <= s.max_observed
                         /\ h.revoked \subseteq s.deny_union
        BY <1>1, ObjectTyped DEF Consistent
      <4> QED
        BY <1>1, <1>2, <4>1
    <3>6. s1.floor <= s1.max_observed /\ s1.fork_sequence <= s1.max_observed
      BY <1>1, <1>2, <3>3, <3>4 DEF Consistent
    <3>7. Consistent(s1, H2)
      BY <1>2, <3>2, <3>3, <3>5, <3>6 DEF Consistent
    <3> QED
      BY <3>3, <3>7 DEF Took, SameBase
  <2> QED
    BY <2>1, <2>2
<1>4. /\ BeyondSkew(o.at, time) => Noted(s, o, time) = s2
      /\ ~BeyondSkew(o.at, time) => Noted(s, o, time) = s1
  BY DEF Noted
<1> HIDE DEF s1, s2
<1>5. s1 \in StatusType
  BY <1>3 DEF Took, Consistent
<1>6. /\ s2 \in StatusType
      /\ s2.observations = s1.observations /\ s2.deny_union = s1.deny_union
      /\ s2.max_observed = s1.max_observed
      /\ s2.floor = s1.floor /\ s2.fork_sequence = s1.fork_sequence /\ s2.snapshot = s1.snapshot
      /\ s2.accepted = s1.accepted /\ s2.reconciliation = TRUE
      /\ s2.status_key_epoch = s1.status_key_epoch /\ s2.status_key = s1.status_key
  BY <1>5 DEF StatusType, s2
<1>7. Took(s2, s, D, m, H2)
  BY <1>3, <1>6 DEF Took, Consistent
<1>8. SameBase(s2, s)
  BY <1>3, <1>6 DEF SameBase
<1> QED
  BY <1>3, <1>4, <1>6, <1>7, <1>8

-----------------------------------------------------------------------------
(* Lists.                                                                  *)

(* What o may be for the settled state to stay settled.                    *)
Fits(s, o) ==
  s.floor > 0 =>
    /\ o.revoked \subseteq s.accepted
    /\ o.type = "list" /\ o.seq = s.snapshot.seq => o.revoked = s.snapshot.revoked
    /\ o.type = "push" /\ o.seq <= s.snapshot.seq => o.revoked \subseteq s.snapshot.revoked

(* ob is an observation of the list o.                                     *)
Shows(s, ob, o) ==
  /\ ob \in ToSet(s.observations) /\ ob.epoch = s.status_key_epoch
  /\ ob.type = "list" /\ ob.seq = o.seq /\ ob.set = o.revoked

(* A state whose accepted part is untouched stays sound when it asks for   *)
(* reconciliation or o fits, and a list has been recorded.                 *)
LEMMA StillSound ==
  ASSUME NEW s, NEW H, Sound(s, H), NEW o, NEW t, SameBase(t, s),
         ToSet(s.observations) \subseteq ToSet(t.observations),
         s.reconciliation => t.reconciliation,
         t.reconciliation \/ Fits(s, o),
         o.type = "list" => \E ob : Shows(t, ob, o)
  PROVE  Observed(t, H \cup {o}) /\ Covered(t) /\ Settled(t, H \cup {o})
<1>1. Observed(s, H) /\ Covered(s) /\ Settled(s, H)
  BY DEF Sound
<1>2. Observed(t, H \cup {o})
  BY <1>1 DEF Observed, SameBase, Shows
<1>3. \A x : Firm(s, x) => Firm(t, x)
  BY DEF Firm, IsAcceptedBase, SameBase
<1>4. Covered(t)
  BY <1>1, <1>3 DEF Covered, SameBase
<1>5. Settled(t, H \cup {o})
  BY <1>1 DEF Settled, Fits, SameBase
<1> QED
  BY <1>2, <1>4, <1>5

(* A list without a sequence conflict equals every list heard at its       *)
(* sequence.                                                               *)
LEMMA NoConflict ==
  ASSUME NEW s, NEW H, Observed(s, H), NEW l, l.type = "list", ~SequenceConflict(s, l),
         NEW h \in H, h.type = "list", h.seq = l.seq
  PROVE  h.revoked = l.revoked
<1>1. PICK x \in ToSet(s.observations) :
        x.epoch = s.status_key_epoch /\ x.type = "list" /\ x.seq = h.seq /\ x.set = h.revoked
  BY DEF Observed
<1>2. x \in At(s, l.type, l.seq)
  BY <1>1 DEF At
<1> QED
  BY <1>1, <1>2 DEF SequenceConflict

(* A list at or below the floor that does not fork fits.                   *)
LEMMA ListFits ==
  ASSUME NEW s, NEW H, Sound(s, H), NEW l \in Authentic, l.type = "list", ~ListForks(s, l),
         s.floor > 0 => l.seq <= s.floor
  PROVE  Fits(s, l)
<1> SUFFICES ASSUME s.floor > 0 PROVE Fits(s, l)
  BY DEF Fits
<1>1. s.floor \in Nat /\ l.seq \in Nat
  BY ObjectTyped DEF Sound, Consistent, StatusType
<1>2. l.revoked \subseteq s.accepted
  <2>1. CASE l.seq = s.floor
    BY <2>1 DEF ListForks
  <2>2. CASE l.seq < s.floor
    BY <2>2 DEF ListForks
  <2> QED
    BY <1>1, <2>1, <2>2
<1>3. ASSUME l.seq = s.snapshot.seq PROVE l.revoked = s.snapshot.revoked
  <2>1. s.snapshot \in H /\ s.snapshot.type = "list"
    BY SnapshotTyped DEF Sound
  <2>2. ~SequenceConflict(s, l)
    BY DEF ListForks
  <2> QED
    BY <1>3, <2>1, <2>2, NoConflict DEF Sound
<1> QED
  BY <1>2, <1>3 DEF Fits

(* The list was taken over: the state rests on it alone.                   *)
LEMMA TakenSound ==
  ASSUME NEW s, NEW H, Sound(s, H), NEW l \in Authentic, l.type = "list", ~ListForks(s, l),
         s.floor > 0 => l.seq >= s.floor,
         NEW t, NEW D, NEW m, Took(t, s, D, m, H \cup {l}),
         ToSet(s.observations) \subseteq ToSet(t.observations),
         t.floor = l.seq, t.accepted = l.revoked,
         t.snapshot = l \/ (t.snapshot = s.snapshot /\ s.floor > 0 /\ s.snapshot.seq = l.seq),
         ~t.reconciliation => (s.floor > 0 /\ ~s.reconciliation) \/ D \subseteq l.revoked,
         NEW ob, Shows(t, ob, l), ob.revoked = l.revoked, ob.evidence = l, ob.accepted
  PROVE  Observed(t, H \cup {l}) /\ Covered(t) /\ Settled(t, H \cup {l})
<1>1. Consistent(s, H) /\ Observed(s, H) /\ Covered(s) /\ Settled(s, H)
  BY DEF Sound
<1>2. t.status_key_epoch = s.status_key_epoch /\ Consistent(t, H \cup {l}) /\ t.deny_union = D
  BY DEF Took
<1>3. Observed(t, H \cup {l})
  BY <1>1, <1>2 DEF Observed, Shows
<1>4. ~SequenceConflict(s, l)
  BY DEF ListForks
<1>5. t.snapshot.seq = l.seq /\ t.snapshot.revoked = l.revoked
  <2>1. CASE t.snapshot = l
    BY <2>1
  <2>2. CASE t.snapshot = s.snapshot /\ s.floor > 0 /\ s.snapshot.seq = l.seq
    <3>1. s.snapshot \in H /\ s.snapshot.type = "list"
      BY <1>1, <2>2, SnapshotTyped
    <3> QED
      BY <1>1, <1>4, <2>2, <3>1, NoConflict
  <2> QED
    BY <2>1, <2>2
<1>6. Settled(t, H \cup {l})
  <2> SUFFICES ASSUME ~t.reconciliation, NEW h \in H \cup {l}
               PROVE  /\ h.revoked \subseteq t.accepted
                      /\ h.type = "list" /\ h.seq = t.snapshot.seq => h.revoked = t.snapshot.revoked
                      /\ h.type = "push" /\ h.seq <= t.snapshot.seq
                           => h.revoked \subseteq t.snapshot.revoked
    BY DEF Settled
  <2>1. h.revoked \subseteq l.revoked
    <3>1. CASE D \subseteq l.revoked
      BY <1>2, <3>1 DEF Consistent
    <3>2. CASE s.floor > 0 /\ ~s.reconciliation
      <4>1. h = l \/ h.revoked \subseteq s.accepted
        BY <1>1, <3>2 DEF Settled
      <4>2. s.accepted \subseteq l.revoked
        <5> SUFFICES ASSUME NEW c \in s.accepted PROVE c \in l.revoked
          OBVIOUS
        <5>1. PICK x \in ToSet(s.observations) : Firm(s, x) /\ c \in x.revoked
          BY <1>1, <3>2 DEF Covered
        <5>2. /\ s.snapshot.seq \in Nat /\ s.snapshot.seq <= s.floor /\ s.floor \in Nat
              /\ l.seq \in Nat /\ s.floor <= l.seq
          BY <1>1, <3>2, SnapshotTyped, ObjectTyped DEF Consistent, StatusType
        <5>3. x \in Known(s.deny_union, H, s.status_key_epoch)
          BY <1>1, KnownAt
        <5>4. x.seq \in Nat
          BY <5>3 DEF Known, ObservationType
        <5>5. x.epoch = s.status_key_epoch /\ x.seq <= l.seq
          BY <5>1, <5>2, <5>4 DEF Firm, IsAcceptedBase
        <5>6. c \in RequiredForSnapshot(s, l.seq)
          BY <5>1, <5>5 DEF RequiredForSnapshot
        <5>7. RequiredForSnapshot(s, l.seq) \subseteq l.revoked
          BY DEF ListForks
        <5> QED
          BY <5>6, <5>7
      <4> QED
        BY <4>1, <4>2
    <3> QED
      BY <3>1, <3>2
  <2>2. ASSUME h.type = "list", h.seq = l.seq PROVE h.revoked = l.revoked
    BY <1>1, <1>4, <2>2, NoConflict
  <2> QED
    BY <1>5, <2>1, <2>2
<1>7. Covered(t)
  <2> SUFFICES ASSUME t.floor > 0, NEW c \in t.accepted
               PROVE  \E x \in ToSet(t.observations) : Firm(t, x) /\ c \in x.revoked
    BY DEF Covered
  <2>1. CASE t.snapshot = l
    <3>1. l # NoList
      BY <1>2, <2>1 DEF Consistent
    <3>2. Firm(t, ob)
      BY <2>1, <3>1 DEF Firm, IsAcceptedBase, Shows
    <3> QED
      BY <3>2 DEF Shows
  <2>2. CASE t.snapshot = s.snapshot /\ s.floor > 0 /\ s.snapshot.seq = l.seq
    <3>1. s.floor = l.seq /\ s.floor \in Nat
      <4>1. s.floor \in Nat /\ l.seq \in Nat /\ s.snapshot.seq <= s.floor
        BY <1>1, <2>2, SnapshotTyped, ObjectTyped DEF Consistent, StatusType
      <4> QED
        BY <2>2, <4>1
    <3>2. l.revoked = s.accepted
      BY <2>2, <3>1 DEF ListForks
    <3>3. PICK x \in ToSet(s.observations) : Firm(s, x) /\ c \in x.revoked
      BY <1>1, <2>2, <3>2 DEF Covered
    <3>4. Firm(t, x)
      BY <1>2, <2>2, <3>1, <3>3 DEF Firm, IsAcceptedBase
    <3> QED
      BY <3>3, <3>4
  <2> QED
    BY <2>1, <2>2
<1> QED
  BY <1>3, <1>6, <1>7

(* t is s with the object absorbed, and sound.                             *)
Good(t, s, D, m, H) == Took(t, s, D, m, H) /\ Observed(t, H) /\ Covered(t) /\ Settled(t, H)

(* A duplicate is not recorded again, so what is in is there.              *)
LEMMA OnceGood ==
  ASSUME NEW s, NEW H, Sound(s, H), NEW l \in Authentic, l.type = "list", NEW dup \in BOOLEAN,
         dup => FindObservation(s, l) # 0,
         NEW t, NEW D, NEW m, Took(t, s, D, m, H \cup {l}), SameBase(t, s),
         t.observations = s.observations, s.reconciliation => t.reconciliation,
         t.reconciliation \/ Fits(s, l),
         NEW o \in Known(D, H \cup {l}, s.status_key_epoch),
         o.epoch = s.status_key_epoch, o.type = "list", o.seq = l.seq, o.set = l.revoked
  PROVE  Good(IF dup THEN t ELSE Record(t, o), s, D, m, H \cup {l})
<1> DEFINE r == IF dup THEN t ELSE Record(t, o)
<1>1. /\ Took(r, s, D, m, H \cup {l}) /\ SameBase(r, s)
      /\ r.reconciliation = t.reconciliation
      /\ ToSet(s.observations) \subseteq ToSet(r.observations)
      /\ ~dup => o \in ToSet(r.observations)
  BY RecordKeeps DEF SameBase
<1>2. \E ob : Shows(r, ob, l)
  <2>1. CASE dup
    <3>1. PICK x \in ToSet(s.observations) : x.epoch = s.status_key_epoch /\ x.evidence = l
      BY <2>1, FoundHeard DEF Sound
    <3>2. x \in Known(s.deny_union, H, s.status_key_epoch)
      BY KnownAt DEF Sound
    <3>3. x.type = "list" /\ x.seq = l.seq /\ x.set = l.revoked
      BY <3>1, <3>2 DEF Known, Faithful
    <3> QED
      BY <1>1, <3>1, <3>3 DEF Shows, SameBase
  <2>2. CASE ~dup
    BY <1>1, <2>2 DEF Shows, SameBase
  <2> QED
    BY <2>1, <2>2
<1> HIDE DEF r
<1>3. Observed(r, H \cup {l}) /\ Covered(r) /\ Settled(r, H \cup {l})
  BY <1>1, <1>2, StillSound
<1> QED
  BY <1>1, <1>3 DEF Good, r

(* A list that is accepted leaves a sound state.                           *)
LEMMA TakenGood ==
  ASSUME NEW s, NEW H, Sound(s, H), NEW l \in Authentic, l.type = "list", ~ListForks(s, l),
         s.floor > 0 => l.seq >= s.floor,
         NEW t, NEW D, NEW m, Took(t, s, D, m, H \cup {l}), SameBase(t, s),
         t.observations = s.observations, s.reconciliation => t.reconciliation,
         s.floor = 0 => D \subseteq l.revoked,
         NEW o \in Known(D, H \cup {l}, s.status_key_epoch),
         o.epoch = s.status_key_epoch, o.type = "list", o.seq = l.seq, o.set = l.revoked,
         o.revoked = l.revoked, o.evidence = l
  PROVE  Good(Record(Reconcile(AcceptSnapshot(t, l), l), [o EXCEPT !.accepted = TRUE]),
              s, D, m, H \cup {l})
<1> DEFINE H2 == H \cup {l}
           a == AcceptSnapshot(t, l)
           b == Reconcile(a, l)
           ob == [o EXCEPT !.accepted = TRUE]
           r == Record(b, ob)
<1>0. s.floor \in Nat /\ l.seq \in Nat /\ l.seq > 0
  BY ObjectTyped DEF Sound, Consistent, StatusType
<1>1. l.seq = s.floor => l.revoked = s.accepted
  BY <1>0 DEF ListForks
<1>2. ob \in Known(D, H2, s.status_key_epoch) /\ Flagged(o, ob) /\ ob.accepted = TRUE
  BY FlagsKeep
<1> HIDE DEF ob
<1>3. /\ Took(a, s, D, m, H2) /\ a.observations = t.observations
      /\ a.status_key_epoch = t.status_key_epoch
      /\ a.reconciliation = t.reconciliation
      /\ a.floor = l.seq /\ a.accepted = l.revoked
      /\ a.snapshot = l \/ (a.snapshot = t.snapshot /\ t.snapshot.seq = l.seq)
  BY <1>1, AcceptSnapshotKeeps DEF SameBase
<1> HIDE DEF a
<1>4. /\ Took(b, s, D, m, H2) /\ b.observations = a.observations /\ SameBase(b, a)
      /\ b.reconciliation \/ ~a.reconciliation \/ D \subseteq l.revoked
  <2>1. Took(a, s, D, m, H2)
    BY <1>3
  <2> HIDE DEF H2, r
  <2>2. Took(b, s, D, m, H2)
    BY <2>1, ReconcileKeeps
  <2>3. b.observations = a.observations
    BY <2>1, ReconcileKeeps
  <2>4. SameBase(b, a)
    BY <2>1, ReconcileKeeps
  <2>5. b.reconciliation \/ ~a.reconciliation \/ D \subseteq l.revoked
    BY <2>1, ReconcileKeeps
  <2> QED
    BY <2>2, <2>3, <2>4, <2>5
<1> HIDE DEF b
<1>5. /\ Took(r, s, D, m, H2)
      /\ ToSet(r.observations) = ToSet(b.observations) \cup {ob}
      /\ SameBase(r, b) /\ r.reconciliation = b.reconciliation
  BY <1>2, <1>4, RecordKeeps
<1> HIDE DEF r
<1>6. r.snapshot = l \/ (r.snapshot = s.snapshot /\ s.floor > 0 /\ s.snapshot.seq = l.seq)
  <2>1. r.snapshot = a.snapshot /\ t.snapshot = s.snapshot
    BY <1>4, <1>5 DEF SameBase
  <2>2. CASE s.floor > 0
    BY <1>3, <2>1, <2>2
  <2>3. CASE ~(s.floor > 0)
    <3>1. s.snapshot = NoList
      BY <2>3 DEF Sound, Consistent
    <3>2. r.snapshot \in H2
      <4>1. r.floor > 0
        BY <1>0, <1>3, <1>4, <1>5 DEF SameBase
      <4> QED
        BY <1>5, <4>1 DEF Took, Consistent
    <3>3. r.snapshot # NoList
      <4>1. r.floor > 0
        BY <1>0, <1>3, <1>4, <1>5 DEF SameBase
      <4> QED
        BY <1>5, <4>1 DEF Took, Consistent
    <3> QED
      BY <1>3, <2>1, <3>1, <3>3
  <2> QED
    BY <2>2, <2>3
<1>7. ~r.reconciliation => (s.floor > 0 /\ ~s.reconciliation) \/ D \subseteq l.revoked
  <2>1. s.floor > 0 \/ s.floor = 0
    BY <1>0
  <2> QED
    BY <1>3, <1>4, <1>5, <2>1
<1>8. Shows(r, ob, l) /\ ob.revoked = l.revoked /\ ob.evidence = l /\ ob.accepted
  BY <1>2, <1>3, <1>4, <1>5 DEF Shows, Flagged, SameBase
<1>9. /\ r.floor = l.seq /\ r.accepted = l.revoked
      /\ ToSet(s.observations) \subseteq ToSet(r.observations)
  BY <1>3, <1>4, <1>5 DEF SameBase
<1>10. Observed(r, H2) /\ Covered(r) /\ Settled(r, H2)
  BY <1>5, <1>6, <1>7, <1>8, <1>9, TakenSound
<1> QED
  BY <1>5, <1>10 DEF Good, r, b, a, ob

(* Every way a list is decided leaves a sound state.                       *)
LEMMA ReduceListGood ==
  ASSUME NEW s, NEW H, Sound(s, H), NEW l \in Authentic, l.type = "list", NEW time
  PROVE  Good(ReduceList(s, l, time), s, DenyUnionWith(s, l), Top(s, l), H \cup {l})
<1> DEFINE D == DenyUnionWith(s, l)
           m == Top(s, l)
           H2 == H \cup {l}
           forked == ListForks(s, l)
           noted  == Noted(s, l, time)
           s1     == IF forked THEN MarkFork(noted, l.seq) ELSE noted
           dup    == FindObservation(s, l) # 0
           fresh  == ListFresh(l, time)
           o == [Observation(s, l, time) EXCEPT !.fork = forked]
           gapped == [s1 EXCEPT !.reconciliation = TRUE]
           og == [o EXCEPT !.gap = TRUE]
           Once == IF dup THEN s1 ELSE Record(s1, o)
           Gap == IF dup THEN gapped ELSE Record(gapped, og)
           Taken == Record(Reconcile(AcceptSnapshot(s1, l), l), [o EXCEPT !.accepted = TRUE])
           r == ReduceList(s, l, time)
<1> SUFFICES Good(r, s, D, m, H2)
  OBVIOUS
<1>1. forked \in BOOLEAN /\ dup \in BOOLEAN /\ fresh \in BOOLEAN
  BY DEF ListForks, ListFresh
<1>2. r = IF ~fresh THEN IF s.floor > 0 /\ l.seq <= s.floor THEN Once ELSE Gap
          ELSE IF o.fork THEN Once
          ELSE IF s.floor = 0 /\ (~(s1.deny_union \subseteq l.revoked) \/ l.seq < s1.max_observed)
            THEN Gap
          ELSE IF l.seq < s.floor THEN Once
          ELSE Taken
  BY DEF ReduceList, ReduceForked, DecideList
<1>3. /\ Consistent(s, H) /\ s \in StatusType /\ s.floor \in Nat /\ l.seq \in Nat /\ m \in Nat
      /\ l.seq <= m
  BY TopBound DEF Sound, Consistent, StatusType
<1>4. ~fresh \/ ~BeyondSkew(l.at, time)
  BY DEF ListFresh
<1>5. /\ Took(noted, s, D, m, H2)
      /\ noted.observations = s.observations /\ SameBase(noted, s)
      /\ s.reconciliation => noted.reconciliation
  BY <1>3, NotedTook
<1>6. /\ o \in Known(D, H2, s.status_key_epoch) /\ o.fork = forked
      /\ o.epoch = s.status_key_epoch /\ o.type = "list" /\ o.seq = l.seq /\ o.set = l.revoked
      /\ o.revoked = l.revoked /\ o.evidence = l
  <2>1. l.revoked \subseteq D /\ l \in H2
    BY DEF DenyUnionWith
  <2> HIDE DEF forked, D, H2
  <2>2. /\ o \in Known(D, H2, s.status_key_epoch)
        /\ Flagged(Observation(s, l, time), o) /\ o.fork = forked
    <3> HIDE DEF m, noted, s1, dup, fresh, gapped, og, Once, Gap, Taken, r
    <3>1. s \in StatusType /\ forked \in BOOLEAN
      BY <1>1, <1>3
    <3>2. o \in Known(D, H2, s.status_key_epoch)
      BY <2>1, <3>1, ObservationKnown
    <3>3. Flagged(Observation(s, l, time), o)
      BY <2>1, <3>1, ObservationKnown
    <3>4. o.fork = forked
      BY <2>1, <3>1, ObservationKnown
    <3> QED
      BY <3>2, <3>3, <3>4
  <2> QED
    BY <2>2, ObservationOf DEF Flagged
<1> HIDE DEF D, m, noted, r, dup, fresh, o
<1>7. /\ Took(s1, s, D, m, H2)
      /\ s1.observations = s.observations /\ SameBase(s1, s)
      /\ s.reconciliation => s1.reconciliation
      /\ forked => s1.reconciliation
  <2>1. CASE forked
    BY <1>3, <1>5, <2>1, MarkForkKeeps DEF SameBase
  <2>2. CASE ~forked
    BY <1>5, <2>2
  <2> QED
    BY <2>1, <2>2
<1> HIDE DEF s1
<1>8. /\ Took(gapped, s, D, m, H2)
      /\ gapped.observations = s.observations /\ SameBase(gapped, s)
      /\ gapped.reconciliation
  BY <1>7, ReconciliationKeeps DEF SameBase
<1>9. /\ og \in Known(D, H2, s.status_key_epoch)
      /\ og.epoch = s.status_key_epoch /\ og.type = "list" /\ og.seq = l.seq /\ og.set = l.revoked
  <2>1. og \in Known(D, H2, s.status_key_epoch) /\ Flagged(o, og)
    BY <1>6, FlagsKeep
  <2> QED
    BY <1>6, <2>1 DEF Flagged
<1> HIDE DEF gapped, og
<1>10. dup => FindObservation(s, l) # 0
  BY DEF dup
<1>11. Good(Gap, s, D, m, H2)
  BY <1>1, <1>8, <1>9, <1>10, OnceGood
<1>12. ASSUME s1.reconciliation \/ Fits(s, l) PROVE Good(Once, s, D, m, H2)
  BY <1>1, <1>6, <1>7, <1>10, <1>12, OnceGood
<1>13. ASSUME ~forked, s.floor > 0 => l.seq >= s.floor, s.floor = 0 => D \subseteq l.revoked
       PROVE  Good(Taken, s, D, m, H2)
  BY <1>6, <1>7, <1>13, TakenGood
<1>14. ASSUME ~forked, s.floor > 0 => l.seq <= s.floor PROVE Fits(s, l)
  BY <1>14, ListFits
<1> HIDE DEF Once, Gap, Taken
<1>15. CASE ~fresh
  <2>1. CASE s.floor > 0 /\ l.seq <= s.floor
    BY <1>2, <1>7, <1>12, <1>14, <1>15, <2>1
  <2>2. CASE ~(s.floor > 0 /\ l.seq <= s.floor)
    BY <1>2, <1>11, <1>15, <2>2
  <2> QED
    BY <2>1, <2>2
<1>16. CASE fresh /\ forked
  BY <1>2, <1>6, <1>7, <1>12, <1>16
<1>17. CASE fresh /\ ~forked
  <2>1. s1.deny_union = D
    BY <1>7 DEF Took
  <2>2. CASE s.floor = 0 /\ (~(s1.deny_union \subseteq l.revoked) \/ l.seq < s1.max_observed)
    BY <1>2, <1>6, <1>11, <1>17, <2>2
  <2>3. CASE /\ ~(s.floor = 0 /\ (~(s1.deny_union \subseteq l.revoked) \/ l.seq < s1.max_observed))
             /\ l.seq < s.floor
    <3>1. Fits(s, l)
      BY <1>3, <1>14, <1>17, <2>3
    <3>2. r = Once
      BY <1>2, <1>6, <1>17, <2>3
    <3> QED
      BY <1>12, <3>1, <3>2
  <2>4. CASE /\ ~(s.floor = 0 /\ (~(s1.deny_union \subseteq l.revoked) \/ l.seq < s1.max_observed))
             /\ ~(l.seq < s.floor)
    <3>1. r = Taken
      BY <1>2, <1>6, <1>17, <2>4
    <3>2. s.floor = 0 => D \subseteq l.revoked
      BY <2>1, <2>4
    <3>3. s.floor > 0 => l.seq >= s.floor
      BY <1>3, <2>4
    <3> QED
      BY <1>13, <1>17, <3>1, <3>2, <3>3
  <2> QED
    BY <2>2, <2>3, <2>4
<1> QED
  BY <1>1, <1>15, <1>16, <1>17

-----------------------------------------------------------------------------
(* Pushes.                                                                 *)

(* A push that is only recorded leaves a sound state.                      *)
LEMMA NotedPushGood ==
  ASSUME NEW s, NEW H, Sound(s, H), NEW p \in Authentic, p.type = "push",
         NEW t, NEW D, NEW m, Took(t, s, D, m, H \cup {p}), SameBase(t, s),
         t.observations = s.observations, s.reconciliation => t.reconciliation,
         t.reconciliation \/ Fits(s, p), NEW o \in Known(D, H \cup {p}, s.status_key_epoch)
  PROVE  Good(Record(t, o), s, D, m, H \cup {p})
<1> DEFINE r == Record(t, o)
<1>1. /\ Took(r, s, D, m, H \cup {p}) /\ SameBase(r, s)
      /\ r.reconciliation = t.reconciliation
      /\ ToSet(s.observations) \subseteq ToSet(r.observations)
  BY RecordKeeps DEF SameBase
<1> HIDE DEF r
<1>2. Observed(r, H \cup {p}) /\ Covered(r) /\ Settled(r, H \cup {p})
  BY <1>1, StillSound
<1> QED
  BY <1>1, <1>2 DEF Good, r

(* A push at floor + 1 moves the floor and leaves a sound state.           *)
LEMMA MovedGood ==
  ASSUME NEW s, NEW H, Sound(s, H), NEW p \in Authentic, p.type = "push",
         NEW t, NEW D, NEW m, Took(t, s, D, m, H \cup {p}), SameBase(t, s),
         t.observations = s.observations, s.reconciliation => t.reconciliation,
         s.floor > 0, p.seq = s.floor + 1, ~t.reconciliation,
         NEW o \in Known(D, H \cup {p}, s.status_key_epoch),
         o.epoch = s.status_key_epoch, o.type = "push", o.seq = p.seq, o.revoked = p.revoked
  PROVE  Good(Record([t EXCEPT !.accepted = @ \cup p.revoked, !.floor = p.seq,
                               !.preceding_floor = 0, !.preceding_accepted = {}],
                     [o EXCEPT !.accepted = TRUE]), s, D, m, H \cup {p})
<1> DEFINE H2 == H \cup {p}
           a == [t EXCEPT !.accepted = t.accepted \cup p.revoked, !.floor = p.seq,
                          !.preceding_floor = 0, !.preceding_accepted = {}]
           ob == [o EXCEPT !.accepted = TRUE]
           r == Record(a, ob)
<1> SUFFICES Good(r, s, D, m, H2)
  OBVIOUS
<1>1. /\ Consistent(s, H) /\ Observed(s, H) /\ Covered(s) /\ Settled(s, H)
      /\ Consistent(t, H2) /\ t \in StatusType /\ t.max_observed = m
      /\ t.deny_union = D /\ t.status_key_epoch = s.status_key_epoch /\ t.status_key = s.status_key
  BY DEF Sound, Took, Consistent
<1>2. /\ s.floor \in Nat /\ p.seq \in Nat /\ p.revoked \subseteq Certs /\ p.seq <= m
      /\ s.snapshot # NoList /\ s.snapshot \in H /\ s.snapshot.type = "list"
      /\ s.snapshot.seq \in Nat /\ s.snapshot.seq <= s.floor
  <2>1. p \in H2
    OBVIOUS
  <2>2. p.seq <= m
    BY <1>1, <2>1 DEF Consistent
  <2> QED
    BY <1>1, <2>2, SnapshotTyped, ObjectTyped DEF Consistent, StatusType
<1>3. /\ a \in StatusType /\ a.observations = t.observations
      /\ a.floor = p.seq /\ a.snapshot = t.snapshot
      /\ a.accepted = t.accepted \cup p.revoked /\ a.status_key_epoch = t.status_key_epoch
      /\ a.status_key = t.status_key /\ a.deny_union = t.deny_union
      /\ a.max_observed = t.max_observed /\ a.fork_sequence = t.fork_sequence
      /\ a.reconciliation = t.reconciliation /\ a.future_observed = t.future_observed
  BY <1>1, <1>2 DEF StatusType
<1> HIDE DEF a, r, H2
<1>4. t.snapshot = s.snapshot /\ t.floor = s.floor /\ t.accepted = s.accepted
  BY DEF SameBase
<1>5. Took(a, s, D, m, H2)
  BY <1>1, <1>2, <1>3, <1>4 DEF Took, Consistent
<1>6. ob \in Known(D, H2, s.status_key_epoch) /\ Flagged(o, ob) /\ ob.accepted = TRUE
  BY FlagsKeep DEF H2
<1> HIDE DEF ob
<1>7. /\ Took(r, s, D, m, H2)
      /\ ToSet(r.observations) = ToSet(a.observations) \cup {ob}
      /\ SameBase(r, a) /\ r.reconciliation = a.reconciliation
  BY <1>5, <1>6, RecordKeeps DEF r
<1>8. /\ r.floor = s.floor + 1 /\ r.snapshot = s.snapshot /\ r.accepted = s.accepted \cup p.revoked
      /\ r.status_key_epoch = s.status_key_epoch
      /\ ToSet(r.observations) = ToSet(s.observations) \cup {ob}
  BY <1>1, <1>3, <1>4, <1>7 DEF SameBase
<1>9. Observed(r, H2)
  BY <1>1, <1>8 DEF Observed, H2
<1>10. Covered(r)
  <2> SUFFICES ASSUME NEW c \in r.accepted
               PROVE  \E x \in ToSet(r.observations) : Firm(r, x) /\ c \in x.revoked
    BY DEF Covered
  <2>1. CASE c \in s.accepted
    <3>1. PICK x \in ToSet(s.observations) : Firm(s, x) /\ c \in x.revoked
      BY <1>1, <2>1 DEF Covered
    <3>2. x.seq \in Nat
      <4>1. x \in Known(s.deny_union, H, s.status_key_epoch)
        BY <1>1, KnownAt
      <4> QED
        BY <4>1 DEF Known, ObservationType
    <3>3. Firm(r, x)
      BY <1>2, <1>8, <3>1, <3>2 DEF Firm, IsAcceptedBase
    <3> QED
      BY <1>8, <3>1, <3>3
  <2>2. CASE c \in p.revoked
    <3>1. Firm(r, ob)
      BY <1>2, <1>6, <1>8 DEF Firm, Flagged
    <3>2. c \in ob.revoked
      BY <1>6, <2>2 DEF Flagged
    <3> QED
      BY <1>8, <3>1, <3>2
  <2> QED
    BY <1>8, <2>1, <2>2
<1>11. Settled(r, H2)
  <2>1. \A h \in H :
          /\ h.revoked \subseteq s.accepted
          /\ h.type = "list" /\ h.seq = s.snapshot.seq => h.revoked = s.snapshot.revoked
          /\ h.type = "push" /\ h.seq <= s.snapshot.seq => h.revoked \subseteq s.snapshot.revoked
    BY <1>1 DEF Settled
  <2>2. ~(p.seq <= s.snapshot.seq)
    BY <1>2
  <2> QED
    BY <1>8, <2>1, <2>2 DEF Settled, H2
<1> QED
  BY <1>7, <1>9, <1>10, <1>11 DEF Good

(* Every way a push is decided leaves a sound state, if its omissions were *)
(* marked.                                                                 *)
LEMMA DecidePushGood ==
  ASSUME NEW s, NEW H, Sound(s, H), NEW p \in Authentic, p.type = "push",
         NEW t, NEW D, NEW m, Took(t, s, D, m, H \cup {p}), SameBase(t, s),
         t.observations = s.observations, s.reconciliation => t.reconciliation,
         t.reconciliation \/
           (s.floor > 0 /\ p.seq <= s.snapshot.seq => p.revoked \subseteq s.snapshot.revoked),
         NEW o \in Known(D, H \cup {p}, s.status_key_epoch),
         o.epoch = s.status_key_epoch, o.type = "push", o.seq = p.seq, o.revoked = p.revoked
  PROVE  Good(DecidePush(s, t, p, o), s, D, m, H \cup {p})
<1> DEFINE H2 == H \cup {p}
           K == Known(D, H2, s.status_key_epoch)
           forked == MarkFork(t, p.seq)
           gapped == [t EXCEPT !.reconciliation = TRUE]
           moved == [t EXCEPT !.accepted = @ \cup p.revoked, !.floor = p.seq,
                              !.preceding_floor = 0, !.preceding_accepted = {}]
           oa == [o EXCEPT !.accepted = TRUE]
           r == DecidePush(s, t, p, o)
<1> SUFFICES Good(r, s, D, m, H2)
  OBVIOUS
<1>1. /\ p.seq \in Nat /\ p.seq <= m /\ s.floor \in Nat
  <2>1. p \in H \cup {p}
    OBVIOUS
  <2> QED
    BY <2>1, ObjectTyped DEF Sound, Took, Consistent, StatusType
<1>2. r = IF s.floor > 0 /\ p.seq <= s.floor
            THEN IF PushContradictsFloor(s, p) THEN Record(forked, [o EXCEPT !.fork = TRUE])
                 ELSE IF p.seq < s.floor \/ ~o.fork THEN Record(t, o)
                 ELSE Record(gapped, [o EXCEPT !.gap = TRUE])
          ELSE IF s.floor = 0 \/ p.seq # s.floor + 1 \/ t.reconciliation
            THEN Record(gapped, [o EXCEPT !.gap = ~o.fork])
          ELSE Record(moved, oa)
  BY DEF DecidePush
<1>3. /\ [o EXCEPT !.fork = TRUE] \in K /\ [o EXCEPT !.gap = TRUE] \in K
      /\ [o EXCEPT !.gap = ~o.fork] \in K
  <2>1. (~o.fork) \in BOOLEAN /\ TRUE \in BOOLEAN
    OBVIOUS
  <2> QED
    BY <2>1, FlagsKeep
<1>4. /\ Took(forked, s, D, m, H2) /\ forked.observations = s.observations
      /\ SameBase(forked, s) /\ forked.reconciliation
  BY <1>1, MarkForkKeeps DEF SameBase
<1>5. /\ Took(gapped, s, D, m, H2) /\ gapped.observations = s.observations
      /\ SameBase(gapped, s) /\ gapped.reconciliation
  BY ReconciliationKeeps DEF SameBase
<1> HIDE DEF r, forked, gapped
<1>6. \A x \in K : Good(Record(forked, x), s, D, m, H2) /\ Good(Record(gapped, x), s, D, m, H2)
  BY <1>4, <1>5, NotedPushGood
<1>7. ASSUME s.floor > 0, ~PushContradictsFloor(s, p)
      PROVE  Good(Record(t, o), s, D, m, H2)
  <2>1. p.revoked \subseteq s.accepted
    BY <1>7 DEF PushContradictsFloor
  <2>2. t.reconciliation \/ Fits(s, p)
    BY <2>1 DEF Fits
  <2> QED
    BY <2>2, NotedPushGood
<1>8. ASSUME s.floor > 0, p.seq = s.floor + 1, ~t.reconciliation
      PROVE  Good(Record(moved, oa), s, D, m, H2)
  BY <1>8, MovedGood
<1> HIDE DEF H2, K, moved, oa
<1>9. s.floor = 0 \/ s.floor > 0
  BY <1>1
<1> QED
  BY <1>2, <1>3, <1>6, <1>7, <1>8, <1>9

(* Compaction keeps the state good.                                        *)
LEMMA GoodCompact ==
  ASSUME NEW s, NEW t, NEW D, NEW m, NEW H, Good(t, s, D, m, H)
  PROVE  Good(Compact(t), s, D, m, H)
BY CompactKeeps DEF Good

(* apply_revocation_list_v2 keeps the invariant.                           *)
LEMMA ApplyListGood ==
  ASSUME NEW s, NEW H, Sound(s, H), NEW l \in Authentic, l.type = "list", NEW time
  PROVE  Good(ApplyList(s, l, time), s, DenyUnionWith(s, l), Top(s, l), H \cup {l})
<1>1. CASE ListIgnored(s, l, time)
  <2>1. FindObservation(s, l) # 0 \/ FindSetObservation(s, l) # 0
    BY <1>1 DEF ListIgnored
  <2>2. Twin(H, l)
    BY <2>1, FoundHeard, FoundSetTwin DEF Twin, Sound
  <2>3. Good(s, s, DenyUnionWith(s, l), Top(s, l), H \cup {l})
    BY <2>2, TwinSound DEF Good, Sound
  <2> QED
    BY <1>1, <2>3, GoodCompact DEF ApplyList
<1>2. CASE ~ListIgnored(s, l, time)
  BY <1>2, ReduceListGood, GoodCompact DEF ApplyList
<1> QED
  BY <1>1, <1>2

(* The omissions lie at sequences heard, and without one the snapshot      *)
(* holds the push (omitting_snapshots).                                    *)
LEMMA OmittingBelow ==
  ASSUME NEW s, NEW H, Consistent(s, H), NEW p \in Authentic
  PROVE  /\ OmittingSnapshots(s, p) \subseteq 0..s.max_observed
         /\ OmittingSnapshots(s, p) = {} =>
              (s.floor > 0 /\ p.seq <= s.snapshot.seq => p.revoked \subseteq s.snapshot.revoked)
<1>1. s \in StatusType /\ s.max_observed \in Nat /\ s.floor \in Nat /\ p.seq \in Nat
  BY ObjectTyped DEF Consistent, StatusType
<1>2. ASSUME NEW x \in {s.snapshot} \ {NoList} PROVE x.seq \in 0..s.max_observed
  <2>1. x = s.snapshot /\ s.floor > 0
    BY DEF Consistent
  <2> QED
    BY <1>1, <2>1, SnapshotTyped
<1>3. ASSUME NEW o \in ToSet(s.observations), o.epoch = s.status_key_epoch
      PROVE  o.seq \in 0..s.max_observed
  <2>1. o \in Known(s.deny_union, H, s.status_key_epoch)
    BY KnownAt
  <2>2. o.evidence \in H /\ o.seq = o.evidence.seq /\ o.seq \in Nat
    BY <1>3, <2>1 DEF Known, Faithful, ObservationType
  <2> QED
    BY <1>1, <2>2 DEF Consistent
<1>4. OmittingSnapshots(s, p) \subseteq 0..s.max_observed
  BY <1>2, <1>3 DEF OmittingSnapshots
<1>5. ASSUME OmittingSnapshots(s, p) = {}, s.floor > 0, p.seq <= s.snapshot.seq
      PROVE  p.revoked \subseteq s.snapshot.revoked
  <2>1. s.snapshot \in {s.snapshot} \ {NoList} /\ s.snapshot.seq \in Nat
    BY <1>5, SnapshotTyped DEF Consistent
  <2>2. s.snapshot.seq >= p.seq
    BY <1>1, <1>5, <2>1
  <2>3. ASSUME ~(p.revoked \subseteq s.snapshot.revoked) PROVE FALSE
    <3>1. s.snapshot.seq \in OmittingSnapshots(s, p)
      BY <2>1, <2>2, <2>3 DEF OmittingSnapshots
    <3> QED
      BY <1>5, <3>1
  <2> QED
    BY <2>3
<1> QED
  BY <1>4, <1>5

(* A push that is reduced leaves a sound state.                            *)
LEMMA ReducePushGood ==
  ASSUME NEW s, NEW H, Sound(s, H), NEW p \in Authentic, p.type = "push", NEW time
  PROVE  Good(ReducePush(s, p, time), s, DenyUnionWith(s, p), Top(s, p), H \cup {p})
<1> DEFINE D == DenyUnionWith(s, p)
           m == Top(s, p)
           H2 == H \cup {p}
           conflict == SequenceConflict(s, p)
           noted == Noted(s, p, time)
           s1    == IF conflict THEN MarkFork(noted, p.seq) ELSE noted
           omit  == OmittingSnapshots(s1, p)
           s2    == IF omit = {} THEN s1 ELSE MarkFork(s1, Max(omit))
           fork  == conflict \/ omit # {}
           o     == [Observation(s, p, time) EXCEPT !.fork = fork]
           r     == ReducePush(s, p, time)
<1> SUFFICES Good(r, s, D, m, H2)
  OBVIOUS
<1>1. conflict \in BOOLEAN /\ fork \in BOOLEAN
  BY DEF SequenceConflict
<1>2. r = DecidePush(s, s2, p, o)
  BY DEF ReducePush, MarkConflict, MarkOmissions
<1>3. /\ Consistent(s, H) /\ s \in StatusType /\ p.seq \in Nat /\ m \in Nat /\ p.seq <= m
  BY TopBound DEF Sound, Consistent
<1>4. /\ Took(noted, s, D, m, H2)
      /\ noted.observations = s.observations /\ SameBase(noted, s)
      /\ s.reconciliation => noted.reconciliation
  BY <1>3, NotedTook
<1>5. /\ o \in Known(D, H2, s.status_key_epoch)
      /\ o.epoch = s.status_key_epoch /\ o.type = "push" /\ o.seq = p.seq
      /\ o.revoked = p.revoked
  <2>1. p.revoked \subseteq D /\ p \in H2
    BY DEF DenyUnionWith
  <2> HIDE DEF fork, D, H2, m, noted, s1, s2, r
  <2>2. s \in StatusType /\ fork \in BOOLEAN
    BY <1>1, <1>3
  <2>3. o \in Known(D, H2, s.status_key_epoch)
    BY <2>1, <2>2, ObservationKnown
  <2>4. Flagged(Observation(s, p, time), o)
    BY <2>1, <2>2, ObservationKnown
  <2> QED
    BY <2>3, <2>4, ObservationOf DEF Flagged
<1> HIDE DEF D, m, H2, noted, r, o, conflict
<1>6. /\ Took(s1, s, D, m, H2)
      /\ s1.observations = s.observations /\ SameBase(s1, s)
      /\ s.reconciliation => s1.reconciliation
  <2>1. CASE conflict
    BY <1>3, <1>4, <2>1, MarkForkKeeps DEF SameBase
  <2>2. CASE ~conflict
    BY <1>4, <2>2
  <2> QED
    BY <2>1, <2>2
<1> HIDE DEF s1
<1>7. /\ omit \subseteq 0..m
      /\ omit = {} =>
           (s.floor > 0 /\ p.seq <= s.snapshot.seq => p.revoked \subseteq s.snapshot.revoked)
  <2>1. Consistent(s1, H2) /\ s1.max_observed = m
    BY <1>6 DEF Took
  <2>2. s1.floor = s.floor /\ s1.snapshot = s.snapshot
    BY <1>6 DEF SameBase
  <2>3. /\ omit \subseteq 0..s1.max_observed
        /\ omit = {} =>
             (s1.floor > 0 /\ p.seq <= s1.snapshot.seq => p.revoked \subseteq s1.snapshot.revoked)
    BY <2>1, OmittingBelow
  <2> QED
    BY <2>1, <2>2, <2>3
<1> HIDE DEF omit
<1>8. /\ Took(s2, s, D, m, H2)
      /\ s2.observations = s.observations /\ SameBase(s2, s)
      /\ s.reconciliation => s2.reconciliation
      /\ s2.reconciliation \/ omit = {}
  <2>1. CASE omit = {}
    BY <1>6, <2>1
  <2>2. CASE omit # {}
    <3>1. Max(omit) \in omit
      BY <1>3, <1>7, <2>2, GreatestOf
    <3>2. Max(omit) \in 0..m
      BY <1>7, <3>1
    <3>3. Max(omit) \in Nat /\ Max(omit) <= m
      BY <1>3, <3>2
    <3> QED
      BY <1>6, <2>2, <3>3, MarkForkKeeps DEF SameBase
  <2> QED
    BY <2>1, <2>2
<1> HIDE DEF s2
<1> QED
  BY <1>2, <1>5, <1>7, <1>8, DecidePushGood DEF H2

(* apply_revocation_push_v2 keeps the invariant.                           *)
LEMMA ApplyPushGood ==
  ASSUME NEW s, NEW H, Sound(s, H), NEW p \in Authentic, p.type = "push", NEW time
  PROVE  Good(ApplyPush(s, p, time), s, DenyUnionWith(s, p), Top(s, p), H \cup {p})
<1>1. CASE PushIgnored(s, p)
  <2>1. Twin(H, p)
    BY <1>1, PushIgnoredTwin DEF Sound
  <2>2. Good(s, s, DenyUnionWith(s, p), Top(s, p), H \cup {p})
    BY <2>1, TwinSound DEF Good, Sound
  <2> QED
    BY <1>1, <2>2, GoodCompact DEF ApplyPush
<1>2. CASE ~PushIgnored(s, p)
  BY <1>2, ReducePushGood, GoodCompact DEF ApplyPush
<1> QED
  BY <1>1, <1>2

(* Whatever object is applied, at whatever time, the state is sound for    *)
(* the history with it.                                                    *)
LEMMA ApplyGood ==
  ASSUME NEW s, NEW H, Sound(s, H), NEW o \in Authentic, NEW time
  PROVE  Good(Apply(s, o, time), s, DenyUnionWith(s, o), Top(s, o), H \cup {o})
<1>1. CASE o.type = "list"
  BY <1>1, ApplyListGood DEF Apply
<1>2. CASE o.type = "push"
  BY <1>2, ApplyPushGood DEF Apply
<1> QED
  BY <1>1, <1>2, ObjectTyped

-----------------------------------------------------------------------------
(* Histories.                                                              *)

(* The inductive invariant: the state is sound for what was heard in its   *)
(* epoch, it denies exactly what any epoch revoked, and its highest        *)
(* sequence was heard.                                                     *)
HistoryInv ==
  /\ Sound(status, heard)
  /\ status.deny_union = AllRevoked
  /\ status.max_observed = 0 \/ \E o \in heard : o.seq = status.max_observed
  /\ clock \in Nat

(* The empty state is sound.                                               *)
LEMMA InitHistory == HistoryInit => HistoryInv
<1> SUFFICES ASSUME HistoryInit PROVE HistoryInv
  OBVIOUS
<1>1. StatusKeys[1] \in StatusKeyValues /\ 1 \in DOMAIN StatusKeys
  BY HistoryAssumption DEF StatusKeyValues
<1>2. status \in StatusType
  BY <1>1 DEF HistoryInit, EmptyStatus, StatusType
<1>3. Consistent(status, heard)
  BY <1>2 DEF HistoryInit, EmptyStatus, Consistent
<1>4. status.deny_union = {} /\ status.max_observed = 0 /\ status.floor = 0
  BY DEF HistoryInit, EmptyStatus
<1>5. Observed(status, heard) /\ Covered(status) /\ Settled(status, heard)
  BY <1>4 DEF HistoryInit, Observed, Covered, Settled
<1> QED
  BY <1>3, <1>4, <1>5 DEF HistoryInit, HistoryInv, Sound, AllRevoked

(* Applying an object keeps the invariant.                                 *)
LEMMA ObserveKeeps ==
  ASSUME HistoryInv, NEW o \in Authentic, Observe(o)
  PROVE  HistoryInv'
<1>1. Good(status', status, DenyUnionWith(status, o), Top(status, o), heard \cup {o})
  BY ApplyGood DEF Observe, HistoryInv
<1>2. heard' = heard \cup {o} /\ carried' = carried /\ clock' = clock
  BY DEF Observe
<1>3. /\ Sound(status', heard \cup {o}) /\ status'.deny_union = status.deny_union \cup o.revoked
      /\ status'.max_observed = Higher(status.max_observed, o.seq)
  BY <1>1 DEF Good, Took, Sound, DenyUnionWith, Top
<1>4. Sound(status, heard)' = Sound(status', heard \cup {o})
  BY <1>2 DEF Sound, Consistent, Observed, Covered, Settled
<1>5. status'.deny_union = AllRevoked'
  BY <1>2, <1>3 DEF HistoryInv, AllRevoked
<1>6. status'.max_observed = 0 \/ \E x \in heard' : x.seq = status'.max_observed
  <2>1. status'.max_observed \in {status.max_observed, o.seq}
    BY <1>3 DEF Higher
  <2> QED
    BY <1>2, <2>1 DEF HistoryInv
<1> QED
  BY <1>2, <1>3, <1>4, <1>5, <1>6 DEF HistoryInv

(* So does a status-key epoch transition, which keeps the denials and the  *)
(* evidence and starts a new history.                                      *)
LEMMA ReplaceKeyKeeps ==
  ASSUME HistoryInv, ReplaceKey
  PROVE  HistoryInv'
<1> DEFINE e == status.status_key_epoch + 1
<1>1. /\ e \in DOMAIN StatusKeys /\ status' = TransitionEpoch(status, e, StatusKeys[e])
      /\ heard' = {} /\ carried' = carried \cup UNION {o.revoked : o \in heard}
      /\ clock' = clock
  BY DEF ReplaceKey
<1>2. status \in StatusType /\ StatusKeys[e] \in StatusKeyValues
      /\ status.status_key_epoch \in Nat
      /\ status.observations \in Seq(Known(status.deny_union, heard, status.status_key_epoch))
  BY <1>1, HistoryAssumption DEF HistoryInv, Sound, Consistent, StatusKeyValues, StatusType
<1>3. status.observations \in Seq(Known(status.deny_union, {}, e))
  <2>1. Known(status.deny_union, heard, status.status_key_epoch)
          \subseteq Known(status.deny_union, {}, e)
    <3>1. \A x \in DOMAIN StatusKeys : x \in Nat
      BY HistoryAssumption
    <3> QED
      BY <1>2, <3>1 DEF Known, ObservationType
  <2> QED
    BY <1>2, <2>1
<1> HIDE DEF e
<1>4. status'.deny_union = status.deny_union /\ status'.max_observed = 0
      /\ status'.observations = status.observations /\ status'.status_key_epoch = e
      /\ status'.floor = 0 /\ status'.fork_sequence = 0 /\ status'.snapshot = NoList
      /\ status'.future_observed = FALSE
  BY <1>1 DEF TransitionEpoch, EmptyStatus
<1>5. status' \in StatusType
  <2>1. status.retired \cup {status.status_key} \in SUBSET StatusKeyValues
    BY <1>2 DEF StatusType
  <2> QED
    BY <1>1, <1>2, <2>1 DEF TransitionEpoch, EmptyStatus, StatusType
<1>6. Consistent(status', {})
  BY <1>3, <1>4, <1>5 DEF Consistent
<1>7. Observed(status', {}) /\ Covered(status') /\ Settled(status', {})
  BY <1>4 DEF Observed, Covered, Settled
<1>8. Sound(status, heard)'
  BY <1>1, <1>6, <1>7 DEF Sound, Consistent, Observed, Covered, Settled
<1>9. status'.deny_union = AllRevoked'
  BY <1>1, <1>4 DEF HistoryInv, AllRevoked
<1> QED
  BY <1>1, <1>4, <1>8, <1>9 DEF HistoryInv

(* Every step keeps the invariant.                                         *)
LEMMA HistoryStep == HistoryInv /\ [HistoryNext]_historyVars => HistoryInv'
<1> SUFFICES ASSUME HistoryInv, [HistoryNext]_historyVars PROVE HistoryInv'
  OBVIOUS
<1>1. ASSUME NEW o \in Authentic, Observe(o) PROVE HistoryInv'
  BY <1>1, ObserveKeeps
<1>2. CASE ReplaceKey
  BY <1>2, ReplaceKeyKeeps
<1>3. CASE ClockTick \/ UNCHANGED historyVars
  <2>1. /\ status' = status /\ heard' = heard /\ carried' = carried
        /\ clock' \in Nat
    BY <1>3 DEF ClockTick, historyVars, HistoryInv
  <2>2. Sound(status, heard)'
    BY <2>1 DEF HistoryInv, Sound, Consistent, Observed, Covered, Settled
  <2> QED
    BY <2>1, <2>2 DEF HistoryInv, AllRevoked
<1> QED
  BY <1>1, <1>2, <1>3 DEF HistoryNext

(* A retained observation denies nothing new, and in this epoch lies at or *)
(* below max_observed.                                                     *)
LEMMA ObservationBound ==
  ASSUME NEW s, NEW H, Consistent(s, H), NEW o \in ToSet(s.observations)
  PROVE  /\ o.revoked \subseteq s.deny_union /\ o.seq \in Nat
         /\ o.epoch = s.status_key_epoch =>
              o.seq <= s.max_observed /\ o.evidence \in H /\ o.evidence.seq = o.seq
<1>1. o \in Known(s.deny_union, H, s.status_key_epoch)
  BY KnownAt
<1>2. o.revoked \subseteq s.deny_union /\ o.seq \in Nat /\ o.evidence.seq = o.seq
  BY <1>1 DEF Known, Faithful, ObservationType
<1> QED
  BY <1>1, <1>2 DEF Known, Consistent

(* A valid state answers revoked for exactly what it denies.               *)
LEMMA RevokedFollows == HistoryInv => RevokedIffHeard
<1> SUFFICES ASSUME HistoryInv, StateStaysValid, NEW c \in Certs
             PROVE  Status(c) = "revoked" <=> c \in AllRevoked
  BY DEF RevokedIffHeard
<1>1. ValidBinding(status) /\ ValidAcceptedState(status)
  BY DEF StateStaysValid
<1>2. status.deny_union = AllRevoked
  BY DEF HistoryInv
<1>3. CASE c \in status.deny_union
  BY <1>1, <1>2, <1>3 DEF Status, StatusForCert, Answered
<1>4. CASE c \notin status.deny_union
  BY <1>1, <1>2, <1>4 DEF Status, StatusForCert, Answered
<1> QED
  BY <1>3, <1>4

(* Nothing is observed above max_observed.                                 *)
LEMMA NoneAt ==
  ASSUME NEW s, NEW H, Consistent(s, H), NEW seq \in Nat, seq > s.max_observed, NEW type
  PROVE  At(s, type, seq) = {}
<1>1. s.max_observed \in Nat
  BY DEF Consistent, StatusType
<1> QED
  BY <1>1, ObservationBound DEF At

(* A fresh list above every sequence seen that holds every denial is       *)
(* accepted, and the state it leaves is usable whatever it was before:     *)
(* nothing can fork with it, and it ends the reconciliation.               *)
LEMMA AcceptedAbove ==
  ASSUME NEW s, NEW H, Consistent(s, H), NEW l \in Authentic, NEW time, l.type = "list",
         ListFresh(l, time), l.seq > s.max_observed, s.deny_union \subseteq l.revoked
  PROVE  Usable(Apply(s, l, time))
<1> DEFINE n == [s EXCEPT !.deny_union = l.revoked, !.max_observed = l.seq]
<1>1. /\ s \in StatusType /\ s.max_observed \in Nat /\ s.floor \in Nat /\ s.fork_sequence \in Nat
      /\ s.floor <= s.max_observed /\ s.fork_sequence <= s.max_observed
      /\ s.future_observed => s.reconciliation
      /\ s.reconciliation \in BOOLEAN /\ s.future_observed \in BOOLEAN
      /\ l.seq \in Nat /\ l.seq > 0
  BY ObjectTyped DEF Consistent, StatusType
<1>2. At(s, "list", l.seq) = {} /\ At(s, "push", l.seq) = {}
  BY <1>1, NoneAt
<1>3. FindObservation(s, l) = 0 /\ FindSetObservation(s, l) = 0
  <2>1. ASSUME NEW i \in 1..Len(s.observations)
        PROVE  ~(s.observations[i].epoch = s.status_key_epoch /\ s.observations[i].seq = l.seq)
    <3>1. s.observations[i] \in ToSet(s.observations)
      BY DEF ToSet, Consistent
    <3>2. s.observations[i].epoch = s.status_key_epoch =>
            s.observations[i].seq \in Nat /\ s.observations[i].seq <= s.max_observed
      BY <3>1, ObservationBound
    <3> QED
      BY <1>1, <3>2
  <2> QED
    BY <2>1, Zenon DEF FindObservation, FindSetObservation, SelectLastInSeq
<1>4. ~ListIgnored(s, l, time)
  BY <1>3, Zenon DEF ListIgnored
<1>5. Noted(s, l, time) = n
  <2>1. ~BeyondSkew(l.at, time)
    BY DEF ListFresh
  <2>2. Max({s.max_observed, l.seq}) = l.seq
    BY <1>1, MaxOfTwo DEF Higher
  <2>3. s.deny_union \cup l.revoked = l.revoked
    OBVIOUS
  <2>4. Noted(s, l, time) =
          [s EXCEPT !.deny_union = s.deny_union \cup l.revoked,
                    !.max_observed = Max({s.max_observed, l.seq})]
    BY <1>1, <1>3, <2>1 DEF Noted, StatusType
  <2> QED
    BY <2>2, <2>3, <2>4
<1>6. ~ListForks(s, l)
  <2>1. ~SequenceConflict(s, l)
    BY <1>2 DEF SequenceConflict
  <2>2. RequiredForSnapshot(s, l.seq) \subseteq l.revoked
    <3>1. ASSUME NEW o \in ToSet(s.observations) PROVE o.revoked \subseteq l.revoked
      BY ObservationBound
    <3> QED
      BY <3>1 DEF RequiredForSnapshot
  <2>3. ~SnapshotConflictsWithPush(s, l)
    BY <1>2 DEF SnapshotConflictsWithPush
  <2> QED
    BY <1>1, <2>1, <2>2, <2>3 DEF ListForks
<1> DEFINE o == [Observation(s, l, time) EXCEPT !.fork = FALSE]
           r == Reconcile(AcceptSnapshot(n, l), l)
           t == Record(r, [o EXCEPT !.accepted = TRUE])
<1>7. n \in StatusType /\ n.floor = s.floor /\ n.fork_sequence = s.fork_sequence
      /\ n.reconciliation = s.reconciliation /\ n.future_observed = s.future_observed
      /\ n.max_observed = l.seq /\ n.deny_union = l.revoked
  BY <1>1, ObjectTyped DEF StatusType
<1> HIDE DEF n
<1>8. ReduceList(s, l, time) = t
  <2>1. ReduceList(s, l, time) = DecideList(s, n, l, o, FALSE, TRUE)
    <3>1. ListForks(s, l) = FALSE
      BY <1>6 DEF ListForks
    <3>2. (FindObservation(s, l) # 0) = FALSE /\ ListFresh(l, time) = TRUE
      BY <1>3 DEF ListFresh
    <3> QED
      BY <1>5, <3>1, <3>2, Zenon DEF ReduceList, ReduceForked
  <2>2. o.fork = FALSE
    BY DEF Observation
  <2> HIDE DEF o
  <2>3. l.seq >= l.seq /\ ~(l.seq < s.floor)
    BY <1>1
  <2> QED
    BY <2>1, <2>2, <2>3, <1>1, <1>7 DEF DecideList
<1> DEFINE a == AcceptSnapshot(n, l)
<1>9. /\ a \in StatusType /\ a.floor = l.seq /\ a.accepted = l.revoked
      /\ a.fork_sequence = s.fork_sequence /\ a.reconciliation = s.reconciliation
      /\ a.future_observed = s.future_observed /\ a.max_observed = l.seq
      /\ a.deny_union = l.revoked
  <2> DEFINE pf == IF n.floor > 0 /\ l.seq = n.floor + 1 THEN n.floor ELSE 0
             pa == IF n.floor > 0 /\ l.seq = n.floor + 1 THEN n.accepted ELSE {}
  <2>1. a = [n EXCEPT !.preceding_floor = pf, !.preceding_accepted = pa,
                      !.snapshot = l, !.accepted = l.revoked, !.floor = l.seq]
    BY <1>1, <1>7 DEF AcceptSnapshot
  <2>2. pf \in Nat /\ pa \in SUBSET Certs /\ l.revoked \in SUBSET Certs
    BY <1>7, ObjectTyped DEF StatusType
  <2> HIDE DEF pf, pa, a
  <2>3. a \in StatusType
    BY <1>1, <1>7, <2>1, <2>2 DEF StatusType
  <2>4. /\ a.floor = l.seq /\ a.accepted = l.revoked
        /\ a.fork_sequence = n.fork_sequence /\ a.reconciliation = n.reconciliation
        /\ a.future_observed = n.future_observed /\ a.max_observed = n.max_observed
        /\ a.deny_union = n.deny_union
    BY <1>7, <2>1 DEF StatusType
  <2> QED
    BY <1>7, <2>3, <2>4
<1> HIDE DEF a
<1>10. /\ r \in StatusType /\ r.floor = l.seq /\ r.accepted = l.revoked /\ r.reconciliation = FALSE
       /\ r.future_observed = FALSE /\ r.max_observed = l.seq /\ r.deny_union = l.revoked
  <2>1. r = Reconcile(a, l)
    BY DEF a
  <2>2. CASE a.reconciliation
    <3>1. r = [a EXCEPT !.reconciliation = FALSE, !.future_observed = FALSE, !.fork_sequence = 0]
      BY <1>1, <1>9, <2>1, <2>2 DEF Reconcile
    <3> HIDE DEF r
    <3> QED
      BY <1>9, <3>1 DEF StatusType
  <2>3. CASE ~a.reconciliation
    <3>1. r = a
      BY <2>1, <2>3 DEF Reconcile
    <3> HIDE DEF r
    <3> QED
      BY <1>1, <1>9, <2>3, <3>1 DEF StatusType
  <2> QED
    BY <2>2, <2>3
<1> HIDE DEF r
<1>11. Apply(s, l, time) = Compact(t)
  BY <1>4, <1>8 DEF Apply, ApplyList
<1>12. PICK x, y : /\ t = [r EXCEPT !.observations = x]
                   /\ Compact(t) = [t EXCEPT !.observations = y]
  BY Zenon DEF Record, Compact
<1> DEFINE u == Compact(t)
<1>13. /\ u.floor = l.seq /\ u.accepted = l.revoked /\ u.reconciliation = FALSE
       /\ u.future_observed = FALSE /\ u.max_observed = l.seq /\ u.deny_union = l.revoked
  <2> HIDE DEF t
  <2> QED
    BY <1>10, <1>12 DEF StatusType
<1> HIDE DEF u
<1>14. MaxListLifetime # 0 /\ MaxStatusAge # 0
  BY DEF ListFresh
<1>15. Usable(u)
  BY <1>1, <1>13, <1>14 DEF Usable
<1> QED
  BY <1>11, <1>15 DEF u

(* So no history is a dead end.                                            *)
LEMMA RecoverableFollows == HistoryInv => Recoverable
<1> SUFFICES ASSUME HistoryInv, NEW l \in Authentic,
                    l.type = "list", l.key = status.status_key, ListFresh(l, clock),
                    \A o \in heard : o.seq < l.seq, AllRevoked \subseteq l.revoked
             PROVE  Usable(Apply(status, l, clock))
  BY DEF Recoverable
<1>1. l.seq > status.max_observed
  <2>1. l.seq > 0
    BY ObjectTyped
  <2>2. CASE status.max_observed = 0
    BY <2>1, <2>2
  <2>3. CASE \E o \in heard : o.seq = status.max_observed
    <3>1. PICK o \in heard : o.seq = status.max_observed
      BY <2>3
    <3>2. o.seq \in Nat /\ l.seq \in Nat /\ o.seq < l.seq
      BY ObjectTyped DEF HistoryInv, Sound, Consistent
    <3> QED
      BY <3>1, <3>2
  <2> QED
    BY <2>2, <2>3 DEF HistoryInv, Sound, Consistent
<1> QED
  BY <1>1, AcceptedAbove DEF HistoryInv, Sound

(* Whatever was heard, in whatever order, at whatever time and over any    *)
(* number of status keys, the answer is revoked for exactly the            *)
(* certificates some authentic object revoked, and no history is a dead    *)
(* end (apply_list_inner, apply_push_inner, compact,                       *)
(* transition_revocation_status_epoch_v2).                                 *)
THEOREM HistoryHolds == HistorySpec => []HistoryAbsorbed
<1>1. HistoryInv => HistoryAbsorbed
  BY RevokedFollows, RecoverableFollows DEF HistoryAbsorbed
<1> QED
  BY InitHistory, HistoryStep, <1>1, PTL DEF HistorySpec

(* A usable state answers from its snapshot and the pushes that reach its  *)
(* floor: settled, it contradicts nothing heard, and validation makes the  *)
(* pushes contiguous.                                                      *)
LEMMA NotRevokedFollows == HistoryInv => NotRevokedSound
<1> SUFFICES ASSUME HistoryInv, NEW cert \in Certs, Status(cert) = "not_revoked"
             PROVE  NotRevokedSound
  BY DEF NotRevokedSound
<1> DEFINE l == status.snapshot
           P == {p \in Heard("push") : p.seq > l.seq}
           Q == {p.seq : p \in P}
<1>1. /\ ValidBinding(status) /\ ValidAcceptedState(status)
      /\ Usable(status) /\ ListFresh(status.snapshot, clock)
  <2>1. Answered("not_revoked", "none", AcceptedEvidence(status),
                 Min({l.until, l.at + MaxStatusAge})).status = "not_revoked"
    BY DEF Answered
  <2>2. NoAnswer.status # "not_revoked"
    BY DEF NoAnswer, Answered
  <2>3. \A e, x : /\ Answered("revoked", "none", e, x).status # "not_revoked"
                  /\ Answered("indeterminate", "unavailable", e, x).status # "not_revoked"
                  /\ Answered("indeterminate", "stale", e, x).status # "not_revoked"
    BY DEF Answered
  <2> QED
    BY <2>2, <2>3, Zenon DEF Status, StatusForCert
<1>2. /\ status.floor > 0 /\ ~status.reconciliation /\ status.floor >= status.max_observed
      /\ status.deny_union \subseteq status.accepted
  BY <1>1 DEF Usable
<1>3. Consistent(status, heard) /\ Settled(status, heard)
      /\ status.deny_union = AllRevoked /\ clock \in Nat
  BY DEF HistoryInv, Sound
<1>4. /\ l \in heard /\ l \in Authentic /\ l.type = "list" /\ l.seq \in Nat /\ l.seq > 0
      /\ l.seq <= status.floor /\ status.floor \in Nat /\ status.max_observed \in Nat
      /\ l.at \in Int /\ l.until \in Int
  <2>1. l \in StatusObject
    BY <1>2, <1>3, SnapshotTyped, HistoryAssumption
  <2> QED
    BY <1>2, <1>3, <2>1, SnapshotTyped, ObjectTyped DEF StatusObject, Consistent, StatusType
<1>5. /\ status.accepted = l.revoked \cup UNION {p.revoked : p \in AcceptedPushes(status)}
      /\ {p.seq : p \in AcceptedPushes(status)} = (l.seq + 1)..status.floor
  BY <1>1, <1>2 DEF ValidAcceptedState, PushesReachFloor
<1>6. ASSUME NEW o \in AcceptedPushes(status)
      PROVE  o.evidence \in P /\ o.evidence.seq = o.seq /\ o.revoked \subseteq o.evidence.revoked
  <2>1. o \in ToSet(status.observations) /\ o.epoch = status.status_key_epoch
        /\ o.type = "push" /\ o.seq > l.seq
    BY <1>6 DEF AcceptedPushes
  <2>2. o \in Known(status.deny_union, heard, status.status_key_epoch)
    BY <1>3, <2>1, KnownAt
  <2>3. /\ o.evidence \in heard /\ o.evidence.type = "push" /\ o.evidence.seq = o.seq
        /\ o.revoked \subseteq o.evidence.revoked
    BY <2>1, <2>2 DEF Known, Faithful
  <2> QED
    BY <2>1, <2>3 DEF Heard
<1>7. \A o \in heard : o.seq \in Nat /\ o.seq <= status.floor
  <2>1. ASSUME NEW o \in heard PROVE o.seq \in Nat /\ o.seq <= status.floor
    <3>1. o \in Authentic /\ o.seq <= status.max_observed
      BY <1>3 DEF Consistent
    <3> QED
      BY <1>2, <1>4, <3>1, ObjectTyped
  <2> QED
    BY <2>1
<1>8. Q = (l.seq + 1)..status.floor
  <2>1. ASSUME NEW p \in P PROVE p.seq \in (l.seq + 1)..status.floor
    <3>1. p \in heard /\ p.seq > l.seq
      BY DEF Heard
    <3> QED
      BY <1>4, <1>7, <3>1
  <2>2. ASSUME NEW n \in (l.seq + 1)..status.floor PROVE n \in Q
    <3>1. PICK o \in AcceptedPushes(status) : o.seq = n
      BY <1>5, <2>2
    <3> QED
      BY <1>6, <3>1
  <2> QED
    BY <2>1, <2>2
<1>9. l.seq + Cardinality(Q) = status.floor
  <2>1. \A a, b \in Int : Cardinality(a..b) = IF a > b THEN 0 ELSE b - a + 1
    BY FS_Interval
  <2> DEFINE a == l.seq + 1
             b == status.floor
  <2>2. a \in Int /\ b \in Int /\ l.seq = a - 1 /\ a <= b + 1 /\ Q = a..b
    BY <1>4, <1>8
  <2> HIDE DEF l, Q, a, b
  <2>3. Cardinality(Q) = IF a > b THEN 0 ELSE b - a + 1
    BY <2>1, <2>2, Zenon
  <2>4. Cardinality(Q) = b - a + 1
    BY <2>2, <2>3
  <2> QED
    BY <2>2, <2>4 DEF b
<1>10. l \in Heard("list") \ Contradicted
  <2>1. \A o \in heard :
          /\ o.type = "list" /\ o.seq = l.seq => o.revoked = l.revoked
          /\ o.type = "push" /\ o.seq <= l.seq => o.revoked \subseteq l.revoked
    BY <1>2, <1>3 DEF Settled
  <2> QED
    BY <1>4, <2>1 DEF Contradicted, Heard
<1>11. clock < l.until /\ clock < l.at + MaxStatusAge
  <2>1. MaxStatusAge # 0 /\ clock < l.until
        /\ (clock < l.at \/ clock - l.at < MaxStatusAge)
    BY <1>1 DEF ListFresh
  <2> QED
    BY <1>3, <1>4, <2>1, HistoryAssumption
<1>12. AllRevoked \subseteq l.revoked \cup UNION {p.revoked : p \in P}
  <2>1. UNION {p.revoked : p \in AcceptedPushes(status)} \subseteq UNION {p.revoked : p \in P}
    BY <1>6
  <2> QED
    BY <1>2, <1>3, <1>5, <2>1
<1> HIDE DEF l
<1>13. LET pushes == {p \in Heard("push") : p.seq > l.seq}
           top    == l.seq + Cardinality({p.seq : p \in pushes})
       IN  /\ clock < l.until /\ clock < l.at + MaxStatusAge
           /\ AllRevoked \subseteq l.revoked \cup UNION {p.revoked : p \in pushes}
           /\ {p.seq : p \in pushes} = (l.seq + 1)..top
           /\ \A o \in heard : o.seq <= top
  BY <1>7, <1>8, <1>9, <1>11, <1>12
<1> QED
  BY <1>10, <1>13, Zenon DEF NotRevokedSound

(* not_revoked is answered only on a fresh list heard in this epoch which, *)
(* with the contiguous pushes after it, holds everything ever revoked and  *)
(* contradicts nothing heard (cert_status_from_revocation_state_v2).       *)
THEOREM NotRevokedHolds == HistorySpec => []NotRevokedSound
BY InitHistory, HistoryStep, NotRevokedFollows, PTL DEF HistorySpec

-----------------------------------------------------------------------------
(* The journal.                                                            *)

(* The anchored record passes the validation every load applies to it.     *)
ValidAnchored == ValidJournal(anchored)

-----------------------------------------------------------------------------
(* The gate: a commit leaves the anchored record alone, or replaces the    *)
(* record it was computed from by one the validation of the transition     *)
(* accepts (commit_security_journal_transition_v2).                        *)
LEMMA CommitGate ==
  ASSUME NEW current, NEW j, NEW up \in BOOLEAN,
         NEW out, out = Commit(current, j, up)
  PROVE  \/ Anchored(current, out) = anchored
         \/ ValidTransition(anchored, Anchored(current, out))
<1> DEFINE next == Proposed(current, j)
           blocked == CommitBlocked(current, next, up)
<1> HIDE DEF next
<1>1. blocked = "none" => ValidTransition(current, next)
  BY DEF CommitBlocked
<1>2. out = Swap(current, next, blocked)
  BY DEF Commit, CommitRecord, next
<1> HIDE DEF blocked
<1>3. CASE blocked # "none" \/ anchored # current
  <2>1. out.record = current
    BY <1>2, <1>3 DEF Swap, CommitFails
  <2> QED
    BY <2>1 DEF Anchored
<1>4. CASE blocked = "none" /\ anchored = current
  <2>1. out.record = next
    BY <1>2, <1>4 DEF Swap
  <2> QED
    BY <1>1, <1>4, <2>1 DEF Anchored
<1> QED
  BY <1>3, <1>4

(* No step changes the anchored record but through the gate.               *)
LEMMA StepGate ==
  ASSUME [Next]_journalVars
  PROVE  anchored' = anchored \/ ValidTransition(anchored, anchored')
<1>1. ASSUME NEW c \in Operators, NEW up \in BOOLEAN, CommitForOperator(c, up)
      PROVE  anchored' = anchored \/ ValidTransition(anchored, anchored')
  <2>1. PICK out : /\ out = Commit(operator[c].current,
                                   Updated(operator[c].current, operator[c].args), up)
                   /\ anchored' = Anchored(operator[c].current, out)
    BY <1>1 DEF CommitForOperator
  <2> QED
    BY <2>1, CommitGate
<1>2. ASSUME NEW e \in Stages, NEW up \in BOOLEAN, NEW answered \in BOOLEAN,
             StageCommit(e, up, answered)
      PROVE  anchored' = anchored \/ ValidTransition(anchored, anchored')
  <2>1. PICK out : /\ out = Commit(stage[e].current,
                                   WithBatch(stage[e].current, Issuer(e), stage[e].batch,
                                             stage[e].at), up)
                   /\ anchored' = Anchored(stage[e].current, out)
    BY <1>2 DEF StageCommit
  <2> QED
    BY <2>1, CommitGate
<1>3. ASSUME NEW c \in Operators, NEW a \in OpArgs, LoadForOperator(c, a)
      PROVE  anchored' = anchored
  BY <1>3 DEF LoadForOperator
<1>4. ASSUME NEW e \in Stages, StageBegin(e)
      PROVE  anchored' = anchored
  BY <1>4 DEF StageBegin
<1>5. ASSUME NEW e \in Stages, NEW up \in BOOLEAN, StageLoad(e, up)
      PROVE  anchored' = anchored
  BY <1>5 DEF StageLoad
<1>6. ASSUME NEW e \in Stages, NEW up \in BOOLEAN, NEW batch, StageProvider(e, batch, up)
      PROVE  anchored' = anchored
  BY <1>6 DEF StageProvider
<1>7. ASSUME NEW e \in Stages, StageAggregate(e)
      PROVE  anchored' = anchored
  BY <1>7 DEF StageAggregate
<1>8. ASSUME NEW e \in Stages, StageCancel(e)
      PROVE  anchored' = anchored
  BY <1>8 DEF StageCancel
<1>9. CASE Tick
  BY <1>9 DEF Tick
<1>10. CASE UNCHANGED journalVars
  BY <1>10 DEF journalVars
<1> QED
  BY <1>1, <1>2, <1>3, <1>4, <1>5, <1>6, <1>7, <1>8, <1>9, <1>10
     DEF Next, OperatorStep, StageStep

-----------------------------------------------------------------------------
(* The first record is valid.                                              *)
LEMMA GenesisValid == ValidJournal(Genesis)
BY DEF ValidJournal, Genesis

(* Every anchored record, whatever its writers computed, passes the        *)
(* validation of the journal (validate_security_journal_v2): the gate      *)
(* validates the record it lets in, so no load can meet another one.       *)
THEOREM AnchoredValid == Spec => []ValidAnchored
<1>1. Init => ValidAnchored
  BY GenesisValid DEF Init, ValidAnchored
<1>2. ValidAnchored /\ [Next]_journalVars => ValidAnchored'
  BY StepGate DEF ValidAnchored, ValidTransition
<1> QED
  BY <1>1, <1>2, PTL DEF Spec

-----------------------------------------------------------------------------
(* The refinement, by the gate: what the ledger allows is what the         *)
(* validation of a transition demands.                                     *)

(* What the ledger sees of a record.                                       *)
Denied(j) == [i \in Issuers |-> IF i \in DOMAIN j.status THEN j.status[i].deny_union ELSE {}]

(* A transition forgets no revocation.                                     *)
LEMMA TransitionDenies ==
  ASSUME NEW cur, NEW next, ValidTransition(cur, next), NEW i \in Issuers
  PROVE  Denied(cur)[i] \subseteq Denied(next)[i]
<1>1. CASE i \in DOMAIN cur.status
  <2>1. /\ i \in DOMAIN next.status
        /\ cur.status[i].deny_union \subseteq next.status[i].deny_union
    BY <1>1 DEF ValidTransition, ValidEvolution
  <2> QED
    BY <1>1, <2>1 DEF Denied
<1>2. CASE i \notin DOMAIN cur.status
  BY <1>2 DEF Denied
<1> QED
  BY <1>1, <1>2

(* A transition keeps every key assignment, and the record it ends in has  *)
(* its keys separated, its epochs in order and a status role for each.     *)
LEMMA TransitionAssigns ==
  ASSUME NEW cur, NEW next, ValidTransition(cur, next)
  PROVE  /\ cur.roles \subseteq next.roles /\ Ledger!Separated(next.roles)
         /\ cur.keys \subseteq next.keys /\ Ledger!Separated(next.keys)
         /\ Ledger!EpochsInOrder(next.keys)
         /\ \A b \in next.keys : [key |-> b.key, role |-> "status"] \in next.roles
<1>1. cur.roles \subseteq next.roles /\ cur.keys \subseteq next.keys /\ ValidJournal(next)
  BY DEF ValidTransition
<1>2. Ledger!Separated(next.roles)
  BY <1>1 DEF ValidJournal, Ledger!Separated
<1>3. \A b \in next.keys : \A a \in next.keys \ {b} :
        ~Overlap(a.key, b.key) /\ <<a.issuer, a.epoch>> # <<b.issuer, b.epoch>>
  BY <1>1 DEF ValidJournal
<1>4. Ledger!Separated(next.keys)
  BY <1>3 DEF Ledger!Separated
<1>5. Ledger!EpochsInOrder(next.keys)
  <2>1. \A b \in next.keys : b.epoch > 1 =>
          \E a \in next.keys : a.issuer = b.issuer /\ a.epoch = b.epoch - 1
    BY <1>1 DEF ValidJournal
  <2> QED
    BY <1>3, <2>1 DEF Ledger!EpochsInOrder
<1>6. \A b \in next.keys : [key |-> b.key, role |-> "status"] \in next.roles
  BY <1>1 DEF ValidJournal
<1> QED
  BY <1>1, <1>2, <1>4, <1>5, <1>6

(* Whatever operators and stages race, lose answers or retry, the journal  *)
(* implements the ledger: no anchored record forgets a revocation or a key *)
(* assignment, gives a key component two uses or skips an epoch            *)
(* (validate_security_journal_transition_v2).                              *)
THEOREM JournalImplementsLedger == Spec => ImplementsLedger
<1>1. Init => Ledger!Init
  BY DEF Init, Genesis, Ledger!Init
<1>2. [Next]_journalVars => [Ledger!Record]_(Ledger!ledgerVars)
  <2> SUFFICES ASSUME [Next]_journalVars
               PROVE  [Ledger!Record]_(Ledger!ledgerVars)
    OBVIOUS
  <2>1. CASE anchored' = anchored
    BY <2>1 DEF Ledger!ledgerVars
  <2>2. CASE ValidTransition(anchored, anchored')
    <3>1. \A i \in Issuers : Denied(anchored)[i] \subseteq Denied(anchored')[i]
      BY <2>2, TransitionDenies
    <3>2. Ledger!Record
      BY <2>2, <3>1, TransitionAssigns DEF Ledger!Record, Denied
    <3> QED
      BY <3>2
  <2> QED
    BY <2>1, <2>2, StepGate
<1> QED
  BY <1>1, <1>2, PTL DEF Spec, ImplementsLedger, Ledger!Spec

-----------------------------------------------------------------------------
(* The key a publisher signs under is the one the status stage accepts, in *)
(* any valid record: the issuer's last binding is the one its status state *)
(* names, and no other role shares a component with it.                    *)
LEMMA PublisherKeyOfValid ==
  ASSUME ValidJournal(anchored)
  PROVE  PublisherKeyAccepted
<1> SUFFICES ASSUME NEW i \in Issuers, NEW k \in Keys, MayPublish(anchored, i, k)
             PROVE  /\ HasStatusKey(anchored, i,
                                    [epoch |-> HighestEpoch(anchored, i), key |-> k])
                    /\ \A b \in anchored.roles : Overlap(b.key, k) => b.role = "status"
  BY DEF PublisherKeyAccepted
<1> DEFINE top == HighestEpoch(anchored, i)
           own == [issuer |-> i, epoch |-> top, key |-> k]
           s   == anchored.status[i]
<1>1. own \in anchored.keys
  BY DEF MayPublish
<1>2. \A b \in anchored.roles : Overlap(b.key, k) => b.role = "status"
  BY DEF MayPublish
<1>3. i \in DOMAIN anchored.status
  BY <1>1 DEF ValidJournal
<1>4. /\ s.status_key_epoch = top
      /\ [issuer |-> i, epoch |-> s.status_key_epoch, key |-> s.status_key] \in anchored.keys
  BY <1>3 DEF ValidJournal, ValidIssuer
<1>5. s.status_key = k
  <2> DEFINE cur == [issuer |-> i, epoch |-> top, key |-> s.status_key]
  <2>1. cur \in anchored.keys
    BY <1>4
  <2>2. \A b \in anchored.keys : \A a \in anchored.keys \ {b} :
          <<a.issuer, a.epoch>> # <<b.issuer, b.epoch>>
    BY DEF ValidJournal
  <2>3. <<cur.issuer, cur.epoch>> = <<own.issuer, own.epoch>>
    OBVIOUS
  <2>4. cur = own
    <3> HIDE DEF cur, own
    <3> QED
      BY <1>1, <2>1, <2>2, <2>3
  <2> QED
    BY <2>4
<1>6. HasStatusKey(anchored, i, [epoch |-> top, key |-> k])
  BY <1>1, <1>3, <1>4, <1>5 DEF HasStatusKey
<1> QED
  BY <1>2, <1>6

(* A publisher that opens against the anchored journal signs under the     *)
(* status key that the status stage accepts for its issuer                 *)
(* (new_v2_status_publisher, require_journal_status_key_v2).               *)
THEOREM PublisherKeyHolds == Spec => []PublisherKeyAccepted
<1>1. ValidAnchored => PublisherKeyAccepted
  BY PublisherKeyOfValid DEF ValidAnchored
<1> QED
  BY <1>1, AnchoredValid, PTL

-----------------------------------------------------------------------------
(* The answers of a status stage.                                          *)

(* The fields of a stage.                                                  *)
StageFields ==
  {"pc", "at", "todo", "configs", "current", "batch", "attempt", "results", "known", "before",
   "assessment"}

(* A certificate that was denied when the stage began is denied in the     *)
(* record it works on and in the anchored record a, and the stage has not  *)
(* answered not_revoked for it.                                            *)
StageSound(st, a) ==
  /\ DOMAIN st = StageFields
  /\ \A i \in Issuers : st.before[i] \subseteq Denied(a)[i]
  /\ st.pc \in {"provider", "commit", "reload"} =>
       \A i \in Issuers : st.before[i] \subseteq Denied(st.current)[i]
  /\ \A c \in Checks : st.results[c].status = "not_revoked" => c.cert \notin st.before[c.issuer]

(* Every stage that is running or has ended is sound.                      *)
StagesSound ==
  /\ DOMAIN stage = Stages
  /\ \A e \in Stages : stage[e].pc # "idle" => StageSound(stage[e], anchored)

(* Denials only grow, so a stage stays sound under the commits of others.  *)
LEMMA SoundUnderTransition ==
  ASSUME NEW st, NEW a, NEW b, StageSound(st, a), b = a \/ ValidTransition(a, b)
  PROVE  StageSound(st, b)
<1>1. CASE b = a
  BY <1>1
<1>2. CASE ValidTransition(a, b)
  <2>1. \A i \in Issuers : Denied(a)[i] \subseteq Denied(b)[i]
    BY <1>2, TransitionDenies
  <2> QED
    BY <2>1 DEF StageSound
<1> QED
  BY <1>1, <1>2

(* Going on with the next issuer keeps the answers given so far.           *)
LEMMA NextIssuerSound ==
  ASSUME NEW st, NEW a, StageSound(st, a)
  PROVE  StageSound(NextIssuer(st), a) /\ NextIssuer(st).pc \in {"load", "aggregate"}
<1> DEFINE n == NextIssuer(st)
<1>1. /\ DOMAIN n = DOMAIN st /\ n.before = st.before /\ n.results = st.results
      /\ n.pc \in {"load", "aggregate"}
  BY DEF NextIssuer, StageSound, StageFields
<1> HIDE DEF n
<1>2. StageSound(n, a)
  BY <1>1 DEF StageSound
<1> QED
  BY <1>1, <1>2 DEF n

(* Only a certificate that is not denied is answered not_revoked.          *)
LEMMA AnswerNotDenied ==
  ASSUME NEW s, NEW cert, NEW t, StatusForCert(s, cert, t).status = "not_revoked"
  PROVE  cert \notin s.deny_union
<1>1. NoAnswer.status # "not_revoked"
  BY DEF NoAnswer, Answered
<1>2. \A e, x : Answered("revoked", "none", e, x).status # "not_revoked"
  BY DEF Answered
<1> QED
  BY <1>1, <1>2, Zenon DEF StatusForCert

(* A commit that succeeds ends in a record that denies what the record it  *)
(* was computed from denies: that record itself, or its successor.         *)
LEMMA CommittedDenies ==
  ASSUME NEW current, NEW j, NEW up \in BOOLEAN, NEW out, out = Commit(current, j, up),
         out.result = "ok", NEW i \in Issuers
  PROVE  Denied(current)[i] \subseteq Denied(out.record)[i]
<1> DEFINE next == Proposed(current, j)
           blocked == CommitBlocked(current, next, up)
<1> HIDE DEF next
<1>1. blocked = "none" => ValidTransition(current, next)
  BY DEF CommitBlocked
<1>2. out = Swap(current, next, blocked)
  BY DEF Commit, CommitRecord, next
<1> HIDE DEF blocked
<1>3. out.record = current \/ (blocked = "none" /\ out.record = next)
  BY <1>2 DEF Swap, CommitFails
<1> QED
  BY <1>1, <1>3, TransitionDenies

(* The answers a stage takes from a committed record are not stale.        *)
LEMMA AnswersSound ==
  ASSUME NEW st, NEW a, StageSound(st, a), st.pc = "commit", NEW i, NEW j, NEW up \in BOOLEAN,
         NEW out, out = Commit(st.current, j, up), out.result = "ok", NEW known
  PROVE  StageSound([st EXCEPT !.results = Answers(st, i, out.record), !.known = known], a)
<1> DEFINE n == [st EXCEPT !.results = Answers(st, i, out.record), !.known = known]
<1>1. /\ DOMAIN n = StageFields /\ n.before = st.before /\ n.pc = st.pc /\ n.current = st.current
      /\ n.results = Answers(st, i, out.record)
  BY DEF StageSound, StageFields
<1> HIDE DEF n
<1>2. ASSUME NEW c \in Checks, n.results[c].status = "not_revoked"
      PROVE  c.cert \notin n.before[c.issuer]
  <2>1. CASE c.issuer # i
    BY <1>1, <1>2, <2>1 DEF Answers, StageSound
  <2>2. CASE c.issuer = i
    <3>1. c.cert \notin out.record.status[i].deny_union
      BY <1>1, <1>2, <2>2, AnswerNotDenied DEF Answers
    <3>2. c.cert \notin Denied(out.record)[i]
      BY <2>2, <3>1, ChecksAssumption DEF Denied
    <3>3. Denied(st.current)[i] \subseteq Denied(out.record)[i]
      BY <2>2, ChecksAssumption, CommittedDenies
    <3>4. st.before[i] \subseteq Denied(st.current)[i]
      BY <2>2, ChecksAssumption DEF StageSound
    <3> QED
      BY <1>1, <2>2, <3>2, <3>3, <3>4
  <2> QED
    BY <2>1, <2>2
<1>3. StageSound(n, a)
  BY <1>1, <1>2 DEF StageSound
<1> QED
  BY <1>3 DEF n

(* A step of one stage leaves the others, and it sound.                    *)
LEMMA StageStepSound ==
  ASSUME StagesSound, LoadsBack, NEW e \in Stages, StageStep(e)
  PROVE  DOMAIN stage' = Stages
         /\ \E st : /\ stage' = [stage EXCEPT ![e] = st]
                    /\ st.pc # "idle" => StageSound(st, anchored)
<1> DEFINE st == stage[e]
<1>0. DOMAIN stage = Stages /\ (st.pc # "idle" => StageSound(st, anchored))
  BY DEF StagesSound
<1>1. CASE StageBegin(e)
  <2>1. PICK configs : stage' = [stage EXCEPT ![e] = NewStage(configs)]
    BY <1>1 DEF StageBegin
  <2>2. StageSound(NewStage(configs), anchored)
    <3>1. NoAnswer.status # "not_revoked"
      BY DEF NoAnswer, Answered
    <3> QED
      BY <3>1 DEF StageSound, StageFields, NewStage, Denied
  <2> QED
    BY <1>0, <2>1, <2>2
<1>2. CASE \E up \in BOOLEAN : StageLoad(e, up)
  <2> DEFINE n == [st EXCEPT !.current = anchored,
                             !.pc = IF st.pc = "load" THEN "provider" ELSE "commit"]
  <2>1. /\ st.pc \in {"load", "reload"}
        /\ stage' = [stage EXCEPT ![e] = n] \/ stage' = [stage EXCEPT ![e] = NextIssuer(st)]
    BY <1>2, Zenon DEF StageLoad, LoadsBack
  <2>2. StageSound(st, anchored)
    BY <1>0, <2>1
  <2>3. StageSound(n, anchored)
    <3>1. /\ DOMAIN n = StageFields /\ n.before = st.before /\ n.results = st.results
          /\ n.current = anchored
      BY <2>2 DEF StageSound, StageFields
    <3> HIDE DEF n
    <3> QED
      BY <2>2, <3>1 DEF StageSound
  <2> HIDE DEF n
  <2> QED
    BY <1>0, <2>1, <2>2, <2>3, NextIssuerSound
<1>3. CASE \E up \in BOOLEAN, batch \in UNION {kSubset(k, published) : k \in 0..MaxBatch} :
             StageProvider(e, batch, up)
  <2>1. PICK batch : /\ st.pc = "provider"
                     /\ \/ stage' = [stage EXCEPT ![e] = [st EXCEPT !.batch = batch, !.pc = "commit"]]
                        \/ stage' = [stage EXCEPT ![e] = NextIssuer(st)]
    BY <1>3, Zenon DEF StageProvider
  <2> DEFINE n == [st EXCEPT !.batch = batch, !.pc = "commit"]
  <2>2. StageSound(st, anchored)
    BY <1>0, <2>1
  <2>3. StageSound(n, anchored)
    <3>1. /\ DOMAIN n = StageFields /\ n.before = st.before /\ n.results = st.results
          /\ n.current = st.current
      BY <2>2 DEF StageSound, StageFields
    <3> HIDE DEF n
    <3> QED
      BY <2>1, <2>2, <3>1 DEF StageSound
  <2>4. stage' = [stage EXCEPT ![e] = n] \/ stage' = [stage EXCEPT ![e] = NextIssuer(st)]
    BY <2>1
  <2> HIDE DEF n
  <2> QED
    BY <1>0, <2>2, <2>3, <2>4, NextIssuerSound
<1>4. CASE \E up, answered \in BOOLEAN : StageCommit(e, up, answered)
  <2>1. PICK up \in BOOLEAN, answered \in BOOLEAN : StageCommit(e, up, answered)
    BY <1>4
  <2> DEFINE j == WithBatch(st.current, Issuer(e), st.batch, st.at)
             n(out) == [st EXCEPT !.results = Answers(st, Issuer(e), out.record),
                                  !.known = @ \cup {b \in out.record.keys : b.issuer = Issuer(e)}]
             r == [st EXCEPT !.pc = "reload", !.attempt = 1]
  <2>2. PICK out : /\ st.pc = "commit" /\ out = Commit(st.current, j, up)
                   /\ \/ out.result = "ok" /\ stage' = [stage EXCEPT ![e] = NextIssuer(n(out))]
                      \/ stage' = [stage EXCEPT ![e] = r]
                      \/ stage' = [stage EXCEPT ![e] = NextIssuer(st)]
    BY <2>1, Zenon DEF StageCommit
  <2>3. StageSound(st, anchored)
    BY <1>0, <2>2
  <2>4. StageSound(r, anchored)
    <3>1. /\ DOMAIN r = StageFields /\ r.before = st.before /\ r.results = st.results
          /\ r.current = st.current
      BY <2>3 DEF StageSound, StageFields
    <3> HIDE DEF r
    <3> QED
      BY <2>2, <2>3, <3>1 DEF StageSound
  <2> DEFINE k == st.known \cup {b \in out.record.keys : b.issuer = Issuer(e)}
             m == [st EXCEPT !.results = Answers(st, Issuer(e), out.record), !.known = k]
  <2>5. out.result = "ok" => StageSound(m, anchored)
    <3> HIDE DEF j, k
    <3>1. up \in BOOLEAN /\ out = Commit(st.current, j, up) /\ st.pc = "commit"
      BY <2>1, <2>2
    <3> QED
      BY <2>3, <3>1, AnswersSound, Zenon
  <2>6. n(out) = m
    BY Zenon
  <2>7. \/ out.result = "ok" /\ stage' = [stage EXCEPT ![e] = NextIssuer(m)]
        \/ stage' = [stage EXCEPT ![e] = r]
        \/ stage' = [stage EXCEPT ![e] = NextIssuer(st)]
    BY <2>2, <2>6
  <2> HIDE DEF j, k, m, n, r
  <2> QED
    BY <1>0, <2>3, <2>4, <2>5, <2>7, NextIssuerSound
<1>5. CASE StageAggregate(e)
  <2> DEFINE n == [st EXCEPT !.pc = "done", !.assessment = Assessment(st)]
  <2>1. st.pc = "aggregate" /\ stage' = [stage EXCEPT ![e] = n]
    BY <1>5, Zenon DEF StageAggregate
  <2>2. StageSound(st, anchored)
    BY <1>0, <2>1
  <2>3. StageSound(n, anchored)
    <3>1. /\ DOMAIN n = StageFields /\ n.before = st.before /\ n.results = st.results
          /\ n.pc = "done"
      BY <2>2 DEF StageSound, StageFields
    <3> HIDE DEF n
    <3> QED
      BY <2>2, <3>1 DEF StageSound
  <2> HIDE DEF n
  <2> QED
    BY <1>0, <2>1, <2>3
<1>6. CASE StageCancel(e)
  <2>1. stage' = [stage EXCEPT ![e] = NoStage]
    BY <1>6 DEF StageCancel
  <2>2. NoStage.pc = "idle"
    BY DEF NoStage
  <2>3. DOMAIN stage' = Stages
    BY <1>0, <2>1
  <2> QED
    BY <2>1, <2>2, <2>3, Zenon
<1> QED
  BY <1>1, <1>2, <1>3, <1>4, <1>5, <1>6 DEF StageStep

(* Every step keeps the stages sound, whoever takes it.                    *)
LEMMA StagesKeep == StagesSound /\ LoadsBack /\ [Next]_journalVars => StagesSound'
<1> SUFFICES ASSUME StagesSound, LoadsBack, [Next]_journalVars PROVE StagesSound'
  OBVIOUS
<1>1. anchored' = anchored \/ ValidTransition(anchored, anchored')
  BY StepGate
<1>2. ASSUME NEW st, StageSound(st, anchored) PROVE StageSound(st, anchored')
  BY <1>1, <1>2, SoundUnderTransition
<1>3. CASE stage' = stage
  BY <1>2, <1>3 DEF StagesSound
<1>4. CASE \E e \in Stages : StageStep(e)
  <2>1. PICK e \in Stages : StageStep(e)
    BY <1>4
  <2>2. PICK st : /\ DOMAIN stage' = Stages
                  /\ stage' = [stage EXCEPT ![e] = st]
                  /\ st.pc # "idle" => StageSound(st, anchored)
    BY <2>1, StageStepSound
  <2>3. ASSUME NEW d \in Stages, stage'[d].pc # "idle" PROVE StageSound(stage'[d], anchored')
    <3>1. stage'[d] = st \/ stage'[d] = stage[d]
      BY <2>2 DEF StagesSound
    <3> QED
      BY <1>2, <2>2, <2>3, <3>1 DEF StagesSound
  <2> QED
    BY <2>2, <2>3 DEF StagesSound
<1>5. stage' = stage \/ \E e \in Stages : StageStep(e)
  BY DEF Next, OperatorStep, LoadForOperator, CommitForOperator, Tick, journalVars
<1> QED
  BY <1>3, <1>4, <1>5

(* While every load returns the record that was anchored (LoadsBack), a    *)
(* certificate that was denied when a status stage began is never answered *)
(* not_revoked by it, whatever other writers commit, however its own       *)
(* commit conflicts and is retried (run_v2_status_stage).                  *)
THEOREM AnswersHold == Spec /\ []LoadsBack => []AnswersNotStale
<1>1. Init => StagesSound
  BY DEF Init, StagesSound, NoStage
<1>2. StagesSound => AnswersNotStale
  BY DEF StagesSound, StageSound, AnswersNotStale
<1> QED
  BY <1>1, <1>2, StagesKeep, PTL DEF Spec
=============================================================================
