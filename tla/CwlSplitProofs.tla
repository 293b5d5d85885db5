--------------------------- MODULE CwlSplitProofs ---------------------------
(***************************************************************************)
(* TLAPS proofs about CwlSplit, for any number of deliveries, events and   *)
(* metrics, every size of a put, of a batch and of the retry budgets.      *)
(*                                                                         *)
(* What FlattenSeq computes is proved by the least-number principle: there *)
(* is no first length at which it goes wrong.                              *)
(***************************************************************************)
EXTENDS CwlSplit, FiniteSetTheorems, WellFoundedInduction, TLAPS

Invs == [batch : Seq(Records), at : Nat, out : Seq(Results), tries : 0..StreamRetries]
Puts == [pending : SUBSET Nat, next : Nat, attempt : 0..(ReingestMaxAttempts - 1)]

Types ==
  /\ envelope \in Envelopes
  /\ where \in [Deliveries -> {"buffered", "invoked", "dropped", "errors"}]
  /\ stream \in [Rows -> Nat] /\ raw \in [Rows -> Nat] /\ errors \in [Rows -> Nat]
  /\ inv \in Invs /\ put \in Puts
  /\ starts \in [Deliveries -> Nat]

\* A copy of r is somewhere, ...
Kept(r) == stream[r] > 0 \/ raw[r] > 0 \/ errors[r] > 0 \/ r \in ToSet(inv.batch)

\* ... or still to be put by the pass that is under way.
Due ==
  IF put.pending = {} THEN {}
  ELSE {EventsOf(Record)[i] : i \in {j \in DOMAIN EventsOf(Record) : j \in put.pending \/ put.next <= j}}

Safe(d) == \A r \in ToSet(EventsOf(d)) : Kept(r)

One(r, S) == IF r \in S THEN 1 ELSE 0

\* Copies, where a batch has no record twice.
Total(r) == stream[r] + raw[r] + errors[r] + One(r, ToSet(inv.batch))

\* The handler answers record after record, Dropped only when the rows are in the stream.
InvocationInv ==
  /\ IsInjective(inv.batch)
  /\ inv = Idle \/ (inv.at = Len(inv.out) + 1 /\ inv.at <= Len(inv.batch) + 1)
  /\ \A i \in DOMAIN inv.out :
       /\ inv.batch[i] \in Rows => inv.out[i] = "Ok"
       /\ inv.batch[i] \in Deliveries => inv.out[i] # "Ok"
       /\ inv.out[i] = "Dropped" => Safe(inv.batch[i])

\* The put under way is of a chunk of the record at hand, whose rows are kept or due.
PutInv ==
  /\ put.pending = {} => put = NoPut
  /\ put.pending # {} =>
       /\ AtRecord /\ Record \in Deliveries
       /\ put.pending \subseteq DOMAIN EventsOf(Record)
       /\ \A i \in put.pending : put.next - PutRecordBatchMax <= i /\ i < put.next
       /\ \A r \in ToSet(EventsOf(Record)) : r \in Due \/ Kept(r)

DroppedIsSafe == \A d \in Deliveries : where[d] = "dropped" => Safe(d)

\* A row that is due counts as a copy of the pass that is to put it.
Once ==
  \A d \in Deliveries, r \in Rows :
    r.msg \in ToSet(envelope[d].events) => Total(r) + One(r, Due) <= starts[d]

RawHasTool == \A r \in Rows : raw[r] > 0 => r.tool # None

SplitInv == Types /\ InvocationInv /\ PutInv /\ DroppedIsSafe /\ Once /\ RawHasTool

-----------------------------------------------------------------------------
(***************************************************************************)
(* Sequences.                                                              *)
(***************************************************************************)

LEMMA LeastNat ==
  ASSUME NEW S \in SUBSET Nat, S # {}
  PROVE  \E m \in S : \A k \in S : m <= k
<1> DEFINE R == OpToRel(<, Nat)
<1>1. R = {ss \in Nat \X Nat : ss[1] < ss[2]}
  BY DEF OpToRel
<1>2. IsWellFoundedOn(R, Nat)
  BY NatLessThanWellFounded
<1> HIDE DEF R
<1>3. PICK x \in S : \A y \in S : <<y, x>> \notin R
  BY <1>2, WFMin
<1>4. \A y \in S : ~(y < x) /\ y \in Nat /\ x \in Nat
  BY <1>1, <1>3
<1>5. \A y \in S : x <= y
  BY <1>4
<1> QED BY <1>5

LEMMA FlattenIs ==
  ASSUME NEW T, NEW seqs \in Seq(Seq(T)), Len(seqs) # 0
  PROVE  \E g :
           /\ FlattenSeq(seqs) = g[Len(seqs)]
           /\ g[1] = seqs[1]
           /\ \A i \in 2..Len(seqs) : g[i] = g[i - 1] \o seqs[i]
<1> DEFINE Has(n) == \E g \in [1..n -> Seq(T)] :
                        g = [i \in 1..n |-> IF i = 1 THEN seqs[i] ELSE g[i-1] \o seqs[i]]
           Lacks == {n \in 1..Len(seqs) : ~Has(n)}
<1>1. Has(1)
  <2> DEFINE g == [i \in 1..1 |-> seqs[1]]
  <2>1. g \in [1..1 -> Seq(T)]
    OBVIOUS
  <2>2. g = [i \in 1..1 |-> IF i = 1 THEN seqs[i] ELSE g[i-1] \o seqs[i]]
    OBVIOUS
  <2> QED BY <2>1, <2>2
<1>2. ASSUME NEW n \in 1..(Len(seqs) - 1), Has(n) PROVE Has(n + 1)
  <2>1. PICK g \in [1..n -> Seq(T)] :
                g = [i \in 1..n |-> IF i = 1 THEN seqs[i] ELSE g[i-1] \o seqs[i]]
    BY <1>2
  <2> DEFINE h == [i \in 1..(n + 1) |-> IF i = n + 1 THEN g[n] \o seqs[n + 1] ELSE g[i]]
  <2>2. n \in Nat /\ n >= 1 /\ n + 1 \in 1..Len(seqs) /\ seqs[n + 1] \in Seq(T) /\ g[n] \in Seq(T)
    BY <1>2
  <2>3. g[n] \o seqs[n + 1] \in Seq(T)
    BY <2>2
  <2>4. h \in [1..(n + 1) -> Seq(T)]
    BY <2>2, <2>3
  <2>5. ASSUME NEW i \in 1..(n + 1)
        PROVE  h[i] = IF i = 1 THEN seqs[i] ELSE h[i-1] \o seqs[i]
    <3>1. CASE i = n + 1
      <4>1. i # 1 /\ i - 1 = n /\ h[i] = g[n] \o seqs[n + 1] /\ h[n] = g[n]
        BY <2>2, <3>1
      <4> QED BY <4>1, <3>1
    <3>2. CASE i # n + 1 /\ i = 1
      <4>1. i \in 1..n /\ h[i] = g[i]
        BY <2>2, <3>2
      <4>2. g[i] = seqs[i]
        BY <2>1, <4>1, <3>2
      <4> QED BY <4>1, <4>2, <3>2
    <3>3. CASE i # n + 1 /\ i # 1
      <4>1. i \in 1..n /\ h[i] = g[i] /\ i - 1 \in 1..n /\ h[i-1] = g[i-1]
        BY <2>2, <3>3
      <4>2. g[i] = g[i - 1] \o seqs[i]
        BY <2>1, <4>1, <3>3
      <4> QED BY <4>1, <4>2, <3>3
    <3> QED BY <3>1, <3>2, <3>3
  <2>6. h = [i \in 1..(n + 1) |-> h[i]]
    OBVIOUS
  <2> HIDE DEF h
  <2>7. h = [i \in 1..(n + 1) |-> IF i = 1 THEN seqs[i] ELSE h[i-1] \o seqs[i]]
    BY <2>5, <2>6
  <2> QED BY <2>4, <2>7
<1> HIDE DEF Has
<1>3. Lacks = {}
  <2> SUFFICES ASSUME Lacks # {} PROVE FALSE
    OBVIOUS
  <2>1. Lacks \in SUBSET Nat
    OBVIOUS
  <2>2. PICK m \in Lacks : \A k \in Lacks : m <= k
    BY <2>1, LeastNat
  <2>3. m \in 1..Len(seqs) /\ ~Has(m) /\ m # 1
    BY <1>1
  <2>4. m - 1 \in 1..(Len(seqs) - 1) /\ m - 1 \notin Lacks /\ (m - 1) + 1 = m
    BY <2>2, <2>3
  <2>5. Has(m - 1)
    BY <2>4
  <2> QED BY <1>2, <2>3, <2>4, <2>5
<1>4. Has(Len(seqs))
  BY <1>3
<1> DEFINE f == CHOOSE g : g = [i \in 1..Len(seqs) |-> IF i = 1 THEN seqs[i] ELSE g[i-1] \o seqs[i]]
<1>5. FlattenSeq(seqs) = f[Len(seqs)]
  BY DEF FlattenSeq
<1>6. f = [i \in 1..Len(seqs) |-> IF i = 1 THEN seqs[i] ELSE f[i-1] \o seqs[i]]
  BY <1>4 DEF Has
<1> HIDE DEF f
<1>7. \A i \in 1..Len(seqs) : f[i] = IF i = 1 THEN seqs[i] ELSE f[i-1] \o seqs[i]
  BY <1>6
<1>8. Len(seqs) \in Nat /\ 1 \in 1..Len(seqs)
  OBVIOUS
<1>9. f[1] = seqs[1]
  BY <1>7, <1>8
<1>10. ASSUME NEW i \in 2..Len(seqs) PROVE f[i] = f[i - 1] \o seqs[i]
  <2>1. i \in 1..Len(seqs) /\ i # 1
    OBVIOUS
  <2> QED BY <1>7, <2>1
<1> QED BY <1>5, <1>9, <1>10

LEMMA ConcatIs ==
  ASSUME NEW T, NEW s \in Seq(T), NEW t \in Seq(T), IsInjective(s), IsInjective(t),
         \A x \in ToSet(s) : x \notin ToSet(t)
  PROVE  /\ s \o t \in Seq(T) /\ IsInjective(s \o t)
         /\ ToSet(s \o t) = ToSet(s) \cup ToSet(t)
<1> DEFINE c == s \o t
<1>1. /\ c \in Seq(T) /\ Len(c) = Len(s) + Len(t) /\ Len(s) \in Nat /\ Len(t) \in Nat
      /\ DOMAIN c = 1..Len(c) /\ DOMAIN s = 1..Len(s) /\ DOMAIN t = 1..Len(t)
  OBVIOUS
<1>2. \A i \in 1..Len(c) : IF i <= Len(s) THEN i \in DOMAIN s /\ c[i] = s[i]
                           ELSE i - Len(s) \in DOMAIN t /\ c[i] = t[i - Len(s)]
  OBVIOUS
<1>3. \A i \in 1..Len(s) : i \in 1..Len(c) /\ c[i] = s[i]
  OBVIOUS
<1>4. \A i \in 1..Len(t) : i + Len(s) \in 1..Len(c) /\ c[i + Len(s)] = t[i]
  OBVIOUS
<1> HIDE DEF c
<1>5. ToSet(c) = ToSet(s) \cup ToSet(t)
  <2>1. ToSet(c) \subseteq ToSet(s) \cup ToSet(t)
    BY <1>1, <1>2 DEF ToSet
  <2>2. ToSet(s) \subseteq ToSet(c)
    BY <1>1, <1>3 DEF ToSet
  <2>3. ToSet(t) \subseteq ToSet(c)
    BY <1>1, <1>4 DEF ToSet
  <2> QED BY <2>1, <2>2, <2>3
<1>6. IsInjective(c)
  <2> SUFFICES ASSUME NEW i \in 1..Len(c), NEW j \in 1..Len(c), c[i] = c[j] PROVE i = j
    BY <1>1 DEF IsInjective
  <2>1. \A k \in DOMAIN s : s[k] \in ToSet(s)
    BY DEF ToSet
  <2>2. \A k \in DOMAIN t : t[k] \in ToSet(t)
    BY DEF ToSet
  <2>3. (i <= Len(s)) = (j <= Len(s))
    BY <1>2, <2>1, <2>2
  <2>4. CASE i <= Len(s)
    BY <1>2, <2>3, <2>4 DEF IsInjective
  <2>5. CASE ~(i <= Len(s))
    <3>1. i - Len(s) = j - Len(s)
      BY <1>2, <2>3, <2>5 DEF IsInjective
    <3> QED BY <1>1, <3>1
  <2> QED BY <2>4, <2>5
<1> QED BY <1>1, <1>5, <1>6 DEF c

LEMMA FlattenFacts ==
  ASSUME NEW T, NEW seqs \in Seq(Seq(T)),
         \A i \in DOMAIN seqs : IsInjective(seqs[i]),
         \A i, j \in DOMAIN seqs : i # j => \A x \in ToSet(seqs[i]) : x \notin ToSet(seqs[j])
  PROVE  /\ FlattenSeq(seqs) \in Seq(T) /\ IsInjective(FlattenSeq(seqs))
         /\ \A x : x \in ToSet(FlattenSeq(seqs)) <=> \E i \in DOMAIN seqs : x \in ToSet(seqs[i])
<1>1. CASE Len(seqs) = 0
  <2>1. FlattenSeq(seqs) = seqs /\ seqs = << >> /\ DOMAIN seqs = {}
    BY <1>1 DEF FlattenSeq
  <2> QED BY <2>1 DEF ToSet, IsInjective
<1>2. CASE Len(seqs) # 0
  <2>1. PICK g : /\ FlattenSeq(seqs) = g[Len(seqs)]
                 /\ g[1] = seqs[1]
                 /\ \A i \in 2..Len(seqs) : g[i] = g[i - 1] \o seqs[i]
    BY <1>2, FlattenIs
  <2> DEFINE Good(n) ==
               /\ g[n] \in Seq(T) /\ IsInjective(g[n])
               /\ \A x : x \in ToSet(g[n]) <=> \E i \in 1..n : x \in ToSet(seqs[i])
             Lacks == {n \in 1..Len(seqs) : ~Good(n)}
  <2>2. Len(seqs) \in Nat /\ DOMAIN seqs = 1..Len(seqs) /\ Len(seqs) >= 1
    BY <1>2
  <2>3. Good(1)
    BY <2>1, <2>2
  <2>4. ASSUME NEW n \in 2..Len(seqs), Good(n - 1) PROVE Good(n)
    <3>1. n \in Nat /\ n - 1 \in 1..Len(seqs) /\ n \in 1..Len(seqs) /\ \A i \in 1..(n - 1) : i # n
      BY <2>2
    <3>7. g[n] = g[n - 1] \o seqs[n]
      BY <2>1
    <3>2. g[n - 1] \in Seq(T) /\ IsInjective(g[n - 1])
      BY <2>4
    <3>8. seqs[n] \in Seq(T) /\ IsInjective(seqs[n])
      BY <2>2, <3>1
    <3>3. \A x \in ToSet(g[n - 1]) : x \notin ToSet(seqs[n])
      <4> SUFFICES ASSUME NEW x \in ToSet(g[n - 1]) PROVE x \notin ToSet(seqs[n])
        OBVIOUS
      <4>1. PICK i \in 1..(n - 1) : x \in ToSet(seqs[i])
        BY <2>4
      <4>2. i \in DOMAIN seqs /\ n \in DOMAIN seqs /\ i # n
        BY <2>2, <3>1
      <4> QED BY <4>1, <4>2
    <3>4. /\ g[n - 1] \o seqs[n] \in Seq(T) /\ IsInjective(g[n - 1] \o seqs[n])
          /\ ToSet(g[n - 1] \o seqs[n]) = ToSet(g[n - 1]) \cup ToSet(seqs[n])
      BY <3>2, <3>8, <3>3, ConcatIs
    <3>5. \A i : i \in 1..n <=> i \in 1..(n - 1) \/ i = n
      BY <3>1
    <3>6. \A x : x \in ToSet(g[n]) <=> \E i \in 1..n : x \in ToSet(seqs[i])
      BY <2>4, <3>7, <3>4, <3>5
    <3> QED BY <3>7, <3>4, <3>6
  <2> HIDE DEF Good
  <2>5. Lacks = {}
    <3> SUFFICES ASSUME Lacks # {} PROVE FALSE
      OBVIOUS
    <3>1. Lacks \in SUBSET Nat
      OBVIOUS
    <3>2. PICK m \in Lacks : \A k \in Lacks : m <= k
      BY <3>1, LeastNat
    <3>3. m \in 2..Len(seqs) /\ ~Good(m)
      BY <2>2, <2>3
    <3>4. m - 1 \in 1..Len(seqs) /\ m - 1 \notin Lacks
      BY <2>2, <3>2, <3>3
    <3>5. Good(m - 1)
      BY <3>4
    <3> QED BY <2>4, <3>3, <3>5
  <2>6. Good(Len(seqs))
    BY <2>2, <2>5
  <2> QED BY <2>1, <2>2, <2>6 DEF Good
<1> QED BY <1>1, <1>2

\* A sequence of as many different members as a finite set has contains all of them.
LEMMA InjectiveIsOnto ==
  ASSUME NEW S, IsFiniteSet(S), NEW f \in [1..Cardinality(S) -> S], IsInjective(f)
  PROVE  ToSet(f) = S
<1>1. Cardinality(S) \in Nat
  BY FS_CardinalityType
<1> DEFINE D == 1..Cardinality(S)
<1>2. IsFiniteSet(D) /\ Cardinality(D) = Cardinality(S)
  BY <1>1, FS_Interval
<1>3. f \in Injection(D, S)
  BY DEF Injection
<1>4. f \in Surjection(D, S)
  BY <1>2, <1>3, FS_Injection
<1> QED BY <1>4 DEF Surjection, ToSet

\* How often a record occurs at some positions of a sequence without repetitions.
LEMMA CountIs ==
  ASSUME NEW s, NEW I, I \subseteq DOMAIN s, IsInjective(s), NEW r
  PROVE  Count(s, I, r) = IF r \in {s[i] : i \in I} THEN 1 ELSE 0
<1>1. CASE \E i \in I : s[i] = r
  <2>1. PICK i \in I : s[i] = r
    BY <1>1
  <2>2. {j \in I : s[j] = r} = {i}
    BY <2>1 DEF IsInjective
  <2>3. Cardinality({i}) = 1
    BY FS_Singleton
  <2> QED BY <2>1, <2>2, <2>3 DEF Count
<1>2. CASE ~\E i \in I : s[i] = r
  <2>1. {j \in I : s[j] = r} = {}
    BY <1>2
  <2> QED BY <1>2, <2>1, FS_EmptySet DEF Count
<1> QED BY <1>1, <1>2

\* A set as a sequence.
LEMMA SetToSeqIs ==
  ASSUME NEW S, IsFiniteSet(S)
  PROVE  /\ Cardinality(S) \in Nat /\ DOMAIN SetToSeq(S) = 1..Cardinality(S)
         /\ SetToSeq(S) \in [1..Cardinality(S) -> S] /\ IsInjective(SetToSeq(S))
         /\ ToSet(SetToSeq(S)) = S
<1>1. Cardinality(S) \in Nat /\ ExistsBijection(1..Cardinality(S), S)
  BY FS_CardinalityType
<1>2. PICK f : f \in [1..Cardinality(S) -> S] /\ IsInjective(f)
  BY <1>1 DEF ExistsBijection, Bijection, Injection
<1>3. SetToSeq(S) \in [1..Cardinality(S) -> S] /\ IsInjective(SetToSeq(S))
  BY <1>2 DEF SetToSeq
<1>4. ToSet(SetToSeq(S)) = S
  BY <1>1, <1>3, InjectiveIsOnto
<1> QED BY <1>1, <1>3, <1>4

-----------------------------------------------------------------------------
(***************************************************************************)
(* Reshaping.                                                              *)
(***************************************************************************)

LEMMA MetricNamesIs ==
  ASSUME NEW m \in Messages
  PROVE  LET names == MetricNames(m)
             n == Cardinality(ToSet(m.metrics) \ {None})
         IN  /\ n \in Nat /\ DOMAIN names = 1..n /\ IsInjective(names)
             /\ ToSet(names) = ToSet(m.metrics) \ {None}
<1>1. IsFiniteSet(ToSet(m.metrics) \ {None})
  BY MessagesAssumption, FS_RemoveElement
<1> QED BY <1>1, SetToSeqIs DEF MetricNames

\* The rows of one event: its own, no two alike, one at least for each metric of an EMF
\* event and one for any other, under a tool that is vouched for or none.
LEMMA ReshapeIs ==
  ASSUME NEW m \in Messages
  PROVE  LET rows == ReshapeRecords(m)
         IN  /\ rows \in Seq(Rows) /\ IsInjective(rows)
             /\ \A r \in ToSet(rows) : r.msg = m
             /\ m.emf => \A name \in ToSet(m.metrics) \ {None} :
                           \E r \in ToSet(rows) : r.form \in {name, "original"}
             /\ ~m.emf => \E r \in ToSet(rows) : r.form \in {"otlp", "original"}
             /\ \A r \in ToSet(rows) : r.tool # None =>
                  \/ m.tool # None /\ r.form = "original" /\ r.tool = m.tool
                  \/ /\ m.tool = None /\ r.form # "original"
                     /\ m.service \in DOMAIN ServiceToolMap /\ r.tool = ServiceToolMap[m.service]
<1> DEFINE rows == ReshapeRecords(m)
<1>1. \A x : x \in ToSet(rows) => x \in Rows
  BY DEF Rows
<1>2. m.emf \in BOOLEAN /\ m.otlp \in BOOLEAN /\ ToSet(m.metrics) \cap {"original", "otlp"} = {}
  BY MessagesAssumption
\* A single row.
<1>3. ASSUME NEW x, rows = <<x>>
      PROVE  /\ rows \in Seq(Rows) /\ IsInjective(rows) /\ ToSet(rows) = {x}
  <2>1. ToSet(rows) = {x} /\ IsInjective(rows)
    BY <1>3 DEF ToSet, IsInjective
  <2>2. x \in Rows
    BY <1>1, <2>1
  <2> HIDE DEF rows
  <2> QED BY <1>3, <2>1, <2>2
<1>4. ASSUME rows = <<Original(m)>>
      PROVE  /\ rows \in Seq(Rows) /\ IsInjective(rows) /\ ToSet(rows) = {Original(m)}
             /\ Original(m).msg = m /\ Original(m).form = "original" /\ Original(m).tool = m.tool
  BY <1>3, <1>4 DEF Original
<1>5. CASE ReshapeRaises(m)
  BY <1>4, <1>5 DEF ReshapeRecords
<1>6. CASE ~ReshapeRaises(m) /\ IsEmf(m)
  <2> DEFINE names == MetricNames(m)
             n == Cardinality(ToSet(m.metrics) \ {None})
  <2>1. /\ n \in Nat /\ DOMAIN names = 1..n /\ IsInjective(names)
        /\ ToSet(names) = ToSet(m.metrics) \ {None}
    BY MetricNamesIs
  <2>2. rows = [i \in DOMAIN names |-> MetricRow(m, names[i])]
    BY <1>6 DEF ReshapeRecords
  <2>3. m.service \in DOMAIN ServiceToolMap /\ m.tool = None /\ m.emf
    BY <1>6 DEF ReshapeRaises, IsEmf
  <2> HIDE DEF rows, names, n
  <2>4. DOMAIN rows = 1..n /\ \A i \in 1..n : rows[i] = MetricRow(m, names[i])
    BY <2>1, <2>2
  <2>5. \A i \in 1..n : /\ rows[i].msg = m /\ rows[i].form = names[i]
                        /\ rows[i].tool = ServiceToolMap[m.service]
    BY <2>4 DEF MetricRow
  <2>6. \A i \in 1..n : names[i] \in ToSet(m.metrics) \ {None}
    BY <2>1 DEF ToSet
  <2>7. \A i \in 1..n : rows[i] \in Rows
    BY <1>1, <2>4 DEF ToSet
  <2>8. rows = [i \in 1..n |-> rows[i]]
    BY <2>1, <2>2, <2>4
  <2>9. rows \in Seq(Rows)
    BY <2>1, <2>7, <2>8
  <2>10. IsInjective(rows)
    BY <2>1, <2>4, <2>5 DEF IsInjective
  <2>11. \A r \in ToSet(rows) : \E i \in 1..n : r = rows[i]
    BY <2>4 DEF ToSet
  <2>12. \A name \in ToSet(m.metrics) \ {None} :
           \E i \in 1..n : rows[i] \in ToSet(rows) /\ rows[i].form = name
    <3>1. \A name \in ToSet(names) : \E i \in 1..n : names[i] = name
      BY <2>1 DEF ToSet
    <3>2. \A i \in 1..n : rows[i] \in ToSet(rows)
      BY <2>4 DEF ToSet
    <3> QED BY <2>1, <2>5, <3>1, <3>2
  <2>13. \A r \in ToSet(rows) : /\ r.msg = m /\ r.form # "original"
                                /\ r.tool = ServiceToolMap[m.service]
    BY <1>2, <2>5, <2>6, <2>11
  <2> QED BY <2>3, <2>9, <2>10, <2>12, <2>13 DEF rows
<1>7. CASE ~ReshapeRaises(m) /\ ~IsEmf(m) /\ IsStructured(m)
  <2>1. rows = <<ClaudeRow(m)>>
    BY <1>7 DEF ReshapeRecords
  <2>2. m.service \in DOMAIN ServiceToolMap /\ m.tool = None /\ ~m.emf
    BY <1>7 DEF ReshapeRaises, IsStructured
  <2>3. /\ rows \in Seq(Rows) /\ IsInjective(rows) /\ ToSet(rows) = {ClaudeRow(m)}
        /\ ClaudeRow(m).msg = m /\ ClaudeRow(m).form = "otlp"
        /\ ClaudeRow(m).tool = ServiceToolMap[m.service]
    BY <1>3, <2>1 DEF ClaudeRow
  <2> HIDE DEF rows
  <2> QED BY <2>2, <2>3 DEF rows
<1>8. CASE ~ReshapeRaises(m) /\ ~IsEmf(m) /\ ~IsStructured(m)
  <2>1. rows = <<Original(m)>>
    BY <1>8 DEF ReshapeRecords
  <2>2. m.tool # None \/ ~m.emf
    BY <1>8 DEF IsEmf
  <2> QED BY <1>4, <2>1
<1> QED BY <1>5, <1>6, <1>7, <1>8

\* The rows of a delivery: a row of each of its events and of nothing else, each once.
LEMMA EventsOfIs ==
  ASSUME Types, NEW d \in Deliveries
  PROVE  /\ EventsOf(d) \in Seq(Rows) /\ IsInjective(EventsOf(d))
         /\ \A r \in ToSet(EventsOf(d)) : r.msg \in ToSet(envelope[d].events)
         /\ \A i \in DOMAIN envelope[d].events :
              \A r \in ToSet(ReshapeRecords(envelope[d].events[i])) : r \in ToSet(EventsOf(d))
<1> DEFINE log  == envelope[d].events
           seqs == [i \in DOMAIN log |-> ReshapeRecords(log[i])]
<1>1. /\ log \in Seq(Messages)
      /\ \A i, j \in DOMAIN log : log[i] = log[j] => i = j
  BY EnvelopeAssumption DEF Types
<1> HIDE DEF log
<1>2. \A i \in DOMAIN log : log[i] \in Messages
  BY <1>1
<1>3. \A i \in DOMAIN log : /\ ReshapeRecords(log[i]) \in Seq(Rows)
                            /\ IsInjective(ReshapeRecords(log[i]))
                            /\ \A r \in ToSet(ReshapeRecords(log[i])) : r.msg = log[i]
  BY <1>2, ReshapeIs
<1>4. seqs \in Seq(Seq(Rows)) /\ DOMAIN seqs = DOMAIN log
  BY <1>1, <1>3
<1>5. \A i \in DOMAIN log : seqs[i] = ReshapeRecords(log[i])
  OBVIOUS
<1>6. EventsOf(d) = FlattenSeq(seqs)
  BY DEF EventsOf, log
<1> HIDE DEF seqs
<1>7. /\ \A i \in DOMAIN seqs : IsInjective(seqs[i])
      /\ \A i, j \in DOMAIN seqs : i # j => \A x \in ToSet(seqs[i]) : x \notin ToSet(seqs[j])
  BY <1>1, <1>3, <1>4, <1>5
<1>8. /\ FlattenSeq(seqs) \in Seq(Rows) /\ IsInjective(FlattenSeq(seqs))
      /\ \A x : x \in ToSet(FlattenSeq(seqs)) <=> \E i \in DOMAIN seqs : x \in ToSet(seqs[i])
  BY <1>4, <1>7, FlattenFacts
<1>9. \A i \in DOMAIN log : log[i] \in ToSet(log)
  BY DEF ToSet
<1> QED BY <1>3, <1>4, <1>5, <1>6, <1>8, <1>9 DEF log

-----------------------------------------------------------------------------
(***************************************************************************)
(* An invocation at work.                                                  *)
(***************************************************************************)

LEMMA RowsStay ==
  ASSUME UNCHANGED envelope, NEW d
  PROVE  EventsOf(d)' = EventsOf(d)
BY DEF EventsOf

LEMMA IdleIs ==
  /\ Idle \in Invs /\ NoPut \in Puts
  /\ Idle.batch = <<>> /\ Idle.at = 0 /\ Idle.out = <<>> /\ Idle.tries = 0
  /\ NoPut.pending = {} /\ NoPut.next = 0 /\ NoPut.attempt = 0
  /\ ToSet(<<>>) = {} /\ IsInjective(<<>>)
<1>1. 0 \in 0..StreamRetries /\ 0 \in 0..(ReingestMaxAttempts - 1)
  BY BudgetAssumption
<1>2. Idle \in Invs
  BY <1>1 DEF Idle, Invs
<1>3. NoPut \in Puts
  BY <1>1 DEF NoPut, Puts
<1>4. ToSet(<<>>) = {} /\ IsInjective(<<>>)
  BY DEF ToSet, IsInjective
<1> QED BY <1>2, <1>3, <1>4 DEF Idle, NoPut

\* A record is at hand: there is an invocation and it has answered for the earlier ones.
LEMMA AtRecordIs ==
  ASSUME SplitInv, AtRecord
  PROVE  /\ inv \in Invs /\ inv.batch \in Seq(Records) /\ inv.out \in Seq(Results)
         /\ inv # Idle /\ inv.at = Len(inv.out) + 1 /\ inv.at \in 1..Len(inv.batch)
         /\ DOMAIN inv.out = 1..(inv.at - 1) /\ Record \in Records
         /\ inv.at \in Nat /\ Len(inv.batch) \in Nat
<1>1. inv \in Invs
  BY DEF SplitInv, Types
<1>2. inv.batch \in Seq(Records) /\ inv.out \in Seq(Results) /\ inv.at \in Nat
  BY <1>1 DEF Invs
<1>3. inv.at \in DOMAIN inv.batch
  BY DEF AtRecord
<1>4. inv # Idle
  BY <1>3, IdleIs
<1>5. inv.at = Len(inv.out) + 1
  BY <1>4 DEF SplitInv, InvocationInv
<1>6. Record \in Records /\ Len(inv.batch) \in Nat /\ Len(inv.out) \in Nat
  BY <1>2, <1>3 DEF Record
<1> QED BY <1>1, <1>2, <1>3, <1>4, <1>5, <1>6

\* Nothing kept is lost in a step, and no row becomes more than it was due to.
Keeps == \A r \in Rows : Kept(r) => Kept(r)'

LEMMA SafeStays ==
  ASSUME Types, UNCHANGED envelope, Keeps, NEW d \in Deliveries, Safe(d)
  PROVE  Safe(d)'
<1>1. EventsOf(d)' = EventsOf(d) /\ EventsOf(d) \in Seq(Rows)
  BY RowsStay, EventsOfIs
<1>2. \A r \in ToSet(EventsOf(d)) : r \in Rows
  BY <1>1 DEF ToSet
<1> QED BY <1>1, <1>2 DEF Safe, Keeps, ToSet

\* The handler answers for the record at hand and goes on.
LEMMA AnswerMoves ==
  ASSUME SplitInv, AtRecord, NEW result \in Results, Answer(result), NEW b, b = Record,
         UNCHANGED <<envelope, where, raw, errors>>,
         stream' \in [Rows -> Nat], starts' \in [Deliveries -> Nat],
         \A d \in Deliveries : starts[d] <= starts'[d],
         \A r \in Rows : stream[r] <= stream'[r] /\ stream'[r] <= stream[r] + One(r, Due),
         Record \in Rows => result = "Ok",
         Record \in Deliveries => result # "Ok",
         result = "Dropped" => b \in Deliveries /\ Safe(b)'
  PROVE  SplitInv'
<1>1. /\ inv \in Invs /\ inv.batch \in Seq(Records) /\ inv.out \in Seq(Results)
      /\ inv # Idle /\ inv.at = Len(inv.out) + 1 /\ inv.at \in 1..Len(inv.batch)
      /\ DOMAIN inv.out = 1..(inv.at - 1) /\ Record \in Records
      /\ inv.at \in Nat /\ Len(inv.batch) \in Nat
  BY AtRecordIs
<1> DEFINE out == Append(inv.out, result)
           new == [inv EXCEPT !.out = out, !.at = inv.at + 1]
<1>2. /\ out \in Seq(Results) /\ Len(out) = Len(inv.out) + 1 /\ DOMAIN out = 1..inv.at
      /\ out[inv.at] = result /\ \A i \in 1..(inv.at - 1) : out[i] = inv.out[i]
  BY <1>1
<1> HIDE DEF out
<1>3. /\ new \in Invs /\ new.batch = inv.batch /\ new.out = out /\ new.at = inv.at + 1
      /\ new.tries = inv.tries
  <2>1. inv \in Invs /\ out \in Seq(Results) /\ inv.at + 1 \in Nat
    BY <1>1, <1>2
  <2> DEFINE B == Seq(Records)
             O == Seq(Results)
             N == 0..StreamRetries
             at == inv.at + 1
  <2>2. /\ Invs = [batch : B, at : Nat, out : O, tries : N]
        /\ inv \in Invs /\ out \in O /\ at \in Nat
    BY <2>1 DEF Invs
  <2> HIDE DEF B, O, N, at
  <2>3. /\ [inv EXCEPT !.out = out, !.at = at] \in Invs
        /\ [inv EXCEPT !.out = out, !.at = at].batch = inv.batch
        /\ [inv EXCEPT !.out = out, !.at = at].out = out
        /\ [inv EXCEPT !.out = out, !.at = at].at = at
        /\ [inv EXCEPT !.out = out, !.at = at].tries = inv.tries
    BY <2>2
  <2> QED BY <2>3 DEF at
<1>4. inv' = new /\ put' = NoPut
  BY DEF Answer, out
<1> HIDE DEF new
<1>5. /\ inv'.batch = inv.batch /\ inv'.out = out /\ inv'.at = inv.at + 1 /\ inv' \in Invs
      /\ put'.pending = {} /\ put' \in Puts
  BY <1>3, <1>4, IdleIs
<1>6. Types'
  BY <1>5 DEF SplitInv, Types
<1>7. Keeps /\ Types
  BY <1>5 DEF SplitInv, Types, Keeps, Kept
<1>8. Due' = {}
  BY <1>5 DEF Due
<1>9. PutInv'
  BY <1>4, <1>5 DEF PutInv
<1>10. DroppedIsSafe'
  BY <1>7, SafeStays DEF SplitInv, DroppedIsSafe
<1>11. Once'
  <2> SUFFICES ASSUME NEW d \in Deliveries, NEW r \in Rows, r.msg \in ToSet(envelope[d].events)
               PROVE  Total(r)' + One(r, Due)' <= starts'[d]
    BY DEF Once
  <2>1. Total(r) + One(r, Due) <= starts[d] /\ starts[d] <= starts'[d]
    BY DEF SplitInv, Once
  <2>2. One(r, Due)' = 0 /\ One(r, Due) \in {0, 1} /\ One(r, ToSet(inv.batch)) \in {0, 1}
    BY <1>8 DEF One
  <2>3. One(r, ToSet(inv.batch))' = One(r, ToSet(inv.batch))
    BY <1>5 DEF One
  <2>4. /\ stream[r] \in Nat /\ raw[r] \in Nat /\ errors[r] \in Nat /\ stream'[r] \in Nat
        /\ starts[d] \in Nat /\ starts'[d] \in Nat /\ stream'[r] <= stream[r] + One(r, Due)
        /\ raw'[r] = raw[r] /\ errors'[r] = errors[r]
    BY <1>7 DEF Types
  <2> HIDE DEF One
  <2> QED BY <2>1, <2>2, <2>3, <2>4 DEF Total
<1>12. RawHasTool'
  BY DEF SplitInv, RawHasTool
<1>13. InvocationInv'
  <2>1. IsInjective(inv'.batch)
    BY <1>5 DEF SplitInv, InvocationInv
  <2>2. inv'.at = Len(inv'.out) + 1 /\ inv'.at <= Len(inv'.batch) + 1
    BY <1>1, <1>2, <1>5
  <2>3. ASSUME NEW i \in 1..inv.at, NEW c, c = inv.batch[i]
        PROVE  /\ c \in Rows => out[i] = "Ok"
               /\ c \in Deliveries => out[i] # "Ok"
               /\ out[i] = "Dropped" => Safe(c)'
    <3>1. CASE i = inv.at
      <4>1. c = b /\ b = Record /\ out[i] = result
        BY <1>2, <2>3, <3>1 DEF Record
      <4> QED BY <4>1
    <3>2. CASE i # inv.at
      <4>1. i \in DOMAIN inv.out /\ out[i] = inv.out[i] /\ i \in 1..Len(inv.batch)
        BY <1>1, <1>2, <2>3, <3>2
      <4>2. c \in Deliveries \cup Rows
        BY <1>1, <2>3, <4>1 DEF Records
      <4>3. /\ c \in Rows => inv.out[i] = "Ok"
            /\ c \in Deliveries => inv.out[i] # "Ok"
            /\ inv.out[i] = "Dropped" => Safe(c)
        BY <2>3, <4>1 DEF SplitInv, InvocationInv
      <4>4. inv.out[i] = "Dropped" => Safe(c)'
        BY <1>7, <4>2, <4>3, SafeStays
      <4> QED BY <4>1, <4>3, <4>4
    <3> QED BY <3>1, <3>2
  <2>4. \A i \in DOMAIN inv'.out :
          /\ inv'.batch[i] \in Rows => inv'.out[i] = "Ok"
          /\ inv'.batch[i] \in Deliveries => inv'.out[i] # "Ok"
          /\ inv'.out[i] = "Dropped" => Safe(inv.batch[i])'
    <3> SUFFICES ASSUME NEW i \in 1..inv.at
                 PROVE  /\ inv'.batch[i] \in Rows => inv'.out[i] = "Ok"
                        /\ inv'.batch[i] \in Deliveries => inv'.out[i] # "Ok"
                        /\ inv'.out[i] = "Dropped" => Safe(inv.batch[i])'
      BY <1>2, <1>5
    <3>1. PICK c : c = inv.batch[i]
      OBVIOUS
    <3>2. c = inv'.batch[i] /\ inv'.out[i] = out[i]
      BY <1>5, <3>1
    <3>3. out[i] = "Dropped" => Safe(inv.batch[i])'
      <4>1. out[i] = "Dropped" => Safe(c)'
        BY <2>3, <3>1
      <4> QED BY <3>2, <4>1 DEF Safe
    <3> QED BY <2>3, <3>1, <3>2, <3>3
  <2> QED BY <2>1, <2>2, <2>4 DEF InvocationInv
<1> QED BY <1>6, <1>9, <1>10, <1>11, <1>12, <1>13 DEF SplitInv

\* The handler goes on with the record at hand, with rows to put.
LEMMA PutMoves ==
  ASSUME SplitInv, AtRecord, Record \in Deliveries,
         UNCHANGED <<envelope, where, raw, errors, inv>>,
         stream' \in [Rows -> Nat], starts' \in [Deliveries -> Nat], put' \in Puts,
         \A r \in Rows : stream[r] <= stream'[r],
         put'.pending # {}, put'.pending \subseteq DOMAIN EventsOf(Record),
         \A i \in put'.pending : put'.next - PutRecordBatchMax <= i /\ i < put'.next,
         \A r \in ToSet(EventsOf(Record)) : r \in Due' \/ Kept(r) \/ stream'[r] > 0,
         \A d \in Deliveries, r \in Rows : r.msg \in ToSet(envelope[d].events) =>
           stream'[r] + One(r, Due') - starts'[d] <= stream[r] + One(r, Due) - starts[d]
  PROVE  SplitInv'
<1>1. Types /\ Types'
  BY DEF SplitInv, Types
<1>2. Keeps
  BY <1>1 DEF Types, Keeps, Kept
<1>3. Record' = Record /\ AtRecord' /\ \A d : EventsOf(d)' = EventsOf(d)
  BY RowsStay DEF Record, AtRecord
<1>4. EventsOf(Record)' = EventsOf(Record)
  BY DEF EventsOf, Record
<1>5. PutInv'
  <2>1. \A r \in ToSet(EventsOf(Record)) : r \in Rows
    BY <1>1, EventsOfIs DEF ToSet
  <2>2. \A r \in ToSet(EventsOf(Record)) : r \in Due' \/ Kept(r)'
    BY <1>2, <2>1 DEF Keeps, Kept
  <2>3. ToSet(EventsOf(Record))' = ToSet(EventsOf(Record))
    BY <1>4
  <2> QED BY <1>3, <1>4, <2>2, <2>3 DEF PutInv
<1>6. DroppedIsSafe'
  BY <1>1, <1>2, SafeStays DEF SplitInv, DroppedIsSafe
<1>7. RawHasTool'
  BY DEF SplitInv, RawHasTool
<1>8. InvocationInv'
  <2>1. ASSUME NEW i \in DOMAIN inv.out, inv.out[i] = "Dropped" PROVE Safe(inv.batch[i])'
    <3>1. PICK c : c = inv.batch[i]
      OBVIOUS
    <3>2. inv.at # 0 /\ DOMAIN inv.out = 1..(inv.at - 1) /\ inv.at \in 1..Len(inv.batch)
          /\ inv.batch \in Seq(Records)
      BY AtRecordIs
    <3>3. c \in Deliveries \cup Rows
      BY <2>1, <3>1, <3>2 DEF Records
    <3>4. c \in Deliveries /\ Safe(c)
      BY <2>1, <3>1, <3>3 DEF SplitInv, InvocationInv
    <3>5. Safe(c)' /\ c = inv'.batch[i]
      BY <1>1, <1>2, <3>1, <3>4, SafeStays
    <3> QED BY <3>5 DEF Safe
  <2> QED BY <2>1 DEF SplitInv, InvocationInv
<1>9. Once'
  <2> SUFFICES ASSUME NEW d \in Deliveries, NEW r \in Rows, r.msg \in ToSet(envelope[d].events)
               PROVE  Total(r)' + One(r, Due)' <= starts'[d]
    BY DEF Once
  <2>1. /\ Total(r) + One(r, Due) <= starts[d]
        /\ stream'[r] + One(r, Due)' - starts'[d] <= stream[r] + One(r, Due) - starts[d]
    BY DEF SplitInv, Once
  <2>2. /\ One(r, Due)' \in {0, 1} /\ One(r, Due) \in {0, 1} /\ One(r, ToSet(inv.batch)) \in {0, 1}
        /\ One(r, ToSet(inv.batch))' = One(r, ToSet(inv.batch))
    BY DEF One
  <2>3. /\ stream[r] \in Nat /\ raw[r] \in Nat /\ errors[r] \in Nat /\ stream'[r] \in Nat
        /\ starts[d] \in Nat /\ starts'[d] \in Nat
        /\ raw'[r] = raw[r] /\ errors'[r] = errors[r]
    BY <1>1 DEF Types
  <2> HIDE DEF One
  <2> QED BY <2>1, <2>2, <2>3 DEF Total
<1> QED BY <1>1, <1>5, <1>6, <1>7, <1>8, <1>9 DEF SplitInv

LEMMA PassThroughKeeps == ASSUME SplitInv, PassThrough PROVE SplitInv'
<1>1. /\ AtRecord /\ Record \in Rows /\ Record \notin Deliveries /\ Answer("Ok") /\ Types
      /\ UNCHANGED <<where, stream, raw, errors, starts, envelope>> /\ "Ok" \in Results
  BY RecordsAssumption DEF PassThrough, SplitInv, Results
<1>2. PICK b : b = Record
  OBVIOUS
<1>3. /\ \A r \in Rows : stream[r] <= stream'[r] /\ stream'[r] <= stream[r] + One(r, Due)
      /\ \A d \in Deliveries : starts[d] <= starts'[d]
  BY <1>1 DEF Types, One
<1> QED BY <1>1, <1>2, <1>3, AnswerMoves DEF Types

LEMMA DropControlKeeps == ASSUME SplitInv, DropControl PROVE SplitInv'
<1>1. /\ AtRecord /\ Record \in Deliveries /\ Record \notin Rows /\ Answer("Dropped") /\ Types
      /\ UNCHANGED <<where, stream, raw, errors, starts, envelope>> /\ "Dropped" \in Results
      /\ envelope[Record].kind = "control"
  BY RecordsAssumption DEF DropControl, SplitInv, Results
<1>2. PICK b : b = Record
  OBVIOUS
<1>3. /\ \A r \in Rows : stream[r] <= stream'[r] /\ stream'[r] <= stream[r] + One(r, Due)
      /\ \A d \in Deliveries : starts[d] <= starts'[d]
  BY <1>1 DEF Types, One
<1>4. envelope[b].events = <<>>
  BY <1>1, <1>2, EnvelopeAssumption DEF Types
<1>5. ToSet(EventsOf(b)) = {}
  <2>1. [i \in DOMAIN <<>> |-> ReshapeRecords(<<>>[i])] = <<>>
    OBVIOUS
  <2>2. FlattenSeq(<<>>) = <<>>
    BY DEF FlattenSeq
  <2> QED BY <1>4, <2>1, <2>2, IdleIs DEF EventsOf
<1>6. EventsOf(b)' = EventsOf(b)
  BY <1>1, RowsStay
<1>7. Safe(b)'
  BY <1>5, <1>6 DEF Safe
<1> QED BY <1>1, <1>2, <1>3, <1>7, AnswerMoves DEF Types

LEMMA MsgIsOfOne ==
  ASSUME Types, NEW d \in Deliveries, NEW e \in Deliveries, NEW m,
         m \in ToSet(envelope[d].events), m \in ToSet(envelope[e].events)
  PROVE  d = e
<1>1. PICK i \in DOMAIN envelope[d].events : m = envelope[d].events[i]
  BY DEF ToSet
<1>2. PICK j \in DOMAIN envelope[e].events : m = envelope[e].events[j]
  BY DEF ToSet
<1>3. envelope \in Envelopes
  BY DEF Types
<1>4. envelope[d].events[i] = envelope[e].events[j]
  BY <1>1, <1>2
<1> QED BY <1>3, <1>4, EnvelopeAssumption

\* A new chunk: it is not empty, respects the limit of a put, and it and the rows after it
\* are due.
LEMMA ChunkIs ==
  ASSUME Types, AtRecord, Record \in Deliveries, UNCHANGED <<inv, envelope>>,
         NEW start \in Nat, 1 <= start, start <= Len(EventsOf(Record)), put' = Chunk(start)
  PROVE  /\ put' \in Puts /\ put'.pending # {}
         /\ put'.pending \subseteq DOMAIN EventsOf(Record)
         /\ \A i \in put'.pending : put'.next - PutRecordBatchMax <= i /\ i < put'.next
         /\ Due' = {EventsOf(Record)[i] : i \in {j \in DOMAIN EventsOf(Record) : start <= j}}
<1> DEFINE rows == EventsOf(Record)
           P    == {i \in DOMAIN rows : start <= i /\ i < start + PutRecordBatchMax}
           n    == start + PutRecordBatchMax
<1>1. /\ rows \in Seq(Rows) /\ rows' = rows
      /\ PutRecordBatchMax \in Nat /\ PutRecordBatchMax >= 1 /\ 0 \in 0..(ReingestMaxAttempts - 1)
  BY EventsOfIs, BudgetAssumption DEF EventsOf, Record
<1>2. put' = [pending |-> P, next |-> n, attempt |-> 0]
  BY DEF Chunk
<1> HIDE DEF rows
<1>3. /\ DOMAIN rows = 1..Len(rows) /\ Len(rows) \in Nat /\ start <= Len(rows) /\ n \in Nat
      /\ start \in P /\ P \subseteq Nat /\ P \subseteq DOMAIN rows
      /\ \A i \in P : n - PutRecordBatchMax <= i /\ i < n
      /\ {j \in DOMAIN rows : j \in P \/ n <= j} = {j \in DOMAIN rows : start <= j}
  <2>1. start <= Len(rows)
    BY DEF rows
  <2> QED BY <1>1, <2>1
<1> HIDE DEF P, n
<1>4. put'.pending = P /\ put'.next = n /\ put' \in Puts
  BY <1>1, <1>2, <1>3 DEF Puts
<1>5. Due' = {rows[i] : i \in {j \in DOMAIN rows : start <= j}}
  <2>1. Due' = {rows'[i] : i \in {j \in DOMAIN rows' : j \in put'.pending \/ put'.next <= j}}
    BY <1>3, <1>4 DEF Due, rows
  <2> QED BY <1>1, <1>3, <1>4, <2>1
<1> QED BY <1>3, <1>4, <1>5 DEF rows

LEMMA SplitKeeps == ASSUME SplitInv, Split PROVE SplitInv'
<1>1. /\ AtRecord /\ Record \in Deliveries /\ Record \notin Rows /\ put = NoPut /\ Types
      /\ UNCHANGED <<where, stream, raw, errors, envelope>> /\ "Dropped" \in Results
      /\ starts' = [starts EXCEPT ![Record] = @ + 1]
  BY RecordsAssumption DEF Split, SplitInv, Results
<1>2. PICK b : b = Record
  OBVIOUS
<1>3. Due = {}
  BY <1>1, IdleIs DEF Due
<1>4. /\ starts' \in [Deliveries -> Nat]
      /\ \A d \in Deliveries : starts'[d] = IF d = b THEN starts[d] + 1 ELSE starts[d]
      /\ \A d \in Deliveries : starts[d] \in Nat
  BY <1>1, <1>2 DEF Types
<1>5. EventsOf(b) \in Seq(Rows) /\ \A r \in ToSet(EventsOf(b)) : r.msg \in ToSet(envelope[b].events)
  BY <1>1, <1>2, EventsOfIs
<1>6. \A r \in Rows : stream[r] \in Nat /\ stream'[r] = stream[r]
  BY <1>1 DEF Types
<1>7. CASE EventsOf(Record) = <<>>
  <2>1. Answer("Dropped")
    BY <1>7 DEF Split
  <2>2. EventsOf(b)' = EventsOf(b) /\ EventsOf(b) = <<>>
    BY <1>1, <1>2, <1>7, RowsStay
  <2>3. Safe(b)'
    BY <2>2, IdleIs DEF Safe
  <2>4. /\ \A r \in Rows : stream[r] <= stream'[r] /\ stream'[r] <= stream[r] + One(r, Due)
        /\ \A d \in Deliveries : starts[d] <= starts'[d]
    BY <1>4, <1>6 DEF One
  <2> QED BY <1>1, <1>2, <1>4, <2>1, <2>3, <2>4, AnswerMoves DEF Types
<1>8. CASE EventsOf(Record) # <<>>
  <2>1. put' = Chunk(1) /\ UNCHANGED inv
    BY <1>8 DEF Split
  <2>2. Len(EventsOf(Record)) \in Nat /\ 1 <= Len(EventsOf(Record))
    BY <1>2, <1>5, <1>8
  <2>3. /\ put' \in Puts /\ put'.pending # {}
        /\ put'.pending \subseteq DOMAIN EventsOf(Record)
        /\ \A i \in put'.pending : put'.next - PutRecordBatchMax <= i /\ i < put'.next
        /\ Due' = {EventsOf(Record)[i] : i \in {j \in DOMAIN EventsOf(Record) : 1 <= j}}
    BY <1>1, <2>1, <2>2, ChunkIs
  <2>4. Due' = ToSet(EventsOf(b))
    BY <1>2, <1>5, <2>3 DEF ToSet
  <2>5. ASSUME NEW d \in Deliveries, NEW r \in Rows, r.msg \in ToSet(envelope[d].events)
        PROVE  stream'[r] + One(r, Due') - starts'[d] <= stream[r] + One(r, Due) - starts[d]
    <3>1. One(r, Due) = 0
      BY <1>3 DEF One
    <3>2. CASE r \in Due'
      <4>1. d = b
        BY <1>1, <1>2, <1>5, <2>4, <2>5, <3>2, MsgIsOfOne
      <4>2. One(r, Due') = 1
        BY <3>2 DEF One
      <4> QED BY <1>4, <1>6, <3>1, <4>1, <4>2
    <3>3. CASE r \notin Due'
      <4>1. One(r, Due') = 0
        BY <3>3 DEF One
      <4> QED BY <1>4, <1>6, <3>1, <4>1
    <3> QED BY <3>2, <3>3
  <2>6. \A r \in Rows : stream[r] <= stream'[r]
    BY <1>6
  <2> QED BY <1>1, <1>2, <1>4, <2>1, <2>3, <2>4, <2>5, <2>6, PutMoves DEF Types
<1> QED BY <1>7, <1>8

\* What a put does to the stream: every row that lands was due, once.
LEMMA LandedIs ==
  ASSUME SplitInv, put.pending # {}, NEW I, I \subseteq put.pending, stream' = Landed(I)
  PROVE  /\ AtRecord /\ Record \in Deliveries /\ Record \notin Rows /\ Types
         /\ stream' \in [Rows -> Nat]
         /\ \A r \in Rows : stream'[r] = stream[r] + One(r, {EventsOf(Record)[i] : i \in I})
         /\ \A r \in Rows : stream[r] <= stream'[r] /\ stream'[r] <= stream[r] + One(r, Due)
<1> DEFINE rows == EventsOf(Record)
<1>1. /\ AtRecord /\ Record \in Deliveries /\ Types /\ Record \notin Rows
      /\ put.pending \subseteq DOMAIN rows
  BY RecordsAssumption DEF SplitInv, PutInv
<1>2. rows \in Seq(Rows) /\ IsInjective(rows)
  BY <1>1, EventsOfIs
<1>3. stream' = [r \in Rows |-> stream[r] + Count(rows, I, r)]
  BY DEF Landed
<1>4. \A x \in I : rows[x] \in Due
  BY <1>1 DEF Due
<1> HIDE DEF rows
<1>5. \A r \in Rows : Count(rows, I, r) = One(r, {rows[i] : i \in I})
  BY <1>1, <1>2, CountIs DEF One
<1>6. \A r \in Rows : stream'[r] = stream[r] + One(r, {rows[i] : i \in I})
  BY <1>3, <1>5
<1> DEFINE L == {rows[i] : i \in I}
<1>10. L \subseteq Due
  BY <1>4
<1>11. \A r \in Rows : Count(rows, I, r) = One(r, L) /\ stream'[r] = stream[r] + One(r, L)
  BY <1>5, <1>6
<1> HIDE DEF L
<1>12. \A r \in Rows : stream[r] \in Nat
  BY <1>1 DEF Types
<1>7. \A r \in Rows : One(r, L) \in {0, 1} /\ One(r, Due) \in {0, 1} /\ One(r, L) <= One(r, Due)
  BY <1>10 DEF One
<1>8. \A r \in Rows : stream[r] <= stream'[r] /\ stream'[r] <= stream[r] + One(r, Due)
  <2> SUFFICES ASSUME NEW r \in Rows
               PROVE  stream[r] <= stream'[r] /\ stream'[r] <= stream[r] + One(r, Due)
    OBVIOUS
  <2>1. stream[r] \in Nat /\ stream'[r] = stream[r] + One(r, L)
    BY <1>11, <1>12
  <2>2. One(r, L) \in {0, 1} /\ One(r, Due) \in {0, 1} /\ One(r, L) <= One(r, Due)
    BY <1>7
  <2> QED BY <2>1, <2>2
<1>9. stream' \in [Rows -> Nat]
  <2>1. ASSUME NEW r \in Rows PROVE stream[r] + Count(rows, I, r) \in Nat
    <3>1. stream[r] \in Nat /\ Count(rows, I, r) \in {0, 1}
      BY <1>7, <1>11, <1>12
    <3> QED BY <3>1
  <2> QED BY <1>3, <2>1
<1> QED BY <1>1, <1>6, <1>8, <1>9 DEF rows

LEMMA PutRaisesKeeps ==
  ASSUME SplitInv, NEW landed \in SUBSET put.pending, PutRaises(landed)
  PROVE  SplitInv'
<1>1. /\ put.pending # {} /\ stream' = Landed(landed) /\ Answer("ProcessingFailed")
      /\ UNCHANGED <<where, raw, errors, starts, envelope>> /\ "ProcessingFailed" \in Results
  BY DEF PutRaises, Results
<1>2. /\ AtRecord /\ Record \in Deliveries /\ Record \notin Rows /\ Types
      /\ stream' \in [Rows -> Nat]
      /\ \A r \in Rows : stream[r] <= stream'[r] /\ stream'[r] <= stream[r] + One(r, Due)
  BY <1>1, LandedIs
<1>3. PICK b : b = Record
  OBVIOUS
<1>4. starts' \in [Deliveries -> Nat] /\ \A d \in Deliveries : starts[d] <= starts'[d]
  BY <1>1, <1>2 DEF Types
<1> QED BY <1>1, <1>2, <1>3, <1>4, AnswerMoves

LEMMA PutRecordBatchKeeps ==
  ASSUME SplitInv, NEW failed \in SUBSET put.pending, PutRecordBatch(failed)
  PROVE  SplitInv'
<1> DEFINE rows == EventsOf(Record)
           I == put.pending \ failed
           L == {rows[i] : i \in I}
<1>1. /\ put.pending # {} /\ stream' = Landed(I)
      /\ UNCHANGED <<where, raw, errors, starts, envelope>>
      /\ {"ProcessingFailed", "Dropped"} \subseteq Results
  BY DEF PutRecordBatch, Results
<1>2. /\ AtRecord /\ Record \in Deliveries /\ Record \notin Rows /\ Types
      /\ stream' \in [Rows -> Nat]
      /\ \A r \in Rows : stream'[r] = stream[r] + One(r, L)
      /\ \A r \in Rows : stream[r] <= stream'[r] /\ stream'[r] <= stream[r] + One(r, Due)
  BY <1>1, LandedIs
<1>3. PICK b : b = Record
  OBVIOUS
<1>4. /\ starts' \in [Deliveries -> Nat]
      /\ \A d \in Deliveries : starts[d] \in Nat /\ starts'[d] = starts[d] /\ starts[d] <= starts'[d]
      /\ \A r \in Rows : stream[r] \in Nat
  BY <1>1, <1>2 DEF Types
<1>5. /\ rows \in Seq(Rows) /\ IsInjective(rows) /\ rows = EventsOf(b)
      /\ put.pending \subseteq DOMAIN rows /\ put \in Puts
      /\ \A i \in put.pending : i < put.next
      /\ \A r \in ToSet(rows) : r \in Due \/ Kept(r)
  BY <1>1, <1>2, <1>3, EventsOfIs DEF SplitInv, PutInv, Types
<1>6. Due = {rows[i] : i \in {j \in DOMAIN rows : j \in put.pending \/ put.next <= j}}
  BY <1>1 DEF Due
<1>7. rows' = IF UNCHANGED inv THEN rows ELSE rows'
  BY <1>1 DEF EventsOf, Record
<1>8. DOMAIN rows = 1..Len(rows) /\ Len(rows) \in Nat /\ put.next \in Nat /\ put.pending \subseteq Nat
      /\ put.attempt \in 0..(ReingestMaxAttempts - 1)
  BY <1>5 DEF Puts
<1> HIDE DEF rows, I
\* A row that is due and not put is due.
<1>9. ASSUME NEW c \in SUBSET DOMAIN rows, \A i \in c : i \notin I,
             \A i \in DOMAIN rows : (i \in put.pending \/ put.next <= i) => i \in I \/ i \in c,
             \A i \in c : i \in put.pending \/ put.next <= i,
             Due' = {rows[i] : i \in c}
      PROVE  /\ \A r \in ToSet(rows) : r \in Due' \/ Kept(r) \/ stream'[r] > 0
             /\ \A d \in Deliveries, r \in Rows :
                  stream'[r] + One(r, Due') - starts'[d] <= stream[r] + One(r, Due) - starts[d]
  <2>1. /\ \A r \in Due' : r \in Due /\ r \notin L
        /\ \A r \in L : r \in Due
        /\ \A r \in Due : r \in Due' \/ r \in L
    BY <1>5, <1>6, <1>9 DEF IsInjective, I
  <2>2. \A r \in Rows : r \in L => stream'[r] > 0
    BY <1>2, <1>4 DEF One
  <2>3. \A r \in ToSet(rows) : r \in Rows
    BY <1>5 DEF ToSet
  <2>4. \A r \in Rows : One(r, L) + One(r, Due') <= One(r, Due)
    BY <2>1 DEF One
  <2>5. \A r \in Rows : One(r, L) \in {0, 1} /\ One(r, Due') \in {0, 1} /\ One(r, Due) \in {0, 1}
    BY DEF One
  <2>6. ASSUME NEW d \in Deliveries, NEW r \in Rows
        PROVE  stream'[r] + One(r, Due') - starts'[d] <= stream[r] + One(r, Due) - starts[d]
    <3>1. One(r, L) \in {0, 1} /\ One(r, Due') \in {0, 1} /\ One(r, Due) \in {0, 1}
      BY <2>5
    <3>2. /\ stream[r] \in Nat /\ stream'[r] = stream[r] + One(r, L) /\ starts[d] \in Nat
          /\ starts'[d] = starts[d] /\ One(r, L) + One(r, Due') <= One(r, Due)
      BY <1>2, <1>4, <2>4
    <3> QED BY <3>1, <3>2
  <2> QED BY <1>5, <2>1, <2>2, <2>3, <2>6
<1>10. CASE failed # {} /\ put.attempt = ReingestMaxAttempts - 1
  <2>1. Answer("ProcessingFailed")
    BY <1>10 DEF PutRecordBatch
  <2> QED BY <1>1, <1>2, <1>3, <1>4, <2>1, AnswerMoves
<1>11. CASE failed # {} /\ put.attempt # ReingestMaxAttempts - 1
  <2> DEFINE a == put.attempt + 1
             new == [put EXCEPT !.pending = failed, !.attempt = a]
  <2>1. put' = new /\ UNCHANGED inv
    BY <1>11 DEF PutRecordBatch, Retried
  <2>2. a \in 0..(ReingestMaxAttempts - 1) /\ failed \in SUBSET Nat
    BY <1>8, <1>11, BudgetAssumption
  <2> HIDE DEF a
  <2>3. new \in Puts /\ new.pending = failed /\ new.next = put.next
    BY <1>5, <2>2 DEF Puts
  <2> HIDE DEF new
  <2>4. put' \in Puts /\ put'.pending = failed /\ put'.next = put.next /\ rows' = rows
    BY <1>7, <2>1, <2>3
  <2> DEFINE c == {j \in DOMAIN rows : j \in failed \/ put.next <= j}
  <2>5. Due' = {rows[i] : i \in c}
    <3>1. Due' = {rows'[i] : i \in {j \in DOMAIN rows' : j \in put'.pending \/ put'.next <= j}}
      BY <1>11, <2>4 DEF Due, rows
    <3> QED BY <2>4, <3>1
  <2>6. /\ c \in SUBSET DOMAIN rows /\ \A i \in c : i \notin I
        /\ \A i \in DOMAIN rows : (i \in put.pending \/ put.next <= i) => i \in I \/ i \in c
        /\ \A i \in c : i \in put.pending \/ put.next <= i
    BY <1>5, <1>8 DEF I
  <2> HIDE DEF c
  <2>7. /\ \A r \in ToSet(rows) : r \in Due' \/ Kept(r) \/ stream'[r] > 0
        /\ \A d \in Deliveries, r \in Rows :
             stream'[r] + One(r, Due') - starts'[d] <= stream[r] + One(r, Due) - starts[d]
    BY <1>9, <2>5, <2>6
  <2>8. /\ put'.pending # {} /\ put'.pending \subseteq DOMAIN rows
        /\ \A i \in put'.pending : put'.next - PutRecordBatchMax <= i /\ i < put'.next
    BY <1>1, <1>5, <1>11, <2>4 DEF SplitInv, PutInv
  <2> QED BY <1>1, <1>2, <1>4, <2>1, <2>4, <2>7, <2>8, PutMoves DEF rows
<1>12. CASE failed = {} /\ More
  <2>1. put' = Chunk(put.next) /\ UNCHANGED inv
    BY <1>12 DEF PutRecordBatch
  <2>2. 1 <= put.next /\ put.next <= Len(rows)
    BY <1>1, <1>5, <1>8, <1>12 DEF More, rows
  <2>3. /\ put' \in Puts /\ put'.pending # {} /\ put'.pending \subseteq DOMAIN rows
        /\ \A i \in put'.pending : put'.next - PutRecordBatchMax <= i /\ i < put'.next
        /\ Due' = {rows[i] : i \in {j \in DOMAIN rows : put.next <= j}}
    BY <1>1, <1>2, <1>8, <2>1, <2>2, ChunkIs DEF rows
  <2> DEFINE c == {j \in DOMAIN rows : put.next <= j}
  <2>4. /\ c \in SUBSET DOMAIN rows /\ \A i \in c : i \notin I
        /\ \A i \in DOMAIN rows : (i \in put.pending \/ put.next <= i) => i \in I \/ i \in c
        /\ \A i \in c : i \in put.pending \/ put.next <= i
    BY <1>5, <1>8, <1>12 DEF I
  <2>5. Due' = {rows[i] : i \in c}
    BY <2>3
  <2> HIDE DEF c
  <2>6. /\ \A r \in ToSet(rows) : r \in Due' \/ Kept(r) \/ stream'[r] > 0
        /\ \A d \in Deliveries, r \in Rows :
             stream'[r] + One(r, Due') - starts'[d] <= stream[r] + One(r, Due) - starts[d]
    BY <1>9, <2>4, <2>5
  <2> QED BY <1>1, <1>2, <1>4, <2>1, <2>3, <2>6, PutMoves DEF rows
<1>13. CASE failed = {} /\ ~More
  <2>1. Answer("Dropped")
    BY <1>13 DEF PutRecordBatch
  <2>2. I = put.pending
    BY <1>13 DEF I
  <2>3. \A i \in DOMAIN rows : ~(put.next <= i)
    BY <1>8, <1>13 DEF More, rows
  <2>4. \A r \in Due : r \in L
    BY <1>6, <2>2, <2>3
  <2>5. \A r \in ToSet(rows) : r \in Rows
    BY <1>5 DEF ToSet
  <2>6. \A r \in Rows : r \in L => stream'[r] > 0
    BY <1>2, <1>4 DEF One
  <2>7. inv'.batch = inv.batch
    <3>1. inv \in Invs
      BY <1>2 DEF Types
    <3> QED BY <2>1, <3>1 DEF Answer, Invs
  <2>8. \A r \in Rows : Kept(r) => Kept(r)'
    BY <1>1, <1>2, <1>4, <2>7 DEF Kept
  <2>9. \A r \in ToSet(rows) : Kept(r)'
    BY <1>5, <2>4, <2>5, <2>6, <2>8 DEF Kept
  <2>10. Safe(b)'
    <3>1. EventsOf(b)' = EventsOf(b)
      BY <1>1, RowsStay
    <3> QED BY <1>5, <2>9, <3>1 DEF Safe
  <2> QED BY <1>1, <1>2, <1>3, <1>4, <2>1, <2>10, AnswerMoves
<1> QED BY <1>10, <1>11, <1>12, <1>13

\* An invocation begins, begins again or is over: no answer is out and no put under way.
LEMMA FreshMoves ==
  ASSUME SplitInv, UNCHANGED <<envelope, starts>>, Types', put' = NoPut,
         inv'.out = <<>>, IsInjective(inv'.batch), inv' = Idle \/ inv'.at = 1,
         Keeps, \A r \in Rows : Total(r)' <= Total(r),
         \A d \in Deliveries : where'[d] = "dropped" => Safe(d),
         RawHasTool'
  PROVE  SplitInv'
<1>1. Types
  BY DEF SplitInv
<1>2. put'.pending = {} /\ Due' = {}
  BY IdleIs DEF Due
<1>3. PutInv'
  BY <1>2 DEF PutInv
<1>4. DroppedIsSafe'
  BY <1>1, SafeStays DEF DroppedIsSafe
<1>5. InvocationInv'
  <2>1. Len(inv'.out) = 0 /\ DOMAIN inv'.out = {}
    OBVIOUS
  <2>2. Len(inv'.batch) \in Nat
    <3>1. inv'.batch \in Seq(Records)
      BY DEF Types, Invs
    <3> QED BY <3>1
  <2> QED BY <2>1, <2>2 DEF InvocationInv
<1>6. Once'
  <2> SUFFICES ASSUME NEW d \in Deliveries, NEW r \in Rows, r.msg \in ToSet(envelope[d].events)
               PROVE  Total(r)' + One(r, Due)' <= starts'[d]
    BY DEF Once
  <2>1. Total(r) + One(r, Due) <= starts[d] /\ Total(r)' <= Total(r) /\ starts'[d] = starts[d]
    BY DEF SplitInv, Once
  <2>2. One(r, Due)' = 0 /\ One(r, Due) \in {0, 1}
    BY <1>2 DEF One
  <2>3. Total(r) \in Nat /\ Total(r)' \in Nat /\ starts[d] \in Nat
    <3>1. One(r, ToSet(inv.batch)) \in {0, 1} /\ One(r, ToSet(inv.batch))' \in {0, 1}
      BY DEF One
    <3>2. /\ stream[r] \in Nat /\ raw[r] \in Nat /\ errors[r] \in Nat /\ starts[d] \in Nat
          /\ stream'[r] \in Nat /\ raw'[r] \in Nat /\ errors'[r] \in Nat
      BY <1>1 DEF Types
    <3>3. PICK n \in {0, 1} : n = One(r, ToSet(inv.batch))
      BY <3>1
    <3>4. PICK k \in {0, 1} : k = One(r, ToSet(inv.batch))'
      BY <3>1
    <3>5. Total(r) = stream[r] + raw[r] + errors[r] + n
      BY <3>3 DEF Total
    <3>6. Total(r)' = stream'[r] + raw'[r] + errors'[r] + k
      BY <3>4 DEF Total
    <3>7. stream[r] + raw[r] + errors[r] + n \in Nat
      BY <3>2
    <3>8. stream'[r] + raw'[r] + errors'[r] + k \in Nat
      BY <3>2
    <3> QED BY <3>2, <3>5, <3>6, <3>7, <3>8
  <2> QED BY <2>1, <2>2, <2>3
<1> QED BY <1>3, <1>4, <1>5, <1>6 DEF SplitInv

\* Where no record is at hand there is no put under way.
LEMMA NoPutIs ==
  ASSUME SplitInv, ~AtRecord
  PROVE  put = NoPut
BY DEF SplitInv, PutInv

LEMMA IdleIsNotAtRecord == ASSUME inv = Idle PROVE ~AtRecord
BY IdleIs DEF AtRecord

LEMMA InvokeKeeps == ASSUME SplitInv, Invoke PROVE SplitInv'
<1>1. Types /\ inv = Idle /\ put' = NoPut /\ UNCHANGED <<raw, errors, put, starts, envelope>>
  BY NoPutIs, IdleIsNotAtRecord DEF Invoke, SplitInv
<1>19. PICK S \in SUBSET ({d \in Deliveries : where[d] = "buffered"} \cup {r \in Rows : stream[r] > 0}) :
        /\ \E batch \in SetToSeqs(S) : inv' = [Idle EXCEPT !.batch = batch, !.at = 1]
        /\ where' = [d \in Deliveries |-> IF d \in S THEN "invoked" ELSE where[d]]
        /\ stream' = [r \in Rows |-> IF r \in S THEN stream[r] - 1 ELSE stream[r]]
  BY DEF Invoke
<1>2. PICK batch \in SetToSeqs(S) : inv' = [Idle EXCEPT !.batch = batch, !.at = 1]
  BY <1>19
<1>3. S \subseteq Records /\ IsFiniteSet(S) /\ Cardinality(S) \in Nat
  <2>1. S \subseteq Records
    BY DEF Records
  <2> QED BY <2>1, RecordsAssumption, FS_Subset, FS_CardinalityType
<1>4. batch \in [1..Cardinality(S) -> S] /\ IsInjective(batch)
  <2>1. /\ batch \in [1..Cardinality(S) -> S]
        /\ \A i, j \in 1..Cardinality(S) : i # j => batch[i] # batch[j]
    BY DEF SetToSeqs
  <2> QED BY <2>1 DEF IsInjective
<1>5. ToSet(batch) = S
  BY <1>3, <1>4, InjectiveIsOnto
<1>6. batch \in Seq(Records)
  BY <1>3, <1>4
<1> DEFINE new == [Idle EXCEPT !.batch = batch, !.at = 1]
<1>7. new \in Invs /\ new.batch = batch /\ new.at = 1 /\ new.out = <<>>
  BY <1>6, IdleIs DEF Invs
<1> HIDE DEF new
<1>8. inv' \in Invs /\ inv'.batch = batch /\ inv'.at = 1 /\ inv'.out = <<>>
  BY <1>2, <1>7 DEF new
<1>9. \A r \in Rows : r \in S => stream[r] > 0
  BY RecordsAssumption
<1>10. \A r \in Rows : /\ stream[r] \in Nat /\ raw[r] \in Nat /\ errors[r] \in Nat
                       /\ stream'[r] = IF r \in S THEN stream[r] - 1 ELSE stream[r]
                       /\ raw'[r] = raw[r] /\ errors'[r] = errors[r]
  BY <1>1, <1>19 DEF Types
<1>11. stream' \in [Rows -> Nat]
  BY <1>19, <1>9, <1>10
<1>12. where' \in [Deliveries -> {"buffered", "invoked", "dropped", "errors"}]
  BY <1>1, <1>19 DEF Types
<1>13. Types'
  BY <1>1, <1>8, <1>11, <1>12 DEF Types
<1>14. ToSet(inv.batch) = {} /\ ToSet(inv'.batch) = S
  BY <1>1, <1>5, <1>8, IdleIs
<1>15. Keeps
  BY <1>10, <1>14 DEF Keeps, Kept
<1>16. ASSUME NEW r \in Rows PROVE Total(r)' <= Total(r)
  <2>1. /\ One(r, ToSet(inv.batch)) = 0
        /\ One(r, ToSet(inv.batch))' = IF r \in S THEN 1 ELSE 0
    BY <1>14 DEF One
  <2> HIDE DEF One
  <2> QED BY <1>10, <2>1 DEF Total
<1>17. \A d \in Deliveries : where'[d] = "dropped" => Safe(d)
  BY <1>19 DEF SplitInv, DroppedIsSafe
<1>18. RawHasTool'
  BY <1>1 DEF SplitInv, RawHasTool
<1> QED BY <1>1, <1>4, <1>8, <1>13, <1>15, <1>16, <1>17, <1>18, FreshMoves

LEMMA ReturnKeeps == ASSUME SplitInv, Return PROVE SplitInv'
<1> DEFINE B  == ToSet(inv.batch)
           ok == AnsweredWith("Ok")
<1>1. /\ Types /\ inv # Idle /\ ~AtRecord /\ inv' = Idle /\ put' = NoPut
      /\ UNCHANGED <<stream, put, starts, envelope>>
      /\ raw' = [r \in Rows |-> IF r \in {q \in ok : q.tool # None} THEN raw[r] + 1 ELSE raw[r]]
      /\ errors' = [r \in Rows |-> IF r \in {q \in ok : q.tool = None} THEN errors[r] + 1 ELSE errors[r]]
  BY NoPutIs DEF Return, SplitInv
<1>2. PICK again : where' = [d \in Deliveries |->
                   IF d \in AnsweredWith("Dropped") THEN "dropped"
                   ELSE IF d \in again THEN "buffered"
                   ELSE IF d \in AnsweredWith("ProcessingFailed") THEN "errors"
                   ELSE where[d]]
  BY DEF Return
<1>3. DOMAIN inv.out = DOMAIN inv.batch /\ inv.batch \in Seq(Records)
  <2>1. inv.batch \in Seq(Records) /\ inv.out \in Seq(Results) /\ inv.at \in Nat
    BY <1>1 DEF Types, Invs
  <2>2. inv.at = Len(inv.out) + 1 /\ inv.at <= Len(inv.batch) + 1 /\ inv.at \notin DOMAIN inv.batch
    BY <1>1 DEF SplitInv, InvocationInv, AtRecord
  <2> QED BY <2>1, <2>2
<1>4. \A r \in Rows : r \in ok <=> r \in B
  <2>1. \A r : r \in ok => r \in B
    BY <1>3 DEF AnsweredWith, ToSet
  <2>2. ASSUME NEW r \in Rows, r \in B PROVE r \in ok
    <3>1. PICK i \in DOMAIN inv.batch : inv.batch[i] = r
      BY <2>2 DEF ToSet
    <3>2. i \in DOMAIN inv.out /\ inv.out[i] = "Ok"
      BY <1>3, <3>1 DEF SplitInv, InvocationInv
    <3> QED BY <3>1, <3>2 DEF AnsweredWith
  <2> QED BY <2>1, <2>2
<1>5. \A d \in Deliveries : d \in AnsweredWith("Dropped") => Safe(d)
  BY DEF AnsweredWith, SplitInv, InvocationInv
<1> HIDE DEF ok
<1>6. \A r \in Rows : /\ stream[r] \in Nat /\ raw[r] \in Nat /\ errors[r] \in Nat
                      /\ stream'[r] = stream[r]
                      /\ raw'[r] = IF r \in B /\ r.tool # None THEN raw[r] + 1 ELSE raw[r]
                      /\ errors'[r] = IF r \in B /\ r.tool = None THEN errors[r] + 1 ELSE errors[r]
  BY <1>1, <1>4 DEF Types
<1>7. raw' \in [Rows -> Nat] /\ errors' \in [Rows -> Nat]
  BY <1>1, <1>6
<1>8. where' \in [Deliveries -> {"buffered", "invoked", "dropped", "errors"}]
  BY <1>1, <1>2 DEF Types
<1>9. Types'
  BY <1>1, <1>7, <1>8, IdleIs DEF Types
<1>10. ToSet(inv'.batch) = {}
  BY <1>1, IdleIs
<1>11. Keeps
  BY <1>6, <1>10 DEF Keeps, Kept
<1>12. ASSUME NEW r \in Rows PROVE Total(r)' <= Total(r)
  <2>1. One(r, ToSet(inv.batch)) = IF r \in B THEN 1 ELSE 0
    BY DEF One
  <2>2. One(r, ToSet(inv.batch))' = 0
    BY <1>10 DEF One
  <2> HIDE DEF B
  <2>3. Total(r) = stream[r] + raw[r] + errors[r] + (IF r \in B THEN 1 ELSE 0)
    BY <2>1 DEF Total
  <2>4. Total(r)' = stream'[r] + raw'[r] + errors'[r] + 0
    BY <2>2 DEF Total
  <2> QED BY <1>6, <2>3, <2>4
<1>13. \A d \in Deliveries : where'[d] = "dropped" => Safe(d)
  BY <1>2, <1>5 DEF SplitInv, DroppedIsSafe
<1>14. RawHasTool'
  BY <1>6 DEF SplitInv, RawHasTool
<1>15. inv'.out = <<>> /\ IsInjective(inv'.batch)
  BY <1>1, IdleIs
<1> QED BY <1>1, <1>9, <1>11, <1>12, <1>13, <1>14, <1>15, FreshMoves

\* The answer of the invocation is lost: the same batch again, or all of it under errors/.
LEMMA AbortKeeps ==
  ASSUME SplitInv, inv # Idle, Abort, put' = NoPut, UNCHANGED <<stream, raw, starts, envelope>>
  PROVE  SplitInv'
<1>1. Types /\ inv \in Invs
  BY DEF SplitInv, Types
<1>2. RawHasTool'
  BY DEF SplitInv, RawHasTool
<1>3. \A r \in Rows : stream[r] \in Nat /\ raw[r] \in Nat /\ errors[r] \in Nat
  BY <1>1 DEF Types
<1>4. ASSUME inv.tries < StreamRetries, UNCHANGED <<where, errors>>,
             inv' = [inv EXCEPT !.at = 1, !.out = <<>>, !.tries = @ + 1]
      PROVE  SplitInv'
  <2> DEFINE t == inv.tries + 1
             new == [inv EXCEPT !.at = 1, !.out = <<>>, !.tries = t]
  <2>1. t \in 0..StreamRetries
    <3>1. inv.tries \in 0..StreamRetries
      BY <1>1 DEF Invs
    <3> QED BY <1>4, <3>1, BudgetAssumption
  <2>2. inv' = new
    BY <1>4
  <2> HIDE DEF t
  <2>3. new \in Invs /\ new.batch = inv.batch /\ new.at = 1 /\ new.out = <<>>
    <3> DEFINE BS == Seq(Records)
               O == Seq(Results)
               N == 0..StreamRetries
    <3>1. Invs = [batch : BS, at : Nat, out : O, tries : N] /\ <<>> \in O /\ t \in N /\ 1 \in Nat
      BY <2>1 DEF Invs
    <3> HIDE DEF BS, O, N
    <3> QED BY <1>1, <3>1
  <2> HIDE DEF new
  <2>4. inv' \in Invs /\ inv'.batch = inv.batch /\ inv'.at = 1 /\ inv'.out = <<>>
    BY <2>2, <2>3
  <2>5. Types'
    BY <1>1, <1>4, <2>4, IdleIs DEF Types
  <2>6. Keeps
    BY <1>4, <2>4 DEF Keeps, Kept
  <2>7. ASSUME NEW r \in Rows PROVE Total(r)' <= Total(r)
    <3>1. One(r, ToSet(inv.batch))' = One(r, ToSet(inv.batch)) /\ One(r, ToSet(inv.batch)) \in {0, 1}
      BY <2>4 DEF One
    <3>2. PICK n \in {0, 1} : n = One(r, ToSet(inv.batch))
      BY <3>1
    <3>3. Total(r)' = stream[r] + raw[r] + errors[r] + n /\ Total(r) = stream[r] + raw[r] + errors[r] + n
      BY <1>4, <3>1, <3>2 DEF Total
    <3> QED BY <1>3, <3>3
  <2>8. \A d \in Deliveries : where'[d] = "dropped" => Safe(d)
    BY <1>4 DEF SplitInv, DroppedIsSafe
  <2>9. IsInjective(inv'.batch)
    BY <2>4 DEF SplitInv, InvocationInv
  <2> QED BY <1>2, <2>4, <2>5, <2>6, <2>7, <2>8, <2>9, FreshMoves
<1>5. ASSUME inv' = Idle,
             where' = [d \in Deliveries |-> IF d \in ToSet(inv.batch) THEN "errors" ELSE where[d]],
             errors' = [r \in Rows |-> IF r \in ToSet(inv.batch) THEN errors[r] + 1 ELSE errors[r]]
      PROVE  SplitInv'
  <2> DEFINE B == ToSet(inv.batch)
  <2>1. \A r \in Rows : errors'[r] = IF r \in B THEN errors[r] + 1 ELSE errors[r]
    BY <1>5
  <2>2. errors' \in [Rows -> Nat]
    BY <1>3, <1>5
  <2>3. where' \in [Deliveries -> {"buffered", "invoked", "dropped", "errors"}]
    BY <1>1, <1>5 DEF Types
  <2>4. Types'
    BY <1>1, <1>5, <2>2, <2>3, IdleIs DEF Types
  <2>5. ToSet(inv'.batch) = {} /\ inv'.out = <<>> /\ IsInjective(inv'.batch)
    BY <1>5, IdleIs
  <2>6. Keeps
    BY <1>3, <2>1, <2>5 DEF Keeps, Kept
  <2>7. ASSUME NEW r \in Rows PROVE Total(r)' <= Total(r)
    <3>1. One(r, ToSet(inv.batch)) = IF r \in B THEN 1 ELSE 0
      BY DEF One
    <3>2. One(r, ToSet(inv.batch))' = 0
      BY <2>5 DEF One
    <3> HIDE DEF B
    <3>3. Total(r) = stream[r] + raw[r] + errors[r] + (IF r \in B THEN 1 ELSE 0)
      BY <3>1 DEF Total
    <3>4. Total(r)' = stream[r] + raw[r] + errors'[r] + 0
      BY <3>2 DEF Total
    <3> QED BY <1>3, <2>1, <3>3, <3>4
  <2>8. \A d \in Deliveries : where'[d] = "dropped" => Safe(d)
    BY <1>5 DEF SplitInv, DroppedIsSafe
  <2> QED BY <1>2, <1>5, <2>4, <2>5, <2>6, <2>7, <2>8, FreshMoves
<1> QED BY <1>4, <1>5 DEF Abort

LEMMA MalformedKeeps == ASSUME SplitInv, Malformed PROVE SplitInv'
<1>1. inv # Idle
  BY AtRecordIs DEF Malformed
<1> QED BY <1>1, AbortKeeps DEF Malformed

LEMMA InvocationLostKeeps == ASSUME SplitInv, InvocationLost PROVE SplitInv'
BY AbortKeeps DEF InvocationLost

-----------------------------------------------------------------------------
(***************************************************************************)
(* The theorems.                                                           *)
(***************************************************************************)

LEMMA InitHolds == ASSUME Init PROVE SplitInv
<1>1. /\ inv = Idle /\ put = NoPut /\ envelope \in Envelopes
      /\ where = [d \in Deliveries |-> "buffered"] /\ starts = [d \in Deliveries |-> 0]
      /\ stream = [r \in Rows |-> 0] /\ raw = [r \in Rows |-> 0] /\ errors = [r \in Rows |-> 0]
  BY DEF Init
<1>2. Types
  BY <1>1, IdleIs DEF Types
<1>3. PutInv /\ Due = {}
  BY <1>1, IdleIs DEF PutInv, Due
<1>4. InvocationInv /\ ToSet(inv.batch) = {}
  BY <1>1, IdleIs DEF InvocationInv
<1>5. Once
  <2> SUFFICES ASSUME NEW d \in Deliveries, NEW r \in Rows
               PROVE  Total(r) + One(r, Due) <= starts[d]
    BY DEF Once
  <2>1. One(r, Due) = 0 /\ One(r, ToSet(inv.batch)) = 0
    BY <1>3, <1>4 DEF One
  <2>2. stream[r] = 0 /\ raw[r] = 0 /\ errors[r] = 0 /\ starts[d] = 0
    BY <1>1
  <2>3. Total(r) = 0 + 0 + 0 + 0
    BY <2>1, <2>2 DEF Total
  <2> QED BY <2>1, <2>2, <2>3
<1>6. DroppedIsSafe /\ RawHasTool
  BY <1>1 DEF DroppedIsSafe, RawHasTool
<1> QED BY <1>2, <1>3, <1>4, <1>5, <1>6 DEF SplitInv

LEMMA StutterKeeps == ASSUME SplitInv, UNCHANGED vars PROVE SplitInv'
<1>1. UNCHANGED <<envelope, where, stream, raw, errors, inv, put, starts>>
  BY DEF vars
<1>2. Types' /\ InvocationInv' /\ RawHasTool'
  BY <1>1 DEF SplitInv, Types, InvocationInv, RawHasTool, Safe, Kept, EventsOf
<1>3. Due' = Due
  BY <1>1 DEF Due, EventsOf, Record
<1>4. PutInv'
  BY <1>1, <1>3 DEF SplitInv, PutInv, AtRecord, Record, EventsOf, Kept
<1>5. DroppedIsSafe'
  BY <1>1 DEF SplitInv, DroppedIsSafe, Safe, Kept, EventsOf
<1>6. Once'
  BY <1>1, <1>3 DEF SplitInv, Once, Total, One
<1> QED BY <1>2, <1>4, <1>5, <1>6 DEF SplitInv

LEMMA NextKeeps == ASSUME SplitInv, [Next]_vars PROVE SplitInv'
<1>1. CASE Invoke
  BY <1>1, InvokeKeeps
<1>2. CASE PassThrough
  BY <1>2, PassThroughKeeps
<1>3. CASE DropControl
  BY <1>3, DropControlKeeps
<1>4. CASE Split
  BY <1>4, SplitKeeps
<1>5. CASE Malformed
  BY <1>5, MalformedKeeps
<1>6. CASE Return
  BY <1>6, ReturnKeeps
<1>7. CASE \E failed \in SUBSET put.pending : PutRecordBatch(failed)
  BY <1>7, PutRecordBatchKeeps
<1>8. CASE \E landed \in SUBSET put.pending : PutRaises(landed)
  BY <1>8, PutRaisesKeeps
<1>9. CASE InvocationLost
  BY <1>9, InvocationLostKeeps
<1>10. CASE UNCHANGED vars
  BY <1>10, StutterKeeps
<1> QED BY <1>1, <1>2, <1>3, <1>4, <1>5, <1>6, <1>7, <1>8, <1>9, <1>10 DEF Next, Lambda

LEMMA Inductive == Spec => []SplitInv
<1>1. Init => SplitInv
  BY InitHolds
<1>2. SplitInv /\ [Next]_vars => SplitInv'
  BY NextKeeps
<1> QED BY <1>1, <1>2, PTL DEF Spec

\* A batch has no record twice: Copies counts at most one copy there.
LEMMA CopiesIs ==
  ASSUME SplitInv, NEW r \in Rows
  PROVE  /\ Copies(r) = Total(r) /\ One(r, ToSet(inv.batch)) \in {0, 1}
         /\ stream[r] \in Nat /\ raw[r] \in Nat /\ errors[r] \in Nat
<1>1. IsInjective(inv.batch)
  BY DEF SplitInv, InvocationInv
<1>2. Count(inv.batch, DOMAIN inv.batch, r) = One(r, ToSet(inv.batch))
  <2>1. Count(inv.batch, DOMAIN inv.batch, r) =
          IF r \in {inv.batch[i] : i \in DOMAIN inv.batch} THEN 1 ELSE 0
    BY <1>1, CountIs
  <2> QED BY <2>1 DEF One, ToSet
<1>3. One(r, ToSet(inv.batch)) \in {0, 1}
  BY DEF One
<1>4. stream[r] \in Nat /\ raw[r] \in Nat /\ errors[r] \in Nat
  BY DEF SplitInv, Types
<1> QED BY <1>2, <1>3, <1>4 DEF Copies, Total

\* Every variable stays in its type; the attempts of a put stay under _REINGEST_MAX_ATTEMPTS
\* and no put_record_batch call carries more than _PUT_RECORD_BATCH_MAX rows.
THEOREM TypeCorrect == Spec => []TypeOK
<1>1. SplitInv => TypeOK
  <2> SUFFICES ASSUME SplitInv PROVE TypeOK
    OBVIOUS
  <2>1. Types /\ inv \in Invs /\ put \in Puts
    BY DEF SplitInv, Types
  <2>2. inv.at \in 0..(Len(inv.batch) + 1)
    <3>1. inv.batch \in Seq(Records) /\ inv.at \in Nat
      BY <2>1 DEF Invs
    <3>2. Len(inv.batch) \in Nat
      BY <3>1
    <3>3. CASE inv = Idle
      <4>1. inv.at = 0
        BY <3>3, IdleIs
      <4> QED BY <3>2, <4>1
    <3>4. CASE inv # Idle
      <4>1. inv.at <= Len(inv.batch) + 1
        BY <3>4 DEF SplitInv, InvocationInv
      <4> QED BY <3>1, <3>2, <4>1
    <3> QED BY <3>3, <3>4
  <2>3. inv \in [batch : Seq(Records), at : 0..(Len(inv.batch) + 1), out : Seq(Results),
                 tries : 0..StreamRetries]
    <3> DEFINE B == Seq(Records)
               O == Seq(Results)
               N == 0..StreamRetries
               A == 0..(Len(inv.batch) + 1)
    <3>1. inv \in [batch : B, at : Nat, out : O, tries : N] /\ inv.at \in A
      BY <2>1, <2>2 DEF Invs
    <3> HIDE DEF B, O, N, A
    <3>2. inv \in [batch : B, at : A, out : O, tries : N]
      BY <3>1
    <3> QED BY <3>2 DEF B, O, N, A
  <2>4. Cardinality(put.pending) <= PutRecordBatchMax
    <3> DEFINE from == put.next - PutRecordBatchMax
               to   == put.next - 1
    <3>1. put.next \in Nat /\ put.pending \subseteq Nat /\ PutRecordBatchMax \in Nat \ {0}
      BY <2>1, BudgetAssumption DEF Puts
    <3>2. put.pending \subseteq from..to
      BY <3>1 DEF SplitInv, PutInv
    <3>3. from \in Int /\ to \in Int /\ to - from + 1 = PutRecordBatchMax /\ ~(from > to)
      BY <3>1
    <3> HIDE DEF from, to
    <3>4. IsFiniteSet(from..to) /\ Cardinality(from..to) = PutRecordBatchMax
      BY <3>3, FS_Interval
    <3> QED BY <3>2, <3>4, FS_Subset
  <2> QED BY <2>1, <2>3, <2>4 DEF Types, Puts, TypeOK
<1> QED BY <1>1, Inductive, PTL

\* A record is answered Dropped only after _reingest returned: whatever puts failed, raised
\* or were repeated and wherever an invocation died, an event of a dropped delivery still
\* has its rows in the stream, in an invocation or delivered.
THEOREM NothingIsLost == Spec => []NoEventLost
<1>1. SplitInv => NoEventLost
  <2> SUFFICES ASSUME SplitInv, NEW d \in Deliveries, where[d] = "dropped",
                      NEW i \in DOMAIN envelope[d].events, NEW m, m = envelope[d].events[i]
               PROVE  LET In(forms) == \E r \in Rows : r.msg = m /\ r.form \in forms /\ Copies(r) > 0
                      IN  IF m.emf THEN \A name \in ToSet(m.metrics) \ {None} : In({name, "original"})
                          ELSE In({"otlp", "original"})
    BY DEF NoEventLost
  <2>1. Types /\ Safe(d)
    BY DEF SplitInv, DroppedIsSafe
  <2>2. envelope[d].events \in Seq(Messages) /\ m \in Messages
    <3>1. envelope[d].events \in Seq(Messages)
      BY <2>1, EnvelopeAssumption DEF Types
    <3> QED BY <3>1
  <2>3. \A r \in ToSet(ReshapeRecords(m)) : r \in ToSet(EventsOf(d))
    BY <2>1, EventsOfIs
  <2>4. ASSUME NEW r \in ToSet(ReshapeRecords(m)) PROVE r \in Rows /\ r.msg = m /\ Copies(r) > 0
    <3>1. r \in Rows /\ Kept(r)
      BY <2>1, <2>2, <2>3 DEF Safe, Rows
    <3>2. r.msg = m
      BY <2>2, ReshapeIs
    <3>3. /\ Copies(r) = Total(r)
          /\ stream[r] \in Nat /\ raw[r] \in Nat /\ errors[r] \in Nat
      BY <3>1, CopiesIs
    <3>4. PICK n \in {0, 1} : n = One(r, ToSet(inv.batch)) /\ (r \in ToSet(inv.batch) => n = 1)
      BY DEF One
    <3>5. Total(r) = stream[r] + raw[r] + errors[r] + n
      BY <3>4 DEF Total
    <3>6. stream[r] > 0 \/ raw[r] > 0 \/ errors[r] > 0 \/ n = 1
      BY <3>1, <3>4 DEF Kept
    <3>7. stream[r] + raw[r] + errors[r] + n > 0
      BY <3>3, <3>6
    <3> QED BY <3>1, <3>2, <3>3, <3>5, <3>7
  <2>5. /\ m.emf => \A name \in ToSet(m.metrics) \ {None} :
                      \E r \in ToSet(ReshapeRecords(m)) : r.form \in {name, "original"}
        /\ ~m.emf => \E r \in ToSet(ReshapeRecords(m)) : r.form \in {"otlp", "original"}
    BY <2>2, ReshapeIs
  <2> QED BY <2>4, <2>5
<1> QED BY <1>1, Inductive, PTL

\* _reingest sends again only the rows that came back with an ErrorCode and never a later
\* chunk twice: a row has at most one copy for each time its delivery was handed over.
THEOREM NoRowTwice == Spec => []NoRowTwicePerPass
<1>1. SplitInv => NoRowTwicePerPass
  <2> SUFFICES ASSUME SplitInv, NEW d \in Deliveries, NEW r \in Rows,
                      r.msg \in ToSet(envelope[d].events)
               PROVE  Copies(r) <= starts[d]
    BY DEF NoRowTwicePerPass
  <2>1. Total(r) + One(r, Due) <= starts[d] /\ starts[d] \in Nat
    BY DEF SplitInv, Once, Types
  <2>2. PICK k \in {0, 1} : k = One(r, Due)
    BY DEF One
  <2>3. /\ Copies(r) = Total(r) /\ One(r, ToSet(inv.batch)) \in {0, 1}
        /\ stream[r] \in Nat /\ raw[r] \in Nat /\ errors[r] \in Nat
    BY CopiesIs
  <2>4. PICK n \in {0, 1} : n = One(r, ToSet(inv.batch))
    BY <2>3
  <2>5. Total(r) = stream[r] + raw[r] + errors[r] + n
    BY <2>4 DEF Total
  <2>6. stream[r] + raw[r] + errors[r] + n + k <= starts[d]
    BY <2>1, <2>2, <2>5
  <2>7. stream[r] + raw[r] + errors[r] + n <= starts[d]
    BY <2>1, <2>3, <2>6
  <2> QED BY <2>3, <2>5, <2>7
<1> QED BY <1>1, Inductive, PTL

\* The stream partitions Ok records by their tool: what reaches raw/ is an event as it came,
\* under the tool it names itself, or a reshaped one under the tool of its service.
THEOREM RawIsAttributed == Spec => []RawRowsAttributed
<1>1. SplitInv => RawRowsAttributed
  <2> SUFFICES ASSUME SplitInv, NEW r \in Rows, raw[r] > 0
               PROVE  \/ r.msg.tool # None /\ r.form = "original" /\ r.tool = r.msg.tool
                      \/ /\ r.msg.tool = None /\ r.form # "original"
                         /\ r.msg.service \in DOMAIN ServiceToolMap
                         /\ r.tool = ServiceToolMap[r.msg.service]
    BY DEF RawRowsAttributed
  <2>1. r.tool # None
    BY DEF SplitInv, RawHasTool
  <2>2. PICK m \in Messages : r \in ToSet(ReshapeRecords(m))
    BY DEF Rows
  <2>3. r.msg = m
    BY <2>2, ReshapeIs
  <2>4. \/ m.tool # None /\ r.form = "original" /\ r.tool = m.tool
        \/ /\ m.tool = None /\ r.form # "original"
           /\ m.service \in DOMAIN ServiceToolMap /\ r.tool = ServiceToolMap[m.service]
    BY <2>1, <2>2, ReshapeIs
  <2> QED BY <2>3, <2>4
<1> QED BY <1>1, Inductive, PTL

=============================================================================
