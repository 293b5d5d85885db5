-------------------------- MODULE E2EHarnessProofs --------------------------
(***************************************************************************)
(* TLAPS proofs about the end-to-end gate, for every sequence of modes,    *)
(* every number, size and type of records, every budget of the waits and   *)
(* any number of midnights, copies and faults; and about ToolInstall,      *)
(* which every job of the gate runs first (setup-tools).                   *)
(***************************************************************************)
EXTENDS E2EHarness, ToolInstall, FiniteSetTheorems, WellFoundedInduction, TLAPS

\* The steps of the verifier, and of a run that has built its plan.
Verifying == {"cwl", "firehose", "s3", "s3:encryption", "glue", "athena", "queryable",
              "reconcile", "embed", "cleanup", "verdict"}
Active == {"post"} \cup Verifying

\* The kinds of requests the modes send.
Kinds == {"valid", "oversize", "bad-content-type", "malformed", "wrong-signal", "waf-trigger", "rate-burst"}

\* A planned request: a valid one carries records to a landing path and expects 200, a probe
\* carries none.
IsRequest(q) ==
  /\ q.kind \in Kinds
  /\ Len(q.specs) \in Nat /\ DOMAIN q.specs = 1..Len(q.specs)
  /\ \A p \in DOMAIN q.specs : q.specs[p].ev \in Events
  /\ q.kind = "valid" => q.path \in LandingPaths /\ q.expect = {200}
  /\ q.kind # "valid" => q.specs = <<>>

ArePlans(reqs) == Len(reqs) \in Nat /\ DOMAIN reqs = 1..Len(reqs) /\ \A i \in DOMAIN reqs : IsRequest(reqs[i])

\* What Firehose has buffered, and what S3 holds.
InStream == [rec : Records, dt : 0..day, copy : 1..MaxCopies]
Objects ==
  [tool : {"claude", "e2e-smoke"}, run : 0..Len(gate), req : Nat, pos : Nat, ev : Events \cup {"production"},
   dt : 0..day, copy : 1..MaxCopies, residue : BOOLEAN]

\* What the load generator and the verifier keep.
HarnessTypes ==
  /\ Len(gate) \in Nat /\ gate \in Seq(Modes)
  /\ run \in 1..Len(gate)
  /\ polls \in 0..PollBudget
  /\ ArePlans(plans)
  /\ answers \in Seq(Nat) /\ Len(answers) <= Len(plans)
  /\ DOMAIN manifest = {"run", "day", "counts", "total"}
  /\ query.state \in {"none", "running", "SUCCEEDED", "FAILED"}

\* What the stages of the pipeline hold, and the history of what went through them.
PipelineTypes ==
  /\ day \in 0..MaxDay
  /\ collector \subseteq Records /\ cwl \subseteq Records
  /\ accepted \subseteq Records /\ IsFiniteSet(accepted)
  /\ stream \subseteq InStream
  /\ lake \subseteq Objects
  /\ landed \subseteq [rec : Records, copy : 1..MaxCopies]

\* A run id is used by its own run only: no record has it before the run sends.
RunsInv ==
  /\ passed \subseteq 1..run
  /\ run \in passed => pc = "green"
  /\ \A rec \in collector \cup cwl \cup accepted :
       /\ rec.run \in passed \cup {0, run}
       /\ pc \in {"guard", "start"} => rec.run # run

\* The record that an object of the lake holds.
RecOf(o) == [run |-> o.run, req |-> o.req, pos |-> o.pos, ev |-> o.ev]

\* What a stage of the pipeline holds was handed on by the stage before.
FlowInv ==
  /\ \A s \in stream : s.rec \in cwl
  /\ \A l \in landed : l.rec \in cwl
  /\ \A o \in ToolObjects : [rec |-> RecOf(o), copy |-> o.copy] \in landed

\* A record with a run id is in one place, and its copies are told apart by their number.
OnceInv ==
  /\ \A rec \in collector : rec.run # 0 => rec \notin cwl
  /\ \A s, t \in stream : s.rec = t.rec /\ s.rec.run # 0 => s = t
  /\ \A s \in stream, l \in landed : l.rec = s.rec /\ s.rec.run # 0 => l.copy < s.copy
  /\ \A o, p \in ToolObjects : RecOf(o) = RecOf(p) /\ o.copy = p.copy /\ o.run # 0 => o = p

\* The records of the run are those of its requests, and the ones it counts as accepted
\* those of the requests answered 200.
SentInv == pc \in Active =>
  /\ \A rec \in collector \cup cwl \cup accepted : rec.run = run =>
       \E i \in DOMAIN answers : /\ plans[i].kind = "valid" /\ rec \in Carried(i)
                                 /\ rec \in accepted => answers[i] = 200
  /\ \A i \in DOMAIN answers : plans[i].kind = "valid" /\ answers[i] = 200 => Carried(i) \subseteq accepted

\* A run that goes on to verify had every request answered as planned, and its manifest
\* counts the records of the requests answered 200.
CountedInv == pc \in Verifying =>
  /\ Len(answers) = Len(plans) /\ \A i \in DOMAIN plans : RequestOk(i)
  /\ manifest.counts = CountsByEvent(Counted)

\* Firehose delivered a record of the run twice; nothing of the run was lost otherwise.
Doubled(r) == \E l \in landed : l.rec.run = r /\ l.copy > 1
Lossless(r) == Doubled(r) \/ \A rec \in accepted : rec.run = r => [rec |-> rec, copy |-> 1] \in landed

\* The accepted records of the run and the event type that reached the lake.
Arrived(e) == {rec \in accepted : rec.run = run /\ rec.ev = e /\ [rec |-> rec, copy |-> 1] \in landed}

\* The reconciliation reads no more rows from Athena than records arrived.
RowsInv == pc = "reconcile" /\ query.state = "SUCCEEDED" =>
  Doubled(run) \/ \A e \in DOMAIN query.rows : query.rows[e] \in Nat /\ query.rows[e] <= Cardinality(Arrived(e))

\* A verdict without a failed probe, and one that was given, rest on a run that lost nothing.
VerdictInv ==
  /\ pc \in {"embed", "cleanup", "verdict"} /\ fails = {} => Lossless(run)
  /\ \A r \in passed : Lossless(r)

\* What is behind the place the listing has reached and is still there was refused by S3, or
\* came behind the token.
CleanupInv ==
  /\ \A o \in listed : o.residue
  /\ ResidueIsLate

GateInv ==
  /\ HarnessTypes /\ PipelineTypes
  /\ RunsInv /\ FlowInv /\ OnceInv /\ SentInv /\ CountedInv /\ RowsInv /\ VerdictInv /\ CleanupInv

-----------------------------------------------------------------------------
(***************************************************************************)
(* The requests of a run.  What the packing computes is proved by the      *)
(* least-number principle: there is no first record at which it goes       *)
(* wrong.                                                                  *)
(***************************************************************************)

LEMMA LeastNat ==
  ASSUME NEW S \in SUBSET Nat, S # {}
  PROVE  \E m \in S : \A k \in S : m <= k
<1> DEFINE R == OpToRel(<, Nat)
<1>1. R = {ss \in Nat \X Nat : ss[1] < ss[2]}
  BY DEF OpToRel
<1>2. IsWellFoundedOn(R, Nat)
  BY NatLessThanWellFounded
<1> HIDE DEF R
<1>3. PICK x \in S : \A y \in S : <<y, x>> \notin R
  BY <1>2, WFMin
<1>4. \A y \in S : ~(y < x) /\ y \in Nat /\ x \in Nat
  BY <1>1, <1>3
<1>5. \A y \in S : x <= y
  BY <1>4
<1> QED BY <1>5

\* A set of numbers up to n with its first number and every successor holds all of them.
LEMMA Reaches ==
  ASSUME NEW a \in Nat, NEW n \in Nat, a <= n, NEW Good \in SUBSET (a..n), a \in Good,
         \A m \in a..n : m \in Good /\ m < n => m + 1 \in Good
  PROVE  Good = a..n
<1> DEFINE Bad == (a..n) \ Good
<1> SUFFICES ASSUME Bad # {} PROVE FALSE
  OBVIOUS
<1>1. Bad \in SUBSET Nat
  OBVIOUS
<1>2. PICK m \in Bad : \A k \in Bad : m <= k
  BY <1>1, LeastNat
<1>3. m \in a..n /\ m \notin Good /\ m # a
  BY <1>2
<1>4. m - 1 \in a..n /\ m - 1 < n /\ (m - 1) + 1 = m /\ ~(m <= m - 1)
  BY <1>3
<1>5. m - 1 \in Good
  BY <1>2, <1>4
<1> QED BY <1>3, <1>4, <1>5

Empty == [plans |-> <<>>, current |-> <<>>]

\* The states of the packing, one per record.
LEMMA PackedIs ==
  ASSUME NEW specs, Len(specs) \in Nat
  PROVE  \E g : /\ Packed(specs) = g[Len(specs)]
                /\ g[0] = Empty
                /\ \A i \in 1..Len(specs) : g[i] = AddSpec(g[i - 1], specs[i])
<1> DEFINE n == Len(specs)
           Step(g, i) == IF i = 0 THEN Empty ELSE AddSpec(g[i - 1], specs[i])
           Is(g, k) == g = [i \in 0..k |-> Step(g, i)]
           Good == {k \in 0..n : \E g : Is(g, k)}
<1>1. 0 \in Good
  <2> DEFINE g == [i \in 0..0 |-> Empty]
  <2>1. Is(g, 0)
    OBVIOUS
  <2> HIDE DEF g, Is
  <2> QED BY <2>1
<1>2. ASSUME NEW m \in 0..n, m \in Good, m < n PROVE m + 1 \in Good
  <2>1. PICK g : Is(g, m)
    BY <1>2
  <2> DEFINE h == [i \in 0..(m + 1) |-> IF i = m + 1 THEN AddSpec(g[m], specs[m + 1]) ELSE g[i]]
  <2>2. ASSUME NEW i \in 0..(m + 1) PROVE h[i] = Step(h, i)
    <3>1. CASE i = m + 1
      <4>1. i # 0 /\ i - 1 = m /\ h[m] = g[m] /\ h[i] = AddSpec(g[m], specs[m + 1])
        BY <3>1
      <4> HIDE DEF h
      <4> QED BY <4>1, <3>1
    <3>2. CASE i # m + 1
      <4>1. i \in 0..m /\ h[i] = g[i] /\ (i # 0 => i - 1 \in 0..m /\ h[i - 1] = g[i - 1])
        BY <3>2
      <4> HIDE DEF h
      <4>2. g[i] = Step(g, i)
        BY <2>1, <4>1
      <4> QED BY <4>1, <4>2
    <3> QED BY <3>1, <3>2
  <2>3. h = [i \in 0..(m + 1) |-> h[i]]
    OBVIOUS
  <2> HIDE DEF h, Step
  <2>4. Is(h, m + 1)
    BY <2>2, <2>3
  <2>5. m + 1 \in 0..n
    BY <1>2
  <2> QED BY <2>4, <2>5
<1>3. n \in Good
  <2> HIDE DEF Good
  <2>1. Good \in SUBSET (0..n) /\ 0 \in Nat /\ n \in Nat /\ 0 <= n
    BY DEF Good
  <2>2. Good = 0..n
    BY <1>1, <1>2, <2>1, Reaches
  <2> QED BY <2>1, <2>2
<1> DEFINE f == CHOOSE g : Is(g, n)
<1>4. Packed(specs) = f[n]
  BY DEF Packed, Empty
<1>5. Is(f, n)
  BY <1>3
<1> HIDE DEF f
<1>6. \A i \in 0..n : f[i] = Step(f, i)
  BY <1>5
<1>7. f[0] = Empty
  BY <1>6
<1>8. ASSUME NEW i \in 1..n PROVE f[i] = AddSpec(f[i - 1], specs[i])
  <2>1. i \in 0..n /\ i # 0
    OBVIOUS
  <2> QED BY <1>6, <2>1
<1> QED BY <1>4, <1>7, <1>8

LEMMA FlattenIs ==
  ASSUME NEW seqs, Len(seqs) \in Nat, Len(seqs) # 0
  PROVE  \E g :
           /\ FlattenSeq(seqs) = g[Len(seqs)]
           /\ g[1] = seqs[1]
           /\ \A i \in 2..Len(seqs) : g[i] = g[i - 1] \o seqs[i]
<1> DEFINE n == Len(seqs)
           Step(g, i) == IF i = 1 THEN seqs[i] ELSE g[i - 1] \o seqs[i]
           Is(g, k) == g = [i \in 1..k |-> Step(g, i)]
           Good == {k \in 1..n : \E g : Is(g, k)}
<1>1. 1 \in Good
  <2> DEFINE g == [i \in 1..1 |-> seqs[i]]
  <2>1. Is(g, 1)
    OBVIOUS
  <2> HIDE DEF g, Is
  <2> QED BY <2>1
<1>2. ASSUME NEW m \in 1..n, m \in Good, m < n PROVE m + 1 \in Good
  <2>1. PICK g : Is(g, m)
    BY <1>2
  <2> DEFINE last == g[m] \o seqs[m + 1]
             h == [i \in 1..(m + 1) |-> IF i = m + 1 THEN last ELSE g[i]]
  <2> HIDE DEF last
  <2>2. ASSUME NEW i \in 1..(m + 1) PROVE h[i] = Step(h, i)
    <3>1. CASE i = m + 1
      <4>1. i # 1 /\ i - 1 = m /\ h[m] = g[m] /\ h[i] = last
        BY <3>1
      <4> HIDE DEF h
      <4> QED BY <4>1, <3>1 DEF last
    <3>2. CASE i # m + 1
      <4>1. i \in 1..m /\ h[i] = g[i] /\ (i # 1 => i - 1 \in 1..m /\ h[i - 1] = g[i - 1])
        BY <3>2
      <4> HIDE DEF h
      <4>2. g[i] = Step(g, i)
        BY <2>1, <4>1
      <4> QED BY <4>1, <4>2
    <3> QED BY <3>1, <3>2
  <2>3. h = [i \in 1..(m + 1) |-> h[i]]
    OBVIOUS
  <2> HIDE DEF h, Step
  <2>4. Is(h, m + 1)
    BY <2>2, <2>3
  <2>5. m + 1 \in 1..n
    BY <1>2
  <2> QED BY <2>4, <2>5
<1>3. n \in Good
  <2> HIDE DEF Good
  <2>1. 1 \in Nat /\ n \in Nat /\ 1 <= n
    OBVIOUS
  <2> HIDE DEF Is
  <2>2. Good \in SUBSET (1..n)
    BY DEF Good
  <2>3. Good = 1..n
    BY <1>1, <1>2, <2>1, <2>2, Reaches
  <2> QED BY <2>1, <2>3
<1> DEFINE f == CHOOSE g : Is(g, n)
<1>4. FlattenSeq(seqs) = f[n]
  BY DEF FlattenSeq
<1>5. Is(f, n)
  BY <1>3
<1> HIDE DEF f
<1>6. \A i \in 1..n : f[i] = Step(f, i)
  BY <1>5
<1>7. f[1] = seqs[1]
  BY <1>6
<1>8. ASSUME NEW i \in 2..n PROVE f[i] = f[i - 1] \o seqs[i]
  <2>1. i \in 1..n /\ i # 1
    OBVIOUS
  <2> QED BY <1>6, <2>1
<1> QED BY <1>4, <1>7, <1>8

\* One more sequence at the end is one more piece of the concatenation.
LEMMA FlattenAppend ==
  ASSUME NEW T, NEW seqs \in Seq(Seq(T)), NEW s \in Seq(T), FlattenSeq(seqs) \in Seq(T)
  PROVE  FlattenSeq(Append(seqs, s)) = FlattenSeq(seqs) \o s
<1> DEFINE more == Append(seqs, s)
           n == Len(seqs)
<1>1. /\ n \in Nat /\ Len(more) = n + 1 /\ more[n + 1] = s
      /\ \A i \in 1..n : more[i] = seqs[i]
  OBVIOUS
<1> HIDE DEF more
<1>2. PICK h : /\ FlattenSeq(more) = h[n + 1] /\ h[1] = more[1]
               /\ \A i \in 2..(n + 1) : h[i] = h[i - 1] \o more[i]
  <2>1. Len(more) \in Nat /\ Len(more) # 0
    BY <1>1
  <2>2. PICK h : /\ FlattenSeq(more) = h[Len(more)] /\ h[1] = more[1]
                 /\ \A i \in 2..Len(more) : h[i] = h[i - 1] \o more[i]
    BY <2>1, FlattenIs
  <2> QED BY <1>1, <2>2
<1>3. CASE n = 0
  <2>1. FlattenSeq(seqs) = <<>>
    BY <1>3 DEF FlattenSeq
  <2>2. FlattenSeq(more) = s
    BY <1>1, <1>2, <1>3
  <2>3. <<>> \o s = s
    OBVIOUS
  <2> QED BY <2>1, <2>2, <2>3 DEF more
<1>4. CASE n # 0
  <2>1. PICK g : /\ FlattenSeq(seqs) = g[n] /\ g[1] = seqs[1]
                 /\ \A i \in 2..n : g[i] = g[i - 1] \o seqs[i]
    BY <1>1, <1>4, FlattenIs
  <2> DEFINE Same == {i \in 1..n : g[i] = h[i]}
  <2>2. 1 \in Same
    BY <1>1, <1>2, <1>4, <2>1
  <2>3. ASSUME NEW m \in 1..n, m \in Same, m < n PROVE m + 1 \in Same
    <3>1. m + 1 \in 2..n /\ m + 1 \in 2..(n + 1) /\ (m + 1) - 1 = m /\ m + 1 \in 1..n
      BY <1>1, <2>3
    <3>2. g[m + 1] = g[m] \o seqs[m + 1]
      BY <2>1, <3>1
    <3>3. h[m + 1] = h[m] \o more[m + 1]
      BY <1>2, <3>1
    <3>4. g[m] = h[m] /\ more[m + 1] = seqs[m + 1]
      BY <1>1, <2>3, <3>1
    <3> QED BY <3>1, <3>2, <3>3, <3>4
  <2>4. Same \in SUBSET (1..n) /\ 1 \in Nat /\ 1 <= n
    BY <1>1, <1>4
  <2> HIDE DEF Same
  <2>5. Same = 1..n
    BY <1>1, <2>2, <2>3, <2>4, Reaches
  <2>6. g[n] = h[n]
    BY <1>1, <1>4, <2>5 DEF Same
  <2>7. h[n + 1] = h[n] \o more[n + 1]
    <3>1. n + 1 \in 2..(n + 1) /\ (n + 1) - 1 = n
      BY <1>1, <1>4
    <3> QED BY <1>2, <3>1
  <2> QED BY <1>1, <1>2, <2>1, <2>6, <2>7 DEF more
<1> QED BY <1>3, <1>4

SpecsOf(reqs) == [i \in DOMAIN reqs |-> reqs[i].specs]

Fits(specs) == Len(specs) > 1 => ~(BodyBytes(specs) > MaxBody)

Batches(S) == {Batch(c) : c \in Seq(S)}

Packs(S) == [plans : Seq(Batches(S)), current : Seq(S)]

\* The requests packed from the first n records: complete, in order, not empty, within the cap.
PackedWell(pack, specs, n) ==
  /\ FlattenSeq(SpecsOf(pack.plans)) \o pack.current = SubSeq(specs, 1, n)
  /\ n > 0 => pack.current # <<>>
  /\ Fits(pack.current)
  /\ \A i \in DOMAIN pack.plans : pack.plans[i].specs # <<>> /\ Fits(pack.plans[i].specs)

LEMMA SameSeq ==
  ASSUME NEW T, NEW s \in Seq(T), NEW t \in Seq(T), Len(s) = Len(t), \A i \in 1..Len(s) : s[i] = t[i]
  PROVE  s = t
OBVIOUS

LEMMA AppendIs ==
  ASSUME NEW T, NEW s \in Seq(T), NEW x \in T
  PROVE  /\ Append(s, x) \in Seq(T) /\ Len(s) \in Nat /\ Len(Append(s, x)) = Len(s) + 1
         /\ Append(s, x)[Len(s) + 1] = x /\ Append(s, x) # <<>>
         /\ \A i \in 1..Len(s) : Append(s, x)[i] = s[i] /\ s[i] \in T
         /\ s = <<>> => Len(s) = 0
<1>1. Append(s, x) \in Seq(T) /\ Len(s) \in Nat /\ Len(Append(s, x)) = Len(s) + 1
  OBVIOUS
<1>2. Len(Append(s, x)) # 0
  BY <1>1
<1> QED BY <1>1, <1>2

LEMMA ConcatAppend ==
  ASSUME NEW T, NEW s \in Seq(T), NEW t \in Seq(T), NEW x \in T
  PROVE  s \o Append(t, x) = Append(s \o t, x)
<1> DEFINE u == Append(t, x)
           v == s \o t
           l == s \o u
           r == Append(v, x)
<1>1. /\ u \in Seq(T) /\ Len(u) = Len(t) + 1 /\ u[Len(t) + 1] = x /\ Len(t) \in Nat /\ Len(s) \in Nat
      /\ \A i \in 1..Len(t) : u[i] = t[i]
  BY AppendIs
<1>2. /\ v \in Seq(T) /\ Len(v) = Len(s) + Len(t)
      /\ \A i \in 1..Len(v) : v[i] = IF i <= Len(s) THEN s[i] ELSE t[i - Len(s)]
  OBVIOUS
<1> HIDE DEF u, v
<1>3. /\ l \in Seq(T) /\ Len(l) = Len(s) + Len(u)
      /\ \A i \in 1..Len(l) : l[i] = IF i <= Len(s) THEN s[i] ELSE u[i - Len(s)]
  BY <1>1
<1>4. /\ r \in Seq(T) /\ Len(r) = Len(v) + 1 /\ r[Len(v) + 1] = x
      /\ \A i \in 1..Len(v) : r[i] = v[i]
  <2>1. v \in Seq(T)
    BY <1>2
  <2> QED BY <2>1, AppendIs
<1> HIDE DEF l, r
<1>5. ASSUME NEW i \in 1..Len(l) PROVE l[i] = r[i]
  <2>1. CASE i = Len(v) + 1
    <3>1. ~(i <= Len(s)) /\ i - Len(s) = Len(t) + 1
      BY <1>1, <1>2, <2>1
    <3> QED BY <1>1, <1>3, <1>4, <2>1, <3>1
  <2>2. CASE i # Len(v) + 1
    <3>1. i \in 1..Len(v) /\ (~(i <= Len(s)) => i - Len(s) \in 1..Len(t))
      BY <1>1, <1>2, <1>3, <2>2
    <3> QED BY <1>1, <1>2, <1>3, <1>4, <3>1
  <2> QED BY <2>1, <2>2
<1>6. Len(l) = Len(r)
  BY <1>1, <1>2, <1>3, <1>4
<1>7. l = r
  BY <1>3, <1>4, <1>5, <1>6, SameSeq
<1> QED BY <1>7 DEF l, r, u, v

LEMMA BatchIs ==
  ASSUME NEW c
  PROVE  Batch(c).kind = "valid" /\ Batch(c).path = "logs" /\ Batch(c).specs = c /\ Batch(c).expect = {200}
BY DEF Batch, Request

LEMMA SpecsOfIs ==
  ASSUME NEW S, NEW reqs \in Seq(Batches(S)), NEW c \in Seq(S)
  PROVE  /\ SpecsOf(reqs) \in Seq(Seq(S))
         /\ Append(reqs, Batch(c)) \in Seq(Batches(S))
         /\ SpecsOf(Append(reqs, Batch(c))) = Append(SpecsOf(reqs), c)
<1>1. Batch(c) \in Batches(S) /\ Batch(c).specs = c
  BY BatchIs DEF Batches
<1>2. \A b \in Batches(S) : b.specs \in Seq(S)
  BY BatchIs DEF Batches
<1> DEFINE B == Batches(S)
           b == Batch(c)
           more == Append(reqs, b)
<1> HIDE DEF B, b
<1>3. reqs \in Seq(B) /\ b \in B
  BY <1>1 DEF B, b
<1>4. /\ Len(reqs) \in Nat /\ DOMAIN reqs = 1..Len(reqs) /\ more \in Seq(B)
      /\ DOMAIN more = 1..(Len(reqs) + 1) /\ more[Len(reqs) + 1] = b
      /\ \A i \in 1..Len(reqs) : more[i] = reqs[i] /\ reqs[i] \in B
  BY <1>3
<1> HIDE DEF more
<1>5. SpecsOf(reqs) \in Seq(Seq(S)) /\ Len(SpecsOf(reqs)) = Len(reqs)
  BY <1>2, <1>4 DEF SpecsOf, B
<1>6. SpecsOf(more) \in Seq(Seq(S)) /\ Len(SpecsOf(more)) = Len(reqs) + 1
  BY <1>2, <1>4 DEF SpecsOf, B
<1> DEFINE A == SpecsOf(reqs)
           M == SpecsOf(more)
<1>7. M[Len(reqs) + 1] = c /\ \A i \in 1..Len(reqs) : M[i] = A[i]
  BY <1>1, <1>4 DEF SpecsOf, b
<1> HIDE DEF A, M
<1>8. /\ Append(A, c) \in Seq(Seq(S)) /\ Len(Append(A, c)) = Len(reqs) + 1
      /\ Append(A, c)[Len(reqs) + 1] = c /\ \A i \in 1..Len(reqs) : Append(A, c)[i] = A[i]
  BY <1>5, AppendIs DEF A
<1>9. M = Append(A, c)
  <2>1. \A i \in 1..(Len(reqs) + 1) : i = Len(reqs) + 1 \/ i \in 1..Len(reqs)
    BY <1>4
  <2>2. \A i \in 1..(Len(reqs) + 1) : M[i] = Append(A, c)[i]
    BY <1>7, <1>8, <2>1
  <2>3. M \in Seq(Seq(S)) /\ Len(M) = Len(Append(A, c)) /\ \A i \in 1..Len(M) : M[i] = Append(A, c)[i]
    BY <1>6, <1>8, <2>2 DEF M
  <2> QED BY <1>8, <2>3, SameSeq
<1> QED BY <1>4, <1>5, <1>9 DEF more, B, b, A, M

LEMMA AddSpecIs ==
  ASSUME NEW S, NEW acc \in Packs(S), NEW spec \in S
  PROVE  /\ AddSpec(acc, spec) \in Packs(S)
         /\ \/ /\ AddSpec(acc, spec).plans = Append(acc.plans, Batch(acc.current))
               /\ AddSpec(acc, spec).current = <<spec>>
               /\ acc.current # <<>>
            \/ /\ AddSpec(acc, spec).plans = acc.plans
               /\ AddSpec(acc, spec).current = Append(acc.current, spec)
               /\ acc.current = <<>> \/ ~(BodyBytes(Append(acc.current, spec)) > MaxBody)
<1> DEFINE longer == Append(acc.current, spec)
           more == Append(acc.plans, Batch(acc.current))
           full == BodyBytes(longer) > MaxBody /\ acc.current # <<>>
<1>1. acc.plans \in Seq(Batches(S)) /\ acc.current \in Seq(S)
  BY DEF Packs
<1>2. longer \in Seq(S) /\ <<spec>> \in Seq(S)
  BY <1>1
<1>3. more \in Seq(Batches(S))
  BY <1>1, SpecsOfIs
<1>4. CASE full
  <2>1. AddSpec(acc, spec) = [plans |-> more, current |-> <<spec>>]
    BY <1>4 DEF AddSpec
  <2> HIDE DEF more
  <2>2. AddSpec(acc, spec) \in Packs(S) /\ AddSpec(acc, spec).plans = more /\ AddSpec(acc, spec).current = <<spec>>
    BY <1>2, <1>3, <2>1 DEF Packs
  <2> QED BY <1>4, <2>2 DEF more
<1>5. CASE ~full
  <2>1. AddSpec(acc, spec) = [acc EXCEPT !.current = longer]
    BY <1>5 DEF AddSpec
  <2> HIDE DEF longer
  <2>2. /\ AddSpec(acc, spec) \in Packs(S) /\ AddSpec(acc, spec).plans = acc.plans
        /\ AddSpec(acc, spec).current = longer
    BY <1>1, <1>2, <2>1 DEF Packs
  <2> QED BY <1>5, <2>2 DEF longer
<1> QED BY <1>4, <1>5

\* A record more.
LEMMA AddSpecKeeps ==
  ASSUME NEW S, NEW acc \in Packs(S), NEW specs \in Seq(S), NEW n \in 0..(Len(specs) - 1),
         PackedWell(acc, specs, n), FlattenSeq(SpecsOf(acc.plans)) \in Seq(S)
  PROVE  /\ PackedWell(AddSpec(acc, specs[n + 1]), specs, n + 1)
         /\ FlattenSeq(SpecsOf(AddSpec(acc, specs[n + 1]).plans)) \in Seq(S)
<1> DEFINE spec == specs[n + 1]
           new == AddSpec(acc, spec)
           X == FlattenSeq(SpecsOf(acc.plans))
           C == acc.current
<1>1. n \in Nat /\ n + 1 \in 1..Len(specs) /\ spec \in S
  OBVIOUS
<1>2. SubSeq(specs, 1, n + 1) = Append(SubSeq(specs, 1, n), spec) /\ SubSeq(specs, 1, n) \in Seq(S)
  BY <1>1
<1> HIDE DEF spec, new, X, C
<1>3. X \in Seq(S) /\ C \in Seq(S) /\ X \o C = SubSeq(specs, 1, n) /\ acc.plans \in Seq(Batches(S))
  BY DEF X, C, Packs, PackedWell
<1>4. CASE new.plans = Append(acc.plans, Batch(C)) /\ new.current = <<spec>> /\ C # <<>>
  <2>1. SpecsOf(new.plans) = Append(SpecsOf(acc.plans), C) /\ SpecsOf(acc.plans) \in Seq(Seq(S))
    BY <1>3, <1>4, SpecsOfIs
  <2>2. FlattenSeq(SpecsOf(new.plans)) = X \o C
    BY <1>3, <2>1, FlattenAppend DEF X
  <2>3. FlattenSeq(SpecsOf(new.plans)) \o new.current = SubSeq(specs, 1, n + 1)
    <3>1. (X \o C) \o <<spec>> = Append(X \o C, spec)
      BY <1>1, <1>3
    <3> QED BY <1>2, <1>3, <1>4, <2>2, <3>1
  <2>4. Fits(<<spec>>) /\ <<spec>> # <<>>
    BY DEF Fits
  <2>5. ASSUME NEW i \in DOMAIN new.plans PROVE new.plans[i].specs # <<>> /\ Fits(new.plans[i].specs)
    <3> DEFINE b == Batch(C)
    <3>1. b.specs = C
      BY BatchIs
    <3> HIDE DEF b
    <3>2. \/ i \in DOMAIN acc.plans /\ new.plans[i] = acc.plans[i]
          \/ new.plans[i] = b
      BY <1>3, <1>4 DEF b
    <3>3. Fits(C) /\ \A j \in DOMAIN acc.plans : acc.plans[j].specs # <<>> /\ Fits(acc.plans[j].specs)
      BY DEF PackedWell, C
    <3> QED BY <1>4, <3>1, <3>2, <3>3
  <2>6. X \o C \in Seq(S)
    BY <1>3
  <2> QED BY <1>4, <2>2, <2>3, <2>4, <2>5, <2>6 DEF PackedWell, new, spec
<1>5. CASE /\ new.plans = acc.plans /\ new.current = Append(C, spec)
           /\ C = <<>> \/ ~(BodyBytes(Append(C, spec)) > MaxBody)
  <2>1. X \o Append(C, spec) = Append(X \o C, spec)
    <3>1. X \in Seq(S) /\ C \in Seq(S) /\ spec \in S
      BY <1>1, <1>3
    <3> QED BY <3>1, ConcatAppend
  <2>2. FlattenSeq(SpecsOf(new.plans)) \o new.current = SubSeq(specs, 1, n + 1)
    BY <1>2, <1>3, <1>5, <2>1 DEF X
  <2>3. Append(C, spec) # <<>> /\ (C = <<>> => Len(Append(C, spec)) = 1)
    BY <1>1, <1>3, AppendIs
  <2>4. Fits(Append(C, spec))
    BY <1>5, <2>3 DEF Fits
  <2>5. \A i \in DOMAIN acc.plans : acc.plans[i].specs # <<>> /\ Fits(acc.plans[i].specs)
    BY DEF PackedWell
  <2> QED BY <1>3, <1>5, <2>2, <2>3, <2>4, <2>5 DEF PackedWell, new, spec, X
<1> QED BY <1>1, <1>4, <1>5, AddSpecIs DEF new, C

LEMMA PackedIsGood ==
  ASSUME NEW S, NEW specs \in Seq(S)
  PROVE  /\ Packed(specs) \in Packs(S)
         /\ PackedWell(Packed(specs), specs, Len(specs))
         /\ FlattenSeq(SpecsOf(Packed(specs).plans)) \in Seq(S)
<1>1. Len(specs) \in Nat /\ 0 <= Len(specs) /\ 0 \in Nat
  OBVIOUS
<1>2. PICK g : /\ Packed(specs) = g[Len(specs)]
               /\ g[0] = Empty
               /\ \A i \in 1..Len(specs) : g[i] = AddSpec(g[i - 1], specs[i])
  BY <1>1, PackedIs
<1> DEFINE IsGood(i) == /\ g[i] \in Packs(S) /\ PackedWell(g[i], specs, i)
                        /\ FlattenSeq(SpecsOf(g[i].plans)) \in Seq(S)
           Good == {i \in 0..Len(specs) : IsGood(i)}
<1>3. 0 \in Good
  <2>1. Empty \in Packs(S) /\ Empty.plans = <<>> /\ Empty.current = <<>>
    BY DEF Empty, Packs
  <2>2. SpecsOf(<<>>) = <<>>
    BY DEF SpecsOf
  <2>3. FlattenSeq(<<>>) = <<>>
    BY DEF FlattenSeq
  <2>4. <<>> \o <<>> = SubSeq(specs, 1, 0) /\ <<>> \in Seq(S)
    OBVIOUS
  <2>5. Fits(<<>>) /\ DOMAIN <<>> = {}
    <3> DEFINE none == <<>>
    <3>1. ~(Len(none) > 1) /\ DOMAIN none = {}
      OBVIOUS
    <3> HIDE DEF none
    <3>2. Fits(none) /\ DOMAIN none = {}
      BY <3>1 DEF Fits
    <3> QED BY <3>2 DEF none
  <2> HIDE DEF Empty
  <2>6. PackedWell(Empty, specs, 0)
    <3>1. FlattenSeq(SpecsOf(Empty.plans)) = <<>>
      BY <2>1, <2>2, <2>3
    <3>2. FlattenSeq(SpecsOf(Empty.plans)) \o Empty.current = SubSeq(specs, 1, 0)
      BY <2>1, <2>4, <3>1
    <3>3. Fits(Empty.current) /\ DOMAIN Empty.plans = {}
      BY <2>1, <2>5
    <3> QED BY <3>2, <3>3 DEF PackedWell
  <2>7. IsGood(0)
    BY <1>2, <2>1, <2>2, <2>3, <2>4, <2>6
  <2> QED BY <1>1, <2>7
<1>4. ASSUME NEW m \in 0..Len(specs), m \in Good, m < Len(specs) PROVE m + 1 \in Good
  <2>1. m \in 0..(Len(specs) - 1) /\ m + 1 \in 1..Len(specs) /\ (m + 1) - 1 = m /\ m + 1 \in 0..Len(specs)
    BY <1>1, <1>4
  <2>2. IsGood(m)
    BY <1>4
  <2>3. specs[m + 1] \in S /\ g[m + 1] = AddSpec(g[m], specs[m + 1])
    BY <1>2, <2>1
  <2>4. AddSpec(g[m], specs[m + 1]) \in Packs(S)
    BY <2>2, <2>3, AddSpecIs
  <2>5. /\ PackedWell(AddSpec(g[m], specs[m + 1]), specs, m + 1)
        /\ FlattenSeq(SpecsOf(AddSpec(g[m], specs[m + 1]).plans)) \in Seq(S)
    BY <2>1, <2>2, AddSpecKeeps
  <2>6. IsGood(m + 1)
    BY <2>3, <2>4, <2>5
  <2> QED BY <2>1, <2>6
<1> HIDE DEF IsGood
<1>5. Good \in SUBSET (0..Len(specs))
  OBVIOUS
<1> HIDE DEF Good
<1>6. Good = 0..Len(specs)
  BY <1>1, <1>3, <1>4, <1>5, Reaches
<1>7. IsGood(Len(specs))
  BY <1>1, <1>6 DEF Good
<1> QED BY <1>2, <1>7 DEF IsGood

\* chunk_into_requests splits the records of a data mode into requests that carry every
\* record, in order and once; none is empty, and one of several records is within the cap of
\* the receiver (a single record may exceed it: it has a request of its own).
THEOREM ChunkingIsComplete ==
  ASSUME NEW S, NEW specs \in Seq(S)
  PROVE  /\ FlattenSeq([i \in DOMAIN chunk_into_requests(specs) |-> chunk_into_requests(specs)[i].specs]) = specs
         /\ \A i \in DOMAIN chunk_into_requests(specs) :
              /\ chunk_into_requests(specs)[i].specs # <<>>
              /\ Len(chunk_into_requests(specs)[i].specs) > 1
                   => ~(BodyBytes(chunk_into_requests(specs)[i].specs) > MaxBody)
<1> DEFINE pack == Packed(specs)
           reqs == chunk_into_requests(specs)
           X == FlattenSeq(SpecsOf(pack.plans))
<1>1. /\ pack \in Packs(S) /\ PackedWell(pack, specs, Len(specs)) /\ X \in Seq(S)
  BY PackedIsGood
<1>2. reqs = IF pack.current = <<>> THEN pack.plans ELSE Append(pack.plans, Batch(pack.current))
  BY DEF chunk_into_requests
<1>3. SubSeq(specs, 1, Len(specs)) = specs
  OBVIOUS
<1> HIDE DEF pack, reqs
<1>4. pack.plans \in Seq(Batches(S)) /\ pack.current \in Seq(S) /\ X \o pack.current = specs
  BY <1>1, <1>3 DEF Packs, PackedWell
<1>5. \A i \in DOMAIN pack.plans : pack.plans[i].specs # <<>> /\ Fits(pack.plans[i].specs)
  BY <1>1 DEF PackedWell
<1>6. FlattenSeq(SpecsOf(reqs)) = specs /\ \A i \in DOMAIN reqs : reqs[i].specs # <<>> /\ Fits(reqs[i].specs)
  <2>1. CASE pack.current = <<>>
    <3>1. X = specs
      <4>1. X \o <<>> = X
        BY <1>1
      <4> QED BY <1>4, <2>1, <4>1
    <3> QED BY <1>2, <1>5, <2>1, <3>1
  <2>2. CASE pack.current # <<>>
    <3> DEFINE C == pack.current
               b == Batch(C)
    <3>1. SpecsOf(reqs) = Append(SpecsOf(pack.plans), C) /\ SpecsOf(pack.plans) \in Seq(Seq(S))
      BY <1>2, <1>4, <2>2, SpecsOfIs
    <3>2. FlattenSeq(SpecsOf(reqs)) = X \o C
      BY <1>1, <1>4, <3>1, FlattenAppend
    <3>3. b.specs = C /\ Fits(C) /\ reqs = Append(pack.plans, b)
      BY <1>1, <1>2, <2>2, BatchIs DEF PackedWell
    <3> HIDE DEF C, b
    <3>4. ASSUME NEW i \in DOMAIN reqs PROVE reqs[i].specs # <<>> /\ Fits(reqs[i].specs)
      <4>1. \/ i \in DOMAIN pack.plans /\ reqs[i] = pack.plans[i]
            \/ reqs[i] = b
        BY <1>4, <3>3
      <4> QED BY <1>5, <2>2, <3>3, <4>1 DEF C
    <3> QED BY <1>4, <3>2, <3>4 DEF C
  <2> QED BY <2>1, <2>2
<1> QED BY <1>6 DEF SpecsOf, Fits, reqs

LEMMA RequestIs ==
  ASSUME NEW kind, NEW path, NEW specs, NEW expect
  PROVE  /\ Request(kind, path, specs, expect).kind = kind /\ Request(kind, path, specs, expect).path = path
         /\ Request(kind, path, specs, expect).specs = specs /\ Request(kind, path, specs, expect).expect = expect
BY DEF Request

LEMMA RefusalIsRequest ==
  ASSUME NEW kind \in Kinds, kind # "valid", NEW path, NEW expect
  PROVE  IsRequest(Request(kind, path, <<>>, expect))
<1> DEFINE none == <<>>
           q == Request(kind, path, none, expect)
<1>1. q.kind = kind /\ q.specs = none
  BY RequestIs
<1>2. Len(none) \in Nat /\ DOMAIN none = 1..Len(none) /\ DOMAIN none = {}
  OBVIOUS
<1> HIDE DEF q, none
<1>3. IsRequest(q)
  BY <1>1, <1>2 DEF IsRequest, none
<1> QED BY <1>3 DEF q, none

LEMMA SingleIsPlans ==
  ASSUME NEW q, IsRequest(q)
  PROVE  ArePlans(<<q>>)
<1>1. Len(<<q>>) = 1 /\ DOMAIN <<q>> = 1..1 /\ <<q>>[1] = q
  OBVIOUS
<1> DEFINE reqs == <<q>>
<1> HIDE DEF reqs
<1>2. Len(reqs) = 1 /\ DOMAIN reqs = 1..1 /\ reqs[1] = q
  BY <1>1 DEF reqs
<1>3. ArePlans(reqs)
  BY <1>2 DEF ArePlans
<1> QED BY <1>3 DEF reqs

LEMMA ValidIsRequest ==
  ASSUME NEW S, \A x \in S : x.ev \in Events, NEW specs \in Seq(S), NEW path \in LandingPaths
  PROVE  IsRequest(Request("valid", path, specs, {200}))
<1> DEFINE q == Request("valid", path, specs, {200})
<1>1. q.kind = "valid" /\ q.path = path /\ q.specs = specs /\ q.expect = {200}
  BY RequestIs
<1>2. Len(specs) \in Nat /\ DOMAIN specs = 1..Len(specs) /\ \A p \in DOMAIN specs : specs[p] \in S
  OBVIOUS
<1> HIDE DEF q
<1>3. IsRequest(q)
  BY <1>1, <1>2 DEF IsRequest, Kinds
<1> QED BY <1>3 DEF q

LEMMA ChunksArePlans ==
  ASSUME NEW S, \A x \in S : x.ev \in Events, NEW specs \in Seq(S)
  PROVE  ArePlans(chunk_into_requests(specs))
<1> DEFINE pack == Packed(specs)
           reqs == chunk_into_requests(specs)
           B == Batches(S)
<1>1. pack.plans \in Seq(B) /\ pack.current \in Seq(S)
  BY PackedIsGood DEF Packs
<1>2. Append(pack.plans, Batch(pack.current)) \in Seq(B)
  BY <1>1, SpecsOfIs
<1>3. reqs \in Seq(B)
  BY <1>1, <1>2 DEF chunk_into_requests
<1>4. \A b \in B : IsRequest(b)
  <2> SUFFICES ASSUME NEW c \in Seq(S) PROVE IsRequest(Batch(c))
    BY DEF Batches
  <2>1. "logs" \in LandingPaths
    BY DEF LandingPaths
  <2> QED BY <2>1, ValidIsRequest DEF Batch
<1> HIDE DEF B, reqs
<1>5. Len(reqs) \in Nat /\ DOMAIN reqs = 1..Len(reqs) /\ \A i \in DOMAIN reqs : reqs[i] \in B
  BY <1>3
<1>6. ArePlans(reqs)
  BY <1>4, <1>5 DEF ArePlans
<1> QED BY <1>6 DEF reqs

LEMMA EventsAreNamed ==
  ASSUME NEW mode
  PROVE  \E S : plan_events(mode) \in Seq(S) /\ \A x \in S : x.ev \in Events
<1> DEFINE size(i) == SizeOf[IF mode = "variety" THEN Cycle(Varieties, i) ELSE "small"]
           spec(i) == [ev |-> Cycle(EventTypes, i), size |-> size(i)]
           S == {spec(i) : i \in 1..Count}
<1>1. Count \in Nat
  BY BoundsAssumption
<1>2. plan_events(mode) = [i \in 1..Count |-> spec(i)]
  BY DEF plan_events
<1> HIDE DEF size
<1>3. ASSUME NEW i \in 1..Count PROVE Cycle(EventTypes, i) \in Events
  <2>1. Len(EventTypes) \in Nat /\ Len(EventTypes) # 0 /\ \A j \in 1..Len(EventTypes) : EventTypes[j] \in Events
    BY EventsAssumption DEF Events, ToSet
  <2> DEFINE n == Len(EventTypes)
  <2> HIDE DEF n
  <2>2. n \in Nat /\ n # 0 /\ i - 1 \in Nat
    BY <1>1, <2>1 DEF n
  <2>3. ((i - 1) % n) + 1 \in 1..n
    BY <2>2
  <2> QED BY <2>1, <2>3 DEF Cycle, n
<1>4. \A x \in S : x.ev \in Events
  BY <1>3
<1> HIDE DEF spec
<1>5. plan_events(mode) \in Seq(S)
  BY <1>1, <1>2
<1> QED BY <1>4, <1>5

LEMMA StructuredAreNamed ==
  \E S : StructuredSpecs \in Seq(S) /\ \A x \in S : x.ev \in Events
<1> DEFINE spec(i) == [ev |-> Structured[i], size |-> SizeOf["small"]]
           S == {spec(i) : i \in 1..Len(Structured)}
<1>1. Len(Structured) \in Nat /\ \A i \in 1..Len(Structured) : Structured[i] \in Events
  BY EventsAssumption DEF Events, ToSet
<1>2. \A x \in S : x.ev \in Events
  BY <1>1
<1>3. StructuredSpecs = [i \in 1..Len(Structured) |-> spec(i)]
  BY DEF StructuredSpecs
<1> HIDE DEF spec
<1>4. StructuredSpecs \in Seq(S)
  BY <1>1, <1>3
<1> QED BY <1>2, <1>4

\* Every mode builds requests.
LEMMA BuiltArePlans ==
  ASSUME NEW mode \in Modes
  PROVE  ArePlans(build_plans(mode))
<1>1. CASE mode \in DataModes
  <2>1. build_plans(mode) = chunk_into_requests(plan_events(mode))
    BY <1>1 DEF build_plans, DataModes
  <2> QED BY <2>1, EventsAreNamed, ChunksArePlans
<1>2. CASE mode \in {"structured-events", "structured-metrics"}
  <2>1. PICK path \in LandingPaths : build_plans(mode) = <<Request("valid", path, StructuredSpecs, {200})>>
    BY <1>2 DEF build_plans, DataModes, build_structured_events_request, build_structured_metrics_request,
                LandingPaths
  <2> QED BY <2>1, StructuredAreNamed, ValidIsRequest, SingleIsPlans
<1>3. CASE mode \in {"oversize", "bad-content-type", "malformed", "wrong-signal", "waf-trigger"}
  <2>1. mode \in Kinds /\ mode # "valid"
    BY <1>3 DEF Kinds
  <2>2. \E path, expect : build_plans(mode) = <<Request(mode, path, <<>>, expect)>>
    BY <1>3 DEF build_plans, DataModes, build_oversize_request, build_bad_content_type_request,
                build_malformed_request, build_wrong_signal_requests, build_waf_trigger_request
  <2> QED BY <2>1, <2>2, RefusalIsRequest, SingleIsPlans
<1>4. CASE mode = "rate-burst"
  <2> DEFINE q == Request("rate-burst", "logs", <<>>, {200, 403, 429})
             reqs == [i \in 1..Burst |-> q]
  <2>1. build_plans(mode) = reqs
    BY <1>4 DEF build_plans, DataModes, build_rate_burst_requests
  <2>2. IsRequest(q) /\ Burst \in Nat
    <3>1. "rate-burst" \in Kinds
      BY DEF Kinds
    <3> QED BY <3>1, RefusalIsRequest, BoundsAssumption
  <2> HIDE DEF q
  <2>3. Len(reqs) = Burst /\ DOMAIN reqs = 1..Burst /\ \A i \in DOMAIN reqs : reqs[i] = q
    BY <2>2
  <2> HIDE DEF reqs
  <2>4. ArePlans(reqs)
    BY <2>2, <2>3 DEF ArePlans
  <2> QED BY <2>1, <2>4
<1>5. CASE mode = "grpc-probe"
  <2> DEFINE none == <<>>
  <2>1. build_plans(mode) = none
    BY <1>5 DEF build_plans, DataModes
  <2>2. Len(none) = 0 /\ DOMAIN none = {} /\ DOMAIN none = 1..0
    OBVIOUS
  <2> HIDE DEF none
  <2> QED BY <2>1, <2>2 DEF ArePlans
<1> QED BY <1>1, <1>2, <1>3, <1>4, <1>5 DEF Modes, DataModes

-----------------------------------------------------------------------------
(***************************************************************************)
(* What a step leaves alone.                                               *)
(***************************************************************************)

QueryStates == {"none", "running", "SUCCEEDED", "FAILED"}

LEMMA SameTypes ==
  ASSUME gate' = gate, day' = day
  PROVE  Records' = Records /\ InStream' = InStream /\ Objects' = Objects
BY DEF Records, InStream, Objects

LEMMA SameCarried ==
  ASSUME plans' = plans, run' = run
  PROVE  \A i : Carried(i)' = Carried(i)
BY DEF Carried

LEMMA SameCounted ==
  ASSUME plans' = plans, answers' = answers
  PROVE  Counted' = Counted /\ \A i : RequestOk(i)' <=> RequestOk(i)
<1>1. Counted' = Counted
  BY DEF Counted
<1>2. \A i : RequestOk(i)' <=> RequestOk(i)
  BY DEF RequestOk
<1> QED BY <1>1, <1>2

LEMMA SameLossless ==
  ASSUME landed' = landed, accepted' = accepted
  PROVE  \A r : Lossless(r)' <=> Lossless(r)
BY DEF Lossless, Doubled

LEMMA SameLake ==
  ASSUME lake' = lake
  PROVE  ToolObjects' = ToolObjects
BY DEF ToolObjects

\* A step of the harness that only looks: everything it may disturb is where the gate is.
LEMMA QuietKeeps ==
  ASSUME GateInv,
         UNCHANGED <<gate, run, plans, answers, manifest, listed, day, collector, cwl, stream, lake,
                     accepted, landed, passed, cleaned>>,
         polls' \in 0..PollBudget, query'.state \in QueryStates, pc # "green",
         pc' \in {"guard", "start"} => pc \in {"guard", "start"},
         pc' \in Active => pc \in Active,
         pc' \in Verifying => pc \in Verifying,
         RowsInv',
         pc' \in {"embed", "cleanup", "verdict"} /\ fails' = {} => Lossless(run)
  PROVE  GateInv'
<1>1. HarnessTypes'
  BY DEF GateInv, HarnessTypes, QueryStates
<1>2. PipelineTypes'
  BY SameTypes DEF GateInv, PipelineTypes
<1>3. RunsInv'
  BY DEF GateInv, RunsInv
<1>4. ToolObjects' = ToolObjects
  BY SameLake
<1>5. FlowInv' /\ OnceInv'
  BY <1>4 DEF GateInv, FlowInv, OnceInv
<1>6. SentInv'
  BY SameCarried DEF GateInv, SentInv
<1>7. CountedInv'
  BY SameCounted DEF GateInv, CountedInv
<1>8. VerdictInv'
  BY SameLossless DEF GateInv, VerdictInv
<1>9. CleanupInv'
  BY <1>4 DEF GateInv, CleanupInv, ResidueIsLate
<1> QED BY <1>1, <1>2, <1>3, <1>5, <1>6, <1>7, <1>8, <1>9 DEF GateInv

LEMMA StutterKeeps ==
  ASSUME GateInv, UNCHANGED vars
  PROVE  GateInv'
<1>1. UNCHANGED <<gate, run, pc, plans, answers, manifest, polls, query, fails, listed, day, collector, cwl,
                  stream, lake, accepted, landed, passed, cleaned>>
  BY DEF vars, harness, verifier, pipeline, history
<1>2. HarnessTypes'
  BY <1>1 DEF GateInv, HarnessTypes
<1>3. PipelineTypes'
  BY <1>1, SameTypes DEF GateInv, PipelineTypes
<1>4. RunsInv'
  BY <1>1 DEF GateInv, RunsInv
<1>5. ToolObjects' = ToolObjects
  BY <1>1, SameLake
<1>6. FlowInv' /\ OnceInv'
  BY <1>1, <1>5 DEF GateInv, FlowInv, OnceInv
<1>7. SentInv'
  BY <1>1, SameCarried DEF GateInv, SentInv
<1>8. CountedInv'
  BY <1>1, SameCounted DEF GateInv, CountedInv
<1>9. RowsInv'
  BY <1>1 DEF GateInv, RowsInv, Doubled, Arrived
<1>10. VerdictInv'
  BY <1>1, SameLossless DEF GateInv, VerdictInv
<1>11. CleanupInv'
  BY <1>1, <1>5 DEF GateInv, CleanupInv, ResidueIsLate
<1> QED BY <1>2, <1>3, <1>4, <1>6, <1>7, <1>8, <1>9, <1>10, <1>11 DEF GateInv

-----------------------------------------------------------------------------
(***************************************************************************)
(* The steps of the verifier that only look.                               *)
(***************************************************************************)

Quiet == UNCHANGED <<gate, run, plans, answers, manifest, listed, day, collector, cwl, stream, lake,
                     accepted, landed, passed, cleaned>>

LEMMA VerifierKeeps ==
  ASSUME GateInv, Quiet, pc \in Verifying, pc' \in Verifying \cup {"red"},
         polls' \in 0..PollBudget, query'.state \in QueryStates,
         pc' = "reconcile" => query'.state # "SUCCEEDED",
         pc' \in {"embed", "cleanup", "verdict"} /\ fails' = {} => Lossless(run)
  PROVE  GateInv'
<1>1. pc # "green" /\ pc' \notin {"guard", "start"} /\ pc \in Active
  BY DEF Verifying, Active
<1>2. RowsInv'
  BY DEF RowsInv
<1> QED BY <1>1, <1>2, QuietKeeps DEF Quiet

LEMMA PollsStay ==
  ASSUME GateInv
  PROVE  /\ polls \in 0..PollBudget /\ PollBudget \in 0..PollBudget /\ query.state \in QueryStates
         /\ PollAgain => polls' \in 0..PollBudget
         /\ verifierStays' = verifierStays => Quiet
<1>1. polls \in 0..PollBudget /\ PollBudget \in Nat /\ query.state \in QueryStates
  BY BoundsAssumption DEF GateInv, HarnessTypes, QueryStates
<1>2. PollAgain => polls' \in 0..PollBudget
  <2> SUFFICES ASSUME PollAgain PROVE polls' \in 0..PollBudget
    OBVIOUS
  <2>1. CASE polls = 0
    BY <1>1, <2>1 DEF PollAgain
  <2>2. CASE polls # 0
    BY <1>1, <2>2 DEF PollAgain
  <2> QED BY <2>1, <2>2
<1>3. verifierStays' = verifierStays => Quiet
  BY DEF verifierStays, Quiet, pipeline, history
<1> QED BY <1>1, <1>2, <1>3

\* A wait of poll_until ends at one of two steps, or goes on.
LEMMA PollUntilIs ==
  ASSUME GateInv, NEW ready, NEW next, NEW timeout, NEW failed, PollUntil(ready, next, timeout, failed)
  PROVE  pc' \in {pc, next, timeout} /\ polls' \in 0..PollBudget
BY PollsStay DEF PollUntil, Goto, PollAgain

LEMMA check_cwl_Keeps == ASSUME GateInv, check_cwl PROVE GateInv'
<1>1. Quiet /\ query' = query /\ pc = "cwl"
  BY PollsStay DEF check_cwl
<1>2. pc' \in {"cwl", "firehose"} /\ polls' \in 0..PollBudget
  BY PollsStay, PollUntilIs DEF check_cwl, Goto
<1> QED BY <1>1, <1>2, PollsStay, VerifierKeeps DEF Verifying

LEMMA check_firehose_Keeps == ASSUME GateInv, check_firehose PROVE GateInv'
<1>1. Quiet /\ query' = query /\ pc = "firehose"
  BY PollsStay DEF check_firehose
<1>2. pc' \in {"s3", "glue"} /\ polls' \in 0..PollBudget
  BY PollsStay DEF check_firehose, Goto
<1> QED BY <1>1, <1>2, PollsStay, VerifierKeeps DEF Verifying

LEMMA check_s3_Keeps == ASSUME GateInv, check_s3 PROVE GateInv'
<1>1. Quiet /\ query' = query /\ pc = "s3"
  BY PollsStay DEF check_s3
<1>2. pc' \in {"s3", "s3:encryption", "glue"} /\ polls' \in 0..PollBudget
  BY PollsStay, PollUntilIs DEF check_s3, Goto
<1> QED BY <1>1, <1>2, PollsStay, VerifierKeeps DEF Verifying

LEMMA check_s3_objects_Keeps == ASSUME GateInv, check_s3_objects PROVE GateInv'
<1>1. Quiet /\ query' = query /\ pc = "s3:encryption"
  BY PollsStay DEF check_s3_objects
<1>2. pc' = "glue" /\ polls' \in 0..PollBudget
  BY PollsStay DEF check_s3_objects, Goto
<1> QED BY <1>1, <1>2, PollsStay, VerifierKeeps DEF Verifying

\* Without a table the run goes on to the end, and is not green.
LEMMA check_glue_Keeps == ASSUME GateInv, check_glue PROVE GateInv'
<1>1. Quiet /\ query' = query /\ pc = "glue"
  BY PollsStay DEF check_glue
<1>2. \/ Goto("embed", {"glue:table"})
      \/ Goto("athena", {})
      \/ PollUntil("partitions" \in stack, "athena", "athena", {"glue:partitions"})
  BY DEF check_glue
<1>3. pc' \in {"glue", "athena", "embed"} /\ polls' \in 0..PollBudget
  <2>1. CASE PollUntil("partitions" \in stack, "athena", "athena", {"glue:partitions"})
    BY <1>1, <2>1, PollsStay DEF PollUntil, Goto, PollAgain
  <2> QED BY <1>2, <2>1, PollsStay DEF Goto
<1>4. pc' = "embed" => fails' # {}
  BY <1>1, <1>2 DEF Goto, PollUntil, PollAgain
<1> QED BY <1>1, <1>3, <1>4, PollsStay, VerifierKeeps DEF Verifying

LEMMA StartedIs == ASSUME StartQuery PROVE query'.state = "running"
BY DEF StartQuery

LEMMA NoQueryIs == NoQuery.state = "none"
BY DEF NoQuery

LEMMA check_athena_Keeps == ASSUME GateInv, check_athena PROVE GateInv'
<1>1. Quiet /\ pc = "athena"
  BY PollsStay DEF check_athena
<1>2. polls' \in 0..PollBudget /\ query'.state \in QueryStates
  BY PollsStay, StartedIs DEF check_athena, Goto, QueryStates
<1>3. pc' = "queryable" \/ (pc' = "embed" /\ fails' # {})
  BY DEF check_athena, Goto
<1> QED BY <1>1, <1>2, <1>3, VerifierKeeps DEF Verifying

LEMMA check_embed_lambda_Keeps == ASSUME GateInv, check_embed_lambda PROVE GateInv'
<1>1. Quiet /\ query' = query /\ pc = "embed"
  BY PollsStay DEF check_embed_lambda
<1>2. pc' = "cleanup" /\ polls' \in 0..PollBudget
  BY PollsStay DEF check_embed_lambda, Goto
<1>3. fails' = {} => Lossless(run)
  BY <1>1 DEF check_embed_lambda, Goto, GateInv, VerdictInv
<1> QED BY <1>1, <1>2, <1>3, PollsStay, VerifierKeeps DEF Verifying

LEMMA CleanupImpossibleKeeps == ASSUME GateInv, CleanupImpossible PROVE GateInv'
<1>1. Quiet /\ query' = query /\ pc = "cleanup"
  BY DEF CleanupImpossible, cleanupStays, Quiet
<1>2. pc' = "verdict" /\ polls' \in 0..PollBudget /\ fails' # {}
  BY PollsStay DEF CleanupImpossible, Goto
<1> QED BY <1>1, <1>2, PollsStay, VerifierKeeps DEF Verifying

\* Wherever the command stops, the gate is red.
LEMMA RedKeeps ==
  ASSUME GateInv, Quiet, pc # "green", pc' = "red", polls' = polls, query'.state \in QueryStates
  PROVE  GateInv'
<1>1. RowsInv'
  BY DEF RowsInv
<1> QED BY <1>1, PollsStay, QuietKeeps DEF Quiet, Active, Verifying

LEMMA ApiErrorKeeps == ASSUME GateInv, ApiError PROVE GateInv'
<1>1. Quiet /\ query' = query /\ pc # "green" /\ pc' = "red" /\ polls' = polls
  BY DEF ApiError, Quiet, history, Exit1
<1> QED BY <1>1, PollsStay, RedKeeps

LEMMA check_queryability_Keeps == ASSUME GateInv, check_queryability PROVE GateInv'
<1>1. Quiet /\ pc = "guard"
  BY PollsStay DEF check_queryability
<1>2. query'.state \in QueryStates
  BY PollsStay, StartedIs, NoQueryIs DEF check_queryability, QueryStates, AwaitQuery
<1>3. CASE pc' = "red"
  <2>1. polls' = polls
    BY <1>1, <1>3 DEF check_queryability, Exit1, PollAgain, AwaitQuery, Goto
  <2> QED BY <1>1, <1>2, <1>3, <2>1, RedKeeps
<1>4. CASE pc' # "red"
  <2>1. pc' \in {"guard", "start"} /\ polls' \in 0..PollBudget
    BY <1>1, <1>4, PollsStay DEF check_queryability, Exit1, PollAgain, AwaitQuery, Goto
  <2>2. RowsInv'
    BY <2>1 DEF RowsInv
  <2> QED BY <1>1, <1>2, <2>1, <2>2, QuietKeeps DEF Quiet, Active, Verifying
<1> QED BY <1>3, <1>4

-----------------------------------------------------------------------------
(***************************************************************************)
(* The reconciliation: the counts of the manifest are those of the         *)
(* accepted records, and Athena counts at most the ones that arrived,      *)
(* unless a copy makes up for a lost one.                                  *)
(***************************************************************************)

AcceptedOf(e) == {rec \in accepted : rec.run = run /\ rec.ev = e}

KeyOf(rec) == [req |-> rec.req, pos |-> rec.pos, ev |-> rec.ev]

LEMMA RecordIs ==
  ASSUME NEW rec \in Records
  PROVE  rec = [run |-> rec.run, req |-> rec.req, pos |-> rec.pos, ev |-> rec.ev]
BY DEF Records

LEMMA CarriedIs ==
  ASSUME NEW i, plans[i].kind = "valid"
  PROVE  Carried(i) = {[run |-> run, req |-> i, pos |-> p, ev |-> plans[i].specs[p].ev] :
                         p \in DOMAIN plans[i].specs}
BY DEF Carried

\* What the manifest counts is what the receiver acknowledged.
LEMMA CountedIs ==
  ASSUME GateInv, pc \in Verifying
  PROVE  /\ \A rec \in accepted : rec.run = run => KeyOf(rec) \in Counted
         /\ \A x \in Counted : \E rec \in accepted : rec.run = run /\ KeyOf(rec) = x
<1>1. /\ DOMAIN answers = 1..Len(answers) /\ DOMAIN plans = 1..Len(plans) /\ Len(answers) = Len(plans)
      /\ \A i \in DOMAIN plans : IsRequest(plans[i])
  BY DEF GateInv, HarnessTypes, ArePlans, CountedInv
<1>2. pc \in Active
  BY DEF Active
<1>3. ASSUME NEW rec \in accepted, rec.run = run PROVE KeyOf(rec) \in Counted
  <2>1. PICK i \in DOMAIN answers : plans[i].kind = "valid" /\ rec \in Carried(i) /\ answers[i] = 200
    BY <1>2, <1>3 DEF GateInv, SentInv
  <2>2. i \in DOMAIN plans /\ plans[i].path \in LandingPaths
    BY <1>1, <2>1 DEF IsRequest
  <2>3. PICK p \in DOMAIN plans[i].specs :
           rec = [run |-> run, req |-> i, pos |-> p, ev |-> plans[i].specs[p].ev]
    BY <2>1, CarriedIs
  <2>4. KeyOf(rec) = [req |-> i, pos |-> p, ev |-> plans[i].specs[p].ev]
    BY <2>3 DEF KeyOf
  <2> QED BY <2>1, <2>2, <2>4 DEF Counted
<1>4. ASSUME NEW x \in Counted PROVE \E rec \in accepted : rec.run = run /\ KeyOf(rec) = x
  <2>1. PICK i \in DOMAIN plans : /\ answers[i] = 200 /\ plans[i].path \in LandingPaths
                                  /\ x \in {[req |-> i, pos |-> p, ev |-> plans[i].specs[p].ev] :
                                              p \in DOMAIN plans[i].specs}
    BY <1>4 DEF Counted
  <2>2. PICK p \in DOMAIN plans[i].specs : x = [req |-> i, pos |-> p, ev |-> plans[i].specs[p].ev]
    BY <2>1
  <2>3. plans[i].kind = "valid"
    <3>1. IsRequest(plans[i])
      BY <1>1
    <3>2. plans[i].specs # <<>>
      BY <2>2
    <3> QED BY <3>1, <3>2 DEF IsRequest
  <2> DEFINE rec == [run |-> run, req |-> i, pos |-> p, ev |-> plans[i].specs[p].ev]
  <2>4. rec \in Carried(i)
    BY <2>2, <2>3, CarriedIs
  <2>5. rec \in accepted
    BY <1>1, <1>2, <2>1, <2>3, <2>4 DEF GateInv, SentInv
  <2>6. rec.run = run /\ KeyOf(rec) = x
    BY <2>2 DEF KeyOf
  <2> QED BY <2>5, <2>6
<1> QED BY <1>3, <1>4

LEMMA CountsAre ==
  ASSUME GateInv, pc \in Verifying, NEW rec \in accepted, rec.run = run
  PROVE  /\ rec.ev \in DOMAIN manifest.counts
         /\ manifest.counts[rec.ev] = Cardinality(AcceptedOf(rec.ev))
<1> DEFINE e == rec.ev
           A == AcceptedOf(e)
           C == {x \in Counted : x.ev = e}
           f == [r \in A |-> KeyOf(r)]
<1>1. manifest.counts = CountsByEvent(Counted)
  BY DEF GateInv, CountedInv
<1>2. KeyOf(rec) \in Counted /\ KeyOf(rec).ev = e
  BY CountedIs DEF KeyOf
<1>3. e \in DOMAIN manifest.counts /\ manifest.counts[e] = Cardinality(C)
  BY <1>1, <1>2 DEF CountsByEvent
<1>4. accepted \subseteq Records /\ IsFiniteSet(accepted)
  BY DEF GateInv, PipelineTypes
<1>5. A \subseteq accepted /\ IsFiniteSet(A)
  BY <1>4, FS_Subset DEF AcceptedOf
<1>6. \A r \in A : KeyOf(r) \in C
  <2> SUFFICES ASSUME NEW r \in A PROVE KeyOf(r) \in C
    OBVIOUS
  <2>1. r \in accepted /\ r.run = run /\ r.ev = e
    BY DEF AcceptedOf
  <2> QED BY <2>1, CountedIs DEF KeyOf
<1>7. \A r, s \in A : KeyOf(r) = KeyOf(s) => r = s
  <2> SUFFICES ASSUME NEW r \in A, NEW s \in A, KeyOf(r) = KeyOf(s) PROVE r = s
    OBVIOUS
  <2>1. r \in Records /\ s \in Records /\ r.run = s.run
    BY <1>4 DEF AcceptedOf
  <2>2. r.req = s.req /\ r.pos = s.pos /\ r.ev = s.ev
    BY DEF KeyOf
  <2> QED BY <2>1, <2>2, RecordIs
<1>8. \A x \in C : \E r \in A : KeyOf(r) = x
  <2> SUFFICES ASSUME NEW x \in C PROVE \E r \in A : KeyOf(r) = x
    OBVIOUS
  <2>1. PICK r \in accepted : r.run = run /\ KeyOf(r) = x
    BY CountedIs
  <2>2. r.ev = e
    BY <2>1 DEF KeyOf
  <2> QED BY <2>1, <2>2 DEF AcceptedOf
<1> HIDE DEF A, C, e
<1>9. f \in Bijection(A, C)
  <2>1. f \in [A -> C] /\ IsInjective(f)
    BY <1>6, <1>7 DEF IsInjective
  <2>2. \A x \in C : \E r \in A : f[r] = x
    BY <1>8
  <2> HIDE DEF f
  <2> QED BY <2>1, <2>2 DEF Bijection, Injection, Surjection
<1>10. Cardinality(A) = Cardinality(C)
  BY <1>5, <1>9, FS_Bijection DEF ExistsBijection
<1> QED BY <1>3, <1>10 DEF A, e

\* Each object of the run that is not a copy is an accepted record that arrived.
LEMMA RowsAreArrived ==
  ASSUME GateInv, pc \in Verifying, ~Doubled(run), NEW e \in DOMAIN CountQuery(run)
  PROVE  CountQuery(run)[e] \in Nat /\ CountQuery(run)[e] <= Cardinality(Arrived(e))
<1> DEFINE O == {o \in {p \in lake : p.tool = "e2e-smoke" /\ p.run = run} : o.ev = e}
           A == Arrived(e)
           f == [o \in O |-> RecOf(o)]
<1>1. CountQuery(run)[e] = Cardinality(O)
  BY DEF CountQuery, CountsByEvent
<1>2. IsFiniteSet(A)
  <2>1. A \subseteq accepted /\ IsFiniteSet(accepted)
    BY DEF Arrived, GateInv, PipelineTypes
  <2> QED BY <2>1, FS_Subset
<1>3. run \in Nat /\ run # 0 /\ pc \in Active
  BY DEF GateInv, HarnessTypes, Active
<1>4. ASSUME NEW o \in O PROVE RecOf(o) \in A /\ o \in ToolObjects /\ o.copy = 1 /\ o.run # 0
  <2>1. o \in ToolObjects /\ o.run = run /\ o.ev = e
    BY DEF ToolObjects
  <2>2. [rec |-> RecOf(o), copy |-> o.copy] \in landed
    BY <2>1 DEF GateInv, FlowInv
  <2>3. RecOf(o).run = run /\ RecOf(o).ev = e
    BY <2>1 DEF RecOf
  <2> DEFINE l == [rec |-> RecOf(o), copy |-> o.copy]
  <2>4. l.rec = RecOf(o) /\ l.copy = o.copy /\ l \in landed
    BY <2>2
  <2> HIDE DEF l
  <2>5. l.copy \in 1..MaxCopies /\ MaxCopies \in Nat
    BY <2>4, BoundsAssumption DEF GateInv, PipelineTypes
  <2>6. ~(l.copy > 1)
    BY <2>3, <2>4 DEF Doubled
  <2>7. o.copy = 1
    BY <2>4, <2>5, <2>6
  <2>8. RecOf(o) \in cwl
    BY <2>4 DEF GateInv, FlowInv
  <2>9. PICK i \in DOMAIN answers : plans[i].kind = "valid" /\ RecOf(o) \in Carried(i)
    BY <1>3, <2>3, <2>8 DEF GateInv, SentInv
  <2>10. i \in DOMAIN plans /\ IsRequest(plans[i]) /\ RequestOk(i)
    BY <2>9 DEF GateInv, HarnessTypes, ArePlans, CountedInv
  <2>11. answers[i] = 200
    BY <2>9, <2>10 DEF IsRequest, RequestOk
  <2>12. RecOf(o) \in accepted
    BY <1>3, <2>9, <2>11 DEF GateInv, SentInv
  <2>13. [rec |-> RecOf(o), copy |-> 1] \in landed
    BY <2>2, <2>7
  <2> QED BY <1>3, <2>1, <2>3, <2>7, <2>12, <2>13 DEF Arrived
<1>5. \A o, p \in O : RecOf(o) = RecOf(p) => o = p
  BY <1>4 DEF GateInv, OnceInv
<1> HIDE DEF O, A
<1>6. f \in Injection(O, A)
  BY <1>4, <1>5 DEF Injection, IsInjective
<1>7. IsFiniteSet(O) /\ Cardinality(O) <= Cardinality(A)
  BY <1>2, <1>6, FS_Injection
<1>8. Cardinality(O) \in Nat
  BY <1>7, FS_CardinalityType
<1> QED BY <1>1, <1>7, <1>8 DEF A

\* A reconciliation that passes leaves no gap.
LEMMA ReconciledIsLossless ==
  ASSUME GateInv, pc = "reconcile", query.state = "SUCCEEDED", reconcile_counts(manifest.counts, query.rows)
  PROVE  Lossless(run)
<1> SUFFICES ASSUME ~Doubled(run), NEW rec \in accepted, rec.run = run
             PROVE  [rec |-> rec, copy |-> 1] \in landed
  BY DEF Lossless
<1> DEFINE e == rec.ev
<1>1. pc \in Verifying
  BY DEF Verifying
<1>2. e \in DOMAIN manifest.counts /\ manifest.counts[e] = Cardinality(AcceptedOf(e))
  BY <1>1, CountsAre
<1>3. e \in DOMAIN query.rows /\ query.rows[e] >= manifest.counts[e]
  BY <1>2 DEF reconcile_counts
<1>4. query.rows[e] \in Nat /\ query.rows[e] <= Cardinality(Arrived(e))
  BY <1>3 DEF GateInv, RowsInv
<1>5. Arrived(e) \subseteq AcceptedOf(e) /\ IsFiniteSet(AcceptedOf(e))
  <2>1. AcceptedOf(e) \subseteq accepted /\ IsFiniteSet(accepted)
    BY DEF AcceptedOf, GateInv, PipelineTypes
  <2> QED BY <2>1, FS_Subset DEF Arrived, AcceptedOf
<1>6. /\ Cardinality(Arrived(e)) <= Cardinality(AcceptedOf(e))
      /\ Cardinality(AcceptedOf(e)) = Cardinality(Arrived(e)) => AcceptedOf(e) = Arrived(e)
      /\ IsFiniteSet(Arrived(e))
  BY <1>5, FS_Subset
<1>7. Cardinality(Arrived(e)) \in Nat /\ Cardinality(AcceptedOf(e)) \in Nat
  BY <1>5, <1>6, FS_CardinalityType
<1>8. Cardinality(AcceptedOf(e)) = Cardinality(Arrived(e))
  BY <1>2, <1>3, <1>4, <1>6, <1>7
<1>9. rec \in Arrived(e)
  BY <1>6, <1>8 DEF AcceptedOf
<1> QED BY <1>9 DEF Arrived

LEMMA AwaitIs ==
  ASSUME GateInv, AwaitQuery
  PROVE  pc' = pc /\ fails' = fails /\ query' = query /\ query.state # "SUCCEEDED" /\ polls' \in 0..PollBudget
BY PollsStay DEF AwaitQuery, Settled, PollAgain

\* A run that sent nothing that lands has nothing to lose.
LEMMA check_queryable_Keeps == ASSUME GateInv, check_queryable PROVE GateInv'
<1>1. Quiet /\ pc = "queryable"
  BY PollsStay DEF check_queryable
<1>2. CASE AwaitQuery
  BY <1>1, <1>2, AwaitIs, PollsStay, VerifierKeeps DEF Verifying
<1>3. CASE ~AwaitQuery
  <2> DEFINE failed == IF QueryFailed THEN {"athena:queryable"} ELSE {}
  <2>1. IF DOMAIN manifest.counts = {}
        THEN Goto("embed", failed) /\ query' = NoQuery
        ELSE Goto("reconcile", failed) /\ StartQuery
    BY <1>3 DEF check_queryable
  <2> HIDE DEF failed
  <2>2. CASE DOMAIN manifest.counts = {}
    <3>1. pc \in Verifying
      BY <1>1 DEF Verifying
    <3>2. \A rec \in accepted : rec.run # run
      BY <2>2, <3>1, CountsAre
    <3>3. Lossless(run)
      BY <3>2 DEF Lossless
    <3>4. pc' = "embed" /\ polls' \in 0..PollBudget /\ query'.state = "none"
      BY <2>1, <2>2, PollsStay, NoQueryIs DEF Goto
    <3> QED BY <1>1, <3>1, <3>3, <3>4, VerifierKeeps DEF Verifying, QueryStates
  <2>3. CASE DOMAIN manifest.counts # {}
    <3>1. pc' = "reconcile" /\ polls' \in 0..PollBudget /\ query'.state = "running"
      BY <2>1, <2>3, PollsStay, StartedIs DEF Goto
    <3> QED BY <1>1, <3>1, VerifierKeeps DEF Verifying, QueryStates
  <2> QED BY <2>2, <2>3
<1> QED BY <1>2, <1>3

LEMMA check_reconcile_Keeps == ASSUME GateInv, check_reconcile PROVE GateInv'
<1>1. Quiet /\ pc = "reconcile" /\ pc \in Verifying
  BY PollsStay DEF check_reconcile, Verifying
<1>2. CASE AwaitQuery
  BY <1>1, <1>2, AwaitIs, PollsStay, VerifierKeeps DEF Verifying
<1>3. CASE Goto("embed", {"athena:query"}) /\ query' = NoQuery
  <2>1. pc' = "embed" /\ polls' \in 0..PollBudget /\ query'.state = "none" /\ fails' # {}
    BY <1>3, PollsStay, NoQueryIs DEF Goto
  <2> QED BY <1>1, <2>1, VerifierKeeps DEF Verifying, QueryStates
<1>4. CASE /\ query.state = "SUCCEEDED"
           /\ Goto("embed", IF reconcile_counts(manifest.counts, query.rows)
                            THEN {} ELSE {"athena:reconcile"})
           /\ query' = NoQuery
  <2>1. pc' = "embed" /\ polls' \in 0..PollBudget /\ query'.state = "none"
    BY <1>4, PollsStay, NoQueryIs DEF Goto
  <2>2. fails' = {} => reconcile_counts(manifest.counts, query.rows)
    BY <1>4 DEF Goto
  <2>3. fails' = {} => Lossless(run)
    BY <1>1, <1>4, <2>2, ReconciledIsLossless
  <2> QED BY <1>1, <2>1, <2>3, VerifierKeeps DEF Verifying, QueryStates
<1> QED BY <1>2, <1>3, <1>4 DEF check_reconcile

LEMMA AthenaSettlesKeeps == ASSUME GateInv, AthenaSettles PROVE GateInv'
<1>1. Quiet /\ pc' = pc /\ fails' = fails /\ polls' = polls /\ pc # "green"
  BY DEF AthenaSettles, Quiet, harness, history, Ended
<1> DEFINE rows == CountQuery(run)
<1>2. CASE query' = [state |-> "SUCCEEDED", rows |-> rows]
  <2> HIDE DEF rows
  <2>1. query'.state = "SUCCEEDED" /\ query'.rows = rows
    BY <1>2
  <2>2. RowsInv'
    <3> SUFFICES ASSUME pc = "reconcile", ~Doubled(run), NEW e \in DOMAIN rows
                 PROVE  rows[e] \in Nat /\ rows[e] <= Cardinality(Arrived(e))
      <4>1. Doubled(run)' <=> Doubled(run)
        BY <1>1 DEF Quiet, Doubled
      <4>2. \A x : Arrived(x)' = Arrived(x)
        BY <1>1 DEF Quiet, Arrived
      <4> QED BY <1>1, <2>1, <4>1, <4>2 DEF RowsInv
    <3>1. pc \in Verifying
      BY DEF Verifying
    <3> QED BY <3>1, RowsAreArrived DEF rows
  <2> QED BY <1>1, <2>1, <2>2, PollsStay, QuietKeeps DEF Quiet, QueryStates, GateInv, VerdictInv
<1>3. CASE query' = [state |-> "FAILED", rows |-> <<>>]
  <2>1. query'.state = "FAILED"
    BY <1>3
  <2>2. RowsInv'
    BY <2>1 DEF RowsInv
  <2> QED BY <1>1, <2>1, <2>2, PollsStay, QuietKeeps DEF Quiet, QueryStates, GateInv, VerdictInv
<1> QED BY <1>2, <1>3 DEF AthenaSettles

-----------------------------------------------------------------------------
(***************************************************************************)
(* The pipeline.                                                           *)
(***************************************************************************)

\* What has landed stays so: a verdict that was right remains right.
LEMMA LosslessStays ==
  ASSUME accepted' = accepted, landed \subseteq landed'
  PROVE  \A r : Lossless(r) => Lossless(r)'
<1> SUFFICES ASSUME NEW r, Lossless(r) PROVE Lossless(r)'
  OBVIOUS
<1>1. CASE Doubled(r)
  <2>1. Doubled(r)'
    BY <1>1 DEF Doubled
  <2> QED BY <2>1 DEF Lossless
<1>2. CASE ~Doubled(r)
  BY <1>2 DEF Lossless
<1> QED BY <1>1, <1>2

LEMMA PipelineKeeps ==
  ASSUME GateInv,
         UNCHANGED <<harness, polls, query, fails, accepted, passed>>,
         collector' \cup cwl' \subseteq collector \cup cwl,
         landed \subseteq landed'
  PROVE  /\ HarnessTypes' /\ RunsInv' /\ SentInv' /\ CountedInv' /\ RowsInv' /\ VerdictInv'
         /\ Records' = Records
<1>1. UNCHANGED <<gate, run, pc, plans, answers, manifest, polls, query, fails>>
  BY DEF harness
<1>2. HarnessTypes'
  BY <1>1 DEF GateInv, HarnessTypes
<1>3. RunsInv'
  BY <1>1 DEF GateInv, RunsInv
<1>4. SentInv'
  <2> SUFFICES ASSUME pc \in Active
               PROVE  /\ \A rec \in collector' \cup cwl' \cup accepted : rec.run = run =>
                           \E i \in DOMAIN answers : /\ plans[i].kind = "valid" /\ rec \in Carried(i)
                                                     /\ rec \in accepted => answers[i] = 200
                      /\ \A i \in DOMAIN answers : plans[i].kind = "valid" /\ answers[i] = 200
                                                     => Carried(i) \subseteq accepted
    BY <1>1, SameCarried DEF SentInv
  <2> QED BY DEF GateInv, SentInv
<1>5. CountedInv'
  BY <1>1, SameCounted DEF GateInv, CountedInv
<1>6. RowsInv'
  <2> SUFFICES ASSUME pc = "reconcile", query.state = "SUCCEEDED", ~Doubled(run)', NEW e \in DOMAIN query.rows
               PROVE  query.rows[e] \in Nat /\ query.rows[e] <= Cardinality(Arrived(e)')
    BY <1>1 DEF RowsInv
  <2>1. ~Doubled(run)
    BY <1>1 DEF Doubled
  <2>2. query.rows[e] \in Nat /\ query.rows[e] <= Cardinality(Arrived(e))
    BY <2>1 DEF GateInv, RowsInv
  <2>3. Arrived(e) \subseteq Arrived(e)' /\ Arrived(e)' \subseteq accepted
    BY <1>1 DEF Arrived
  <2>4. IsFiniteSet(accepted)
    BY DEF GateInv, PipelineTypes
  <2>5. IsFiniteSet(Arrived(e)') /\ IsFiniteSet(Arrived(e))
    BY <2>3, <2>4, FS_Subset
  <2>6. Cardinality(Arrived(e)) <= Cardinality(Arrived(e)')
    BY <2>3, <2>5, FS_Subset
  <2>7. Cardinality(Arrived(e)) \in Nat /\ Cardinality(Arrived(e)') \in Nat
    BY <2>5, FS_CardinalityType
  <2> QED BY <2>2, <2>6, <2>7
<1>7. VerdictInv'
  BY <1>1, LosslessStays DEF GateInv, VerdictInv
<1>8. Records' = Records
  BY <1>1 DEF Records
<1> QED BY <1>2, <1>3, <1>4, <1>5, <1>6, <1>7, <1>8

LEMMA ExportKeeps ==
  ASSUME GateInv, NEW rec \in collector, Export(rec)
  PROVE  GateInv'
<1> DEFINE new == [rec |-> rec, dt |-> day, copy |-> 1]
<1>1. /\ UNCHANGED <<harness, polls, query, fails, accepted, passed, landed, cleaned, day, lake, listed, gate>>
      /\ collector' = collector \ {rec} /\ cwl' = cwl \cup {rec} /\ stream' = stream \cup {new}
  BY DEF Export, history, harness, verifier
<1>2. /\ HarnessTypes' /\ RunsInv' /\ SentInv' /\ CountedInv' /\ RowsInv' /\ VerdictInv'
      /\ Records' = Records
  BY <1>1, PipelineKeeps
<1>3. InStream' = InStream /\ Objects' = Objects /\ ToolObjects' = ToolObjects
  BY <1>1, SameTypes, SameLake
<1>4. rec \in Records /\ day \in Nat /\ MaxCopies \in Nat /\ MaxCopies # 0
  BY BoundsAssumption DEF GateInv, PipelineTypes
<1>5. new \in InStream /\ new.rec = rec /\ new.copy = 1
  BY <1>4 DEF InStream
<1> HIDE DEF new
<1>6. PipelineTypes'
  BY <1>1, <1>2, <1>3, <1>4, <1>5 DEF GateInv, PipelineTypes
<1>7. FlowInv'
  BY <1>1, <1>3, <1>5 DEF GateInv, FlowInv
<1>8. OnceInv'
  <2>1. rec.run # 0 => rec \notin cwl
    BY DEF GateInv, OnceInv
  <2>2. \A s \in stream : s.rec \in cwl
    BY DEF GateInv, FlowInv
  <2>3. \A l \in landed : l.rec \in cwl
    BY DEF GateInv, FlowInv
  <2>4. \A x \in collector' : x.run # 0 => x \notin cwl'
    BY <1>1 DEF GateInv, OnceInv
  <2>5. \A s, t \in stream' : s.rec = t.rec /\ s.rec.run # 0 => s = t
    BY <1>1, <1>5, <2>1, <2>2 DEF GateInv, OnceInv
  <2>6. \A s \in stream', l \in landed' : l.rec = s.rec /\ s.rec.run # 0 => l.copy < s.copy
    BY <1>1, <1>5, <2>1, <2>3 DEF GateInv, OnceInv
  <2> QED BY <1>3, <2>4, <2>5, <2>6 DEF GateInv, OnceInv
<1>9. CleanupInv'
  BY <1>1, <1>3 DEF GateInv, CleanupInv, ResidueIsLate
<1> QED BY <1>2, <1>6, <1>7, <1>8, <1>9 DEF GateInv

\* Records that go away disturb nothing.
LEMMA LossKeeps ==
  ASSUME GateInv, UNCHANGED <<harness, verifier, history, day, cwl, lake>>,
         collector' \subseteq collector, stream' \subseteq stream
  PROVE  GateInv'
<1>1. UNCHANGED <<polls, query, fails, accepted, passed, landed, cleaned, listed, gate>>
  BY DEF history, harness, verifier
<1>2. /\ HarnessTypes' /\ RunsInv' /\ SentInv' /\ CountedInv' /\ RowsInv' /\ VerdictInv'
      /\ Records' = Records
  BY <1>1, PipelineKeeps
<1>3. InStream' = InStream /\ Objects' = Objects /\ ToolObjects' = ToolObjects
  BY <1>1, SameTypes, SameLake
<1>4. PipelineTypes'
  BY <1>1, <1>2, <1>3 DEF GateInv, PipelineTypes
<1>5. FlowInv' /\ OnceInv' /\ CleanupInv'
  BY <1>1, <1>3 DEF GateInv, FlowInv, OnceInv, CleanupInv, ResidueIsLate
<1> QED BY <1>2, <1>4, <1>5 DEF GateInv

LEMMA MidnightKeeps == ASSUME GateInv, Midnight PROVE GateInv'
<1>1. UNCHANGED <<harness, polls, query, fails, accepted, passed, landed, cleaned, listed, gate, collector, cwl,
                  stream, lake>>
  BY DEF Midnight, history, harness, verifier
<1>2. /\ HarnessTypes' /\ RunsInv' /\ SentInv' /\ CountedInv' /\ RowsInv' /\ VerdictInv'
      /\ Records' = Records
  BY <1>1, PipelineKeeps
<1>3. MaxDay \in Nat /\ day \in 0..MaxDay
  BY BoundsAssumption DEF GateInv, PipelineTypes
<1>4. day' \in 0..MaxDay /\ 0..day \subseteq 0..day'
  BY <1>3 DEF Midnight
<1>5. InStream \subseteq InStream' /\ Objects \subseteq Objects'
  BY <1>1, <1>2, <1>4 DEF InStream, Objects
<1>6. ToolObjects' = ToolObjects
  BY <1>1, SameLake
<1>7. PipelineTypes'
  BY <1>1, <1>2, <1>4, <1>5 DEF GateInv, PipelineTypes
<1>8. FlowInv' /\ OnceInv' /\ CleanupInv'
  BY <1>1, <1>6 DEF GateInv, FlowInv, OnceInv, CleanupInv, ResidueIsLate
<1> QED BY <1>2, <1>7, <1>8 DEF GateInv

\* The object of a record that Firehose writes.
LEMMA ObjectIs ==
  ASSUME GateInv, NEW s \in stream
  PROVE  /\ ObjectOf(s) \in Objects /\ ObjectOf(s).tool = "e2e-smoke"
         /\ RecOf(ObjectOf(s)) = s.rec /\ ObjectOf(s).copy = s.copy /\ ObjectOf(s).run = s.rec.run
         /\ ObjectOf(s).dt = s.dt /\ (s.dt \in cleaned \/ BeingListed(s.dt) => ObjectOf(s).residue)
<1>1. s \in InStream
  BY DEF GateInv, PipelineTypes
<1>2. s.rec \in Records /\ s.dt \in 0..day /\ s.copy \in 1..MaxCopies
  BY <1>1 DEF InStream
<1> DEFINE o == ObjectOf(s)
<1>3. /\ o.tool = "e2e-smoke" /\ o.run = s.rec.run /\ o.req = s.rec.req /\ o.pos = s.rec.pos
      /\ o.ev = s.rec.ev /\ o.dt = s.dt /\ o.copy = s.copy
  BY DEF ObjectOf
<1>4. (s.dt \in cleaned \/ BeingListed(s.dt) => o.residue) /\ o.residue \in BOOLEAN
  BY DEF ObjectOf
<1>5. /\ s.rec.run \in 0..Len(gate) /\ s.rec.req \in Nat /\ s.rec.pos \in Nat
      /\ s.rec.ev \in Events \cup {"production"}
  BY <1>2 DEF Records
<1>6. o \in Objects
  BY <1>2, <1>4, <1>5 DEF ObjectOf, Objects
<1> HIDE DEF o
<1>7. RecOf(o) = s.rec
  BY <1>2, <1>3, RecordIs DEF RecOf
<1> QED BY <1>3, <1>4, <1>6, <1>7 DEF o

LEMMA FlushKeeps ==
  ASSUME GateInv, NEW s \in stream, NEW again \in BOOLEAN, Flush(s, again)
  PROVE  GateInv'
<1> DEFINE o == ObjectOf(s)
           l == [rec |-> s.rec, copy |-> s.copy]
           t == [s EXCEPT !.copy = @ + 1]
           left == stream \ {s}
<1>1. /\ UNCHANGED <<harness, polls, query, fails, accepted, passed, cleaned, day, gate, collector, cwl>>
      /\ lake' = lake \cup {o} /\ landed' = landed \cup {l}
      /\ listed' = listed \/ (BeingListed(s.dt) /\ listed' = listed \cup {o})
  BY DEF Flush, harness
<1>2. stream' = left \/ (s.copy < MaxCopies /\ stream' = left \cup {t})
  <2>1. CASE again
    BY <2>1 DEF Flush
  <2>2. CASE ~again
    BY <2>2 DEF Flush
  <2> QED BY <2>1, <2>2
<1>3. /\ HarnessTypes' /\ RunsInv' /\ SentInv' /\ CountedInv' /\ RowsInv' /\ VerdictInv'
      /\ Records' = Records
  BY <1>1, PipelineKeeps
<1>4. InStream' = InStream /\ Objects' = Objects
  BY <1>1, SameTypes
<1>5. /\ o \in Objects /\ o.tool = "e2e-smoke" /\ RecOf(o) = s.rec /\ o.copy = s.copy
      /\ o.run = s.rec.run /\ o.dt = s.dt /\ (s.dt \in cleaned \/ BeingListed(s.dt) => o.residue)
  BY ObjectIs
<1>6. s \in InStream /\ s.rec \in Records /\ s.copy \in 1..MaxCopies /\ MaxCopies \in Nat
  BY BoundsAssumption DEF GateInv, PipelineTypes, InStream
<1>7. l \in [rec : Records, copy : 1..MaxCopies] /\ l.rec = s.rec /\ l.copy = s.copy
  BY <1>6
<1>8. t.rec = s.rec /\ t.copy = s.copy + 1
  BY <1>6 DEF InStream
<1>9. s.copy < MaxCopies => t \in InStream
  BY <1>6 DEF InStream
<1> HIDE DEF o, t
<1>10. ToolObjects' = ToolObjects \cup {o}
  BY <1>1, <1>5 DEF ToolObjects
<1>11. PipelineTypes'
  BY <1>1, <1>2, <1>3, <1>4, <1>5, <1>7, <1>9 DEF GateInv, PipelineTypes
<1>12. s.rec \in cwl
  BY DEF GateInv, FlowInv
<1>13. FlowInv'
  <2>1. \A x \in stream' : x.rec \in cwl'
    BY <1>1, <1>2, <1>8, <1>12 DEF GateInv, FlowInv
  <2>2. \A x \in landed' : x.rec \in cwl'
    BY <1>1, <1>7, <1>12 DEF GateInv, FlowInv
  <2>3. \A x \in ToolObjects' : [rec |-> RecOf(x), copy |-> x.copy] \in landed'
    BY <1>1, <1>5, <1>10 DEF GateInv, FlowInv
  <2> QED BY <2>1, <2>2, <2>3 DEF FlowInv
<1> HIDE DEF l
<1>14. OnceInv'
  <2>1. \A x \in stream : x.rec = s.rec /\ s.rec.run # 0 => x = s
    BY DEF GateInv, OnceInv
  <2>2. \A x \in landed : x.rec = s.rec /\ s.rec.run # 0 => x.copy < s.copy /\ x.copy \in Nat
    BY DEF GateInv, OnceInv, PipelineTypes
  <2>3. \A x \in collector' : x.run # 0 => x \notin cwl'
    BY <1>1 DEF GateInv, OnceInv
  <2>4. \A x, y \in stream' : x.rec = y.rec /\ x.rec.run # 0 => x = y
    BY <1>2, <1>8, <2>1 DEF GateInv, OnceInv
  <2>5. \A x \in stream', y \in landed' : y.rec = x.rec /\ x.rec.run # 0 => y.copy < x.copy
    <3> SUFFICES ASSUME NEW x \in stream', NEW y \in landed', y.rec = x.rec, x.rec.run # 0
                 PROVE  y.copy < x.copy
      OBVIOUS
    <3>1. CASE x \in left
      <4>1. x \in stream /\ x.rec # s.rec
        BY <2>1, <3>1
      <4>2. y \in landed
        BY <1>1, <1>7, <4>1
      <4> QED BY <4>1, <4>2 DEF GateInv, OnceInv
    <3>2. CASE x = t
      <4>1. CASE y \in landed
        <5>1. y.copy < s.copy /\ y.copy \in Nat
          BY <1>8, <2>2, <3>2, <4>1
        <5> QED BY <1>6, <1>8, <3>2, <5>1
      <4>2. CASE y = l
        BY <1>6, <1>7, <1>8, <3>2, <4>2
      <4> QED BY <1>1, <4>1, <4>2
    <3> QED BY <1>2, <3>1, <3>2
  <2>6. ASSUME NEW p \in ToolObjects, RecOf(p) = RecOf(o), p.copy = o.copy, o.run # 0 PROVE FALSE
    <3>1. [rec |-> RecOf(p), copy |-> p.copy] \in landed
      BY DEF GateInv, FlowInv
    <3>2. l \in landed
      BY <1>5, <2>6, <3>1 DEF l
    <3> QED BY <1>5, <1>6, <1>7, <2>2, <2>6, <3>2
  <2>7. \A p : RecOf(p).run = p.run
    BY DEF RecOf
  <2>8. \A x, y \in ToolObjects' : RecOf(x) = RecOf(y) /\ x.copy = y.copy /\ x.run # 0 => x = y
    <3> SUFFICES ASSUME NEW x \in ToolObjects', NEW y \in ToolObjects',
                        RecOf(x) = RecOf(y), x.copy = y.copy, x.run # 0
                 PROVE  x = y
      OBVIOUS
    <3>1. y.run = x.run
      BY <2>7
    <3>2. CASE x \in ToolObjects /\ y \in ToolObjects
      BY <3>2 DEF GateInv, OnceInv
    <3>3. CASE x \in ToolObjects /\ y = o
      BY <2>6, <3>1, <3>3
    <3>4. CASE x = o /\ y \in ToolObjects
      BY <2>6, <3>1, <3>4
    <3> QED BY <1>10, <3>2, <3>3, <3>4
  <2> QED BY <2>3, <2>4, <2>5, <2>8 DEF OnceInv
<1>15. CleanupInv'
  <2>1. \A x \in listed' : x.residue
    BY <1>1, <1>5 DEF GateInv, CleanupInv
  <2>2. \A x \in ToolObjects' : x.dt \in cleaned' => x.residue
    BY <1>1, <1>5, <1>10 DEF GateInv, CleanupInv, ResidueIsLate
  <2> QED BY <2>1, <2>2 DEF CleanupInv, ResidueIsLate
<1> QED BY <1>3, <1>11, <1>13, <1>14, <1>15 DEF GateInv

-----------------------------------------------------------------------------
(***************************************************************************)
(* The load generator.                                                     *)
(***************************************************************************)

LEMMA NoManifestIs == DOMAIN NoManifest = {"run", "day", "counts", "total"}
BY DEF NoManifest

LEMMA StartKeeps == ASSUME GateInv, Start PROVE GateInv'
<1>1. /\ UNCHANGED <<gate, run, listed, query, day, collector, cwl, stream, lake, accepted, landed,
                     passed, cleaned>>
      /\ pc = "start" /\ plans' = build_plans(gate[run]) /\ answers' = <<>>
  BY DEF Start, pipeline, history
<1>2. pc' \in {"red", "post"} /\ polls' \in 0..PollBudget
  BY PollsStay DEF Start, Exit1, Goto
<1>3. DOMAIN manifest' = {"run", "day", "counts", "total"}
  BY NoManifestIs DEF Start
<1>4. ArePlans(plans')
  <2>1. gate[run] \in Modes
    BY DEF GateInv, HarnessTypes
  <2> QED BY <1>1, <2>1, BuiltArePlans
<1>5. HarnessTypes'
  <2>1. ArePlans(plans)'
    BY <1>4 DEF ArePlans, IsRequest
  <2>2. Len(answers') = 0 /\ answers' \in Seq(Nat) /\ Len(plans') \in Nat
    BY <1>1, <1>4 DEF ArePlans
  <2> QED BY <1>1, <1>2, <1>3, <2>1, <2>2 DEF GateInv, HarnessTypes
<1>6. PipelineTypes'
  BY <1>1, SameTypes DEF GateInv, PipelineTypes
<1>7. RunsInv' /\ \A rec \in collector \cup cwl \cup accepted : rec.run # run
  BY <1>1, <1>2 DEF GateInv, RunsInv
<1>8. FlowInv' /\ OnceInv' /\ CleanupInv'
  BY <1>1, SameLake DEF GateInv, FlowInv, OnceInv, CleanupInv, ResidueIsLate
<1>9. SentInv'
  <2>1. DOMAIN answers' = {}
    BY <1>1
  <2> QED BY <1>1, <1>7, <2>1 DEF SentInv
<1>10. CountedInv' /\ RowsInv'
  BY <1>2 DEF CountedInv, RowsInv, Verifying
<1>11. VerdictInv'
  BY <1>1, <1>2, SameLossless DEF GateInv, VerdictInv
<1> QED BY <1>5, <1>6, <1>7, <1>8, <1>9, <1>10, <1>11 DEF GateInv

\* The records of a request carry its number, and the run id or none.
LEMMA CarriedFacts ==
  ASSUME GateInv, NEW i \in DOMAIN plans
  PROVE  /\ Carried(i) \subseteq Records /\ IsFiniteSet(Carried(i))
         /\ \A rec \in Carried(i) : rec.req = i /\ rec.run \in {0, run}
         /\ \A rec \in Carried(i) : rec.run = run => plans[i].kind = "valid"
<1>1. /\ i \in Nat /\ IsRequest(plans[i]) /\ run \in 0..Len(gate) /\ run # 0 /\ 0 \in 0..Len(gate)
  BY DEF GateInv, HarnessTypes, ArePlans
<1> DEFINE q == plans[i]
           n == Len(q.specs)
           f == [p \in 1..n |-> [run |-> run, req |-> i, pos |-> p, ev |-> q.specs[p].ev]]
<1>2. n \in Nat /\ DOMAIN q.specs = 1..n /\ \A p \in 1..n : q.specs[p].ev \in Events
  BY <1>1 DEF IsRequest
<1>3. CASE q.kind = "valid"
  <2>1. Carried(i) = {f[p] : p \in 1..n}
    <3>1. Carried(i) = {[run |-> run, req |-> i, pos |-> p, ev |-> q.specs[p].ev] : p \in 1..n}
      BY <1>2, <1>3, CarriedIs
    <3>2. \A p \in 1..n : f[p] = [run |-> run, req |-> i, pos |-> p, ev |-> q.specs[p].ev]
      OBVIOUS
    <3> HIDE DEF f, n
    <3> QED BY <3>1, <3>2
  <2>2. \A p \in 1..n : f[p] \in Records /\ f[p].req = i /\ f[p].run = run
    BY <1>1, <1>2 DEF Records
  <2> HIDE DEF f
  <2>3. f \in Surjection(1..n, Carried(i))
    BY <2>1 DEF Surjection, f
  <2>4. IsFiniteSet(1..n)
    BY <1>2, FS_Interval
  <2>5. IsFiniteSet(Carried(i))
    BY <2>3, <2>4, FS_Surjection
  <2> QED BY <1>3, <2>1, <2>2, <2>5
<1>4. CASE q.kind # "valid"
  <2> DEFINE r == [run |-> 0, req |-> i, pos |-> 1, ev |-> q.kind]
  <2>1. Carried(i) = {} \/ Carried(i) = {r}
    BY <1>4 DEF Carried
  <2>2. q.kind \in Events
    BY <1>1, <1>4 DEF IsRequest, Kinds, Modes, Events
  <2>3. r \in Records /\ r.req = i /\ r.run = 0
    BY <1>1, <2>2 DEF Records
  <2> HIDE DEF r
  <2>4. IsFiniteSet({}) /\ IsFiniteSet({r})
    BY FS_EmptySet, FS_Singleton
  <2> QED BY <1>1, <1>4, <2>1, <2>3, <2>4
<1> QED BY <1>3, <1>4

LEMMA StatusIs ==
  ASSUME NEW q, IsRequest(q), NEW a \in Answers(q)
  PROVE  a.status \in Nat
<1>1. q.kind \in Kinds
  BY DEF IsRequest
<1>2. Refusals(q) \subseteq Nat
  BY <1>1 DEF Refusals, Kinds
<1> DEFINE R == Refusals(q)
<1> HIDE DEF R
<1>3. a \in {[status |-> s, taken |-> FALSE] : s \in R \cup {0}} \cup
              {[status |-> 200, taken |-> TRUE], [status |-> 0, taken |-> TRUE]}
  BY DEF Answers, R
<1> QED BY <1>2, <1>3 DEF R

LEMMA SendKeeps == ASSUME GateInv, Send PROVE GateInv'
<1> DEFINE i == Len(answers) + 1
<1>1. PICK a \in Answers(plans[i]) :
         /\ answers' = Append(answers, a.status)
         /\ collector' = IF a.taken THEN collector \cup Carried(i) ELSE collector
         /\ accepted' = IF a.status = 200 THEN accepted \cup Carried(i) ELSE accepted
  BY DEF Send
<1>2. /\ UNCHANGED <<gate, run, pc, plans, manifest, polls, query, fails, listed, day, cwl, stream, lake,
                     landed, passed, cleaned>>
      /\ pc = "post" /\ Len(answers) < Len(plans)
  BY DEF Send, verifier
<1>3. /\ Len(answers) \in Nat /\ Len(plans) \in Nat /\ DOMAIN plans = 1..Len(plans)
      /\ answers \in Seq(Nat) /\ DOMAIN answers = 1..Len(answers)
      /\ \A j \in DOMAIN plans : IsRequest(plans[j])
  BY DEF GateInv, HarnessTypes, ArePlans
<1>4. i \in DOMAIN plans /\ i \notin DOMAIN answers
  BY <1>2, <1>3
<1>5. a.status \in Nat
  BY <1>1, <1>3, <1>4, StatusIs
<1>6. /\ answers' \in Seq(Nat) /\ Len(answers') = i /\ answers'[i] = a.status
      /\ DOMAIN answers' = DOMAIN answers \cup {i} /\ \A j \in DOMAIN answers : answers'[j] = answers[j]
  <2>1. answers' \in Seq(Nat) /\ Len(answers') = Len(answers) + 1 /\ DOMAIN answers' = 1..(Len(answers) + 1)
    BY <1>1, <1>3, <1>5
  <2>2. answers'[i] = a.status /\ \A j \in DOMAIN answers : answers'[j] = answers[j]
    BY <1>1, <1>3, <1>5
  <2> QED BY <1>3, <2>1, <2>2
<1> DEFINE K == Carried(i)
<1>7. /\ K \subseteq Records /\ IsFiniteSet(K)
      /\ \A rec \in K : rec.req = i /\ rec.run \in {0, run} /\ (rec.run = run => plans[i].kind = "valid")
  BY <1>4, CarriedFacts
<1>8. /\ collector' \subseteq collector \cup K /\ accepted \subseteq accepted'
      /\ accepted' \subseteq accepted \cup K
      /\ a.status = 200 => accepted' = accepted \cup K
      /\ a.status # 200 => accepted' = accepted
  BY <1>1
<1>9. run \in Nat /\ run # 0 /\ run \notin passed /\ 0 \notin passed
  BY <1>2 DEF GateInv, HarnessTypes, RunsInv
<1>10. ASSUME NEW rec \in collector \cup cwl \cup accepted, rec.run = run PROVE rec \notin K
  <2>1. PICK j \in DOMAIN answers : plans[j].kind = "valid" /\ rec \in Carried(j)
    BY <1>2, <1>10 DEF GateInv, SentInv, Active
  <2>2. j \in DOMAIN plans /\ j # i
    BY <1>2, <1>3, <1>4
  <2>3. rec.req = j
    BY <2>1, <2>2, CarriedFacts
  <2> QED BY <1>7, <2>2, <2>3
<1> HIDE DEF K, i
<1>11. HarnessTypes'
  <2>1. Len(answers') <= Len(plans')
    BY <1>2, <1>3, <1>4, <1>6
  <2>2. ArePlans(plans)'
    BY <1>2 DEF GateInv, HarnessTypes
  <2> QED BY <1>2, <1>6, <2>1, <2>2 DEF GateInv, HarnessTypes
<1>12. PipelineTypes'
  <2>1. IsFiniteSet(accepted')
    <3>1. IsFiniteSet(accepted) /\ IsFiniteSet(K)
      BY <1>7 DEF GateInv, PipelineTypes
    <3>2. IsFiniteSet(accepted \cup K)
      BY <3>1, FS_Union
    <3> QED BY <1>8, <3>1, <3>2
  <2> QED BY <1>2, <1>7, <1>8, <2>1, SameTypes DEF GateInv, PipelineTypes
<1>13. RunsInv'
  BY <1>2, <1>7, <1>8 DEF GateInv, RunsInv
<1>14. FlowInv' /\ CleanupInv'
  BY <1>2, SameLake DEF GateInv, FlowInv, CleanupInv, ResidueIsLate
<1>15. OnceInv'
  <2>1. \A rec \in collector' : rec.run # 0 => rec \notin cwl'
    BY <1>2, <1>7, <1>8, <1>10 DEF GateInv, OnceInv
  <2> QED BY <1>2, <2>1, SameLake DEF GateInv, OnceInv
<1>16. SentInv'
  <2>1. pc \in Active
    BY <1>2 DEF Active
  <2>2. \A j : Carried(j)' = Carried(j)
    BY <1>2, SameCarried
  <2>3. ASSUME NEW rec \in collector' \cup cwl \cup accepted', rec.run = run
        PROVE  \E j \in DOMAIN answers' : /\ plans[j].kind = "valid" /\ rec \in Carried(j)
                                          /\ rec \in accepted' => answers'[j] = 200
    <3>1. CASE rec \in K
      <4>1. plans[i].kind = "valid" /\ rec \in Carried(i) /\ i \in DOMAIN answers'
        BY <1>6, <1>7, <2>3, <3>1 DEF K
      <4>2. rec \notin accepted
        BY <1>10, <2>3, <3>1
      <4>3. rec \in accepted' => answers'[i] = 200
        BY <1>6, <1>8, <4>2
      <4> QED BY <4>1, <4>3
    <3>2. CASE rec \notin K
      <4>1. rec \in collector \cup cwl \cup accepted /\ (rec \in accepted' => rec \in accepted)
        BY <1>8, <2>3, <3>2
      <4>2. PICK j \in DOMAIN answers : /\ plans[j].kind = "valid" /\ rec \in Carried(j)
                                        /\ rec \in accepted => answers[j] = 200
        BY <2>1, <2>3, <4>1 DEF GateInv, SentInv
      <4> QED BY <1>6, <4>1, <4>2
    <3> QED BY <3>1, <3>2
  <2>4. ASSUME NEW j \in DOMAIN answers', plans[j].kind = "valid", answers'[j] = 200
        PROVE  Carried(j) \subseteq accepted'
    <3>1. CASE j = i
      BY <1>6, <1>8, <2>4, <3>1 DEF K
    <3>2. CASE j # i
      <4>1. j \in DOMAIN answers /\ answers[j] = 200
        BY <1>6, <2>4, <3>2
      <4> QED BY <1>8, <2>1, <2>4, <4>1 DEF GateInv, SentInv
    <3> QED BY <3>1, <3>2
  <2> QED BY <1>2, <2>1, <2>2, <2>3, <2>4 DEF SentInv
<1>17. CountedInv' /\ RowsInv'
  BY <1>2 DEF CountedInv, RowsInv, Verifying
<1>18. VerdictInv'
  <2> SUFFICES ASSUME NEW r \in passed PROVE Lossless(r)'
    BY <1>2 DEF VerdictInv
  <2>1. Lossless(r) /\ r # run /\ r # 0
    BY <1>9 DEF GateInv, VerdictInv
  <2>2. CASE Doubled(r)
    <3>1. Doubled(r)'
      BY <1>2, <2>2 DEF Doubled
    <3> QED BY <3>1 DEF Lossless
  <2>3. CASE ~Doubled(r)
    <3>1. \A rec \in accepted : rec.run = r => [rec |-> rec, copy |-> 1] \in landed
      BY <2>1, <2>3 DEF Lossless
    <3>2. \A rec \in accepted' : rec.run = r => rec \in accepted
      BY <1>7, <1>8, <2>1
    <3> QED BY <1>2, <3>1, <3>2 DEF Lossless
  <2> QED BY <2>2, <2>3
<1> QED BY <1>11, <1>12, <1>13, <1>14, <1>15, <1>16, <1>17, <1>18 DEF GateInv

LEMMA WriteManifestKeeps == ASSUME GateInv, WriteManifest PROVE GateInv'
<1>1. /\ UNCHANGED <<gate, run, plans, answers, listed, query, day, collector, cwl, stream, lake, accepted,
                     landed, passed, cleaned>>
      /\ pc = "post" /\ Len(answers) = Len(plans)
  BY DEF WriteManifest, pipeline, history
<1>2. polls' \in 0..PollBudget /\ pc' \in {"cwl", "red"} /\ (pc' = "cwl" => \A i \in DOMAIN plans : RequestOk(i))
  BY PollsStay DEF WriteManifest, Exit1, Goto
<1> DEFINE counts == CountsByEvent(Counted)
           total == Cardinality(Counted)
<1>3. manifest' = [manifest EXCEPT !.counts = counts, !.total = total]
  BY DEF WriteManifest
<1> HIDE DEF counts, total
<1>4. DOMAIN manifest' = {"run", "day", "counts", "total"} /\ manifest'.counts = counts
  BY <1>3 DEF GateInv, HarnessTypes
<1>5. HarnessTypes'
  BY <1>1, <1>2, <1>4 DEF GateInv, HarnessTypes
<1>6. PipelineTypes'
  BY <1>1, SameTypes DEF GateInv, PipelineTypes
<1>7. RunsInv'
  BY <1>1, <1>2 DEF GateInv, RunsInv
<1>8. FlowInv' /\ OnceInv' /\ CleanupInv'
  BY <1>1, SameLake DEF GateInv, FlowInv, OnceInv, CleanupInv, ResidueIsLate
<1>9. SentInv'
  BY <1>1, SameCarried DEF GateInv, SentInv, Active
<1>10. CountedInv'
  <2>1. pc' \in Verifying => pc' = "cwl"
    BY <1>2 DEF Verifying
  <2>2. Counted' = Counted /\ \A i : RequestOk(i)' <=> RequestOk(i)
    BY <1>1, SameCounted
  <2> QED BY <1>1, <1>2, <1>4, <2>1, <2>2 DEF CountedInv, counts
<1>11. RowsInv'
  BY <1>2 DEF RowsInv
<1>12. VerdictInv'
  BY <1>1, <1>2, SameLossless DEF GateInv, VerdictInv
<1> QED BY <1>5, <1>6, <1>7, <1>8, <1>9, <1>10, <1>11, <1>12 DEF GateInv

-----------------------------------------------------------------------------
(***************************************************************************)
(* The clean-up and the verdict.                                           *)
(***************************************************************************)

\* An object S3 did not delete.
Marked(o) == [o EXCEPT !.residue = TRUE]

LEMMA MarkedIs ==
  ASSUME NEW o \in Objects
  PROVE  /\ Marked(o) \in Objects /\ Marked(o).residue /\ RecOf(Marked(o)) = RecOf(o)
         /\ Marked(o).tool = o.tool /\ Marked(o).copy = o.copy /\ Marked(o).run = o.run
         /\ Marked(o).dt = o.dt
         /\ [Marked(o) EXCEPT !.residue = o.residue] = o
<1> DEFINE m == Marked(o)
<1>1. /\ m.tool = o.tool /\ m.copy = o.copy /\ m.run = o.run /\ m.req = o.req /\ m.pos = o.pos
      /\ m.ev = o.ev /\ m.dt = o.dt /\ m.residue = TRUE
  BY DEF Marked, Objects
<1>2. m \in Objects
  BY DEF Marked, Objects
<1>3. [m EXCEPT !.residue = o.residue] = o
  BY DEF Marked, Objects
<1> HIDE DEF m
<1>4. RecOf(m) = RecOf(o)
  BY <1>1 DEF RecOf
<1>5. m.residue
  BY <1>1
<1> QED BY <1>1, <1>2, <1>3, <1>4, <1>5 DEF m

\* A page is of the tool and of the day the run started on; what S3 keeps of it is marked.
LEMMA DeletePageIs ==
  ASSUME GateInv, DeletePage
  PROVE  \E page \in SUBSET (DatePartition(manifest.day) \ listed) : \E kept \in SUBSET page :
           /\ lake' = (lake \ page) \cup {Marked(o) : o \in kept}
           /\ \/ /\ page = DatePartition(manifest.day) \ listed
                 /\ Goto("verdict", {}) /\ listed' = {} /\ cleaned' = cleaned \cup {manifest.day}
              \/ /\ listed' = listed \cup {Marked(o) : o \in kept}
                 /\ UNCHANGED <<pc, fails, polls, cleaned>>
BY DEF DeletePage, Marked

LEMMA DeletePageKeeps == ASSUME GateInv, DeletePage PROVE GateInv'
<1> DEFINE todo == DatePartition(manifest.day) \ listed
<1>1. PICK page \in SUBSET todo : \E kept \in SUBSET page :
           /\ lake' = (lake \ page) \cup {Marked(o) : o \in kept}
           /\ \/ /\ page = todo
                 /\ Goto("verdict", {}) /\ listed' = {} /\ cleaned' = cleaned \cup {manifest.day}
              \/ /\ listed' = listed \cup {Marked(o) : o \in kept}
                 /\ UNCHANGED <<pc, fails, polls, cleaned>>
  BY DeletePageIs
<1>2. PICK kept \in SUBSET page :
           /\ lake' = (lake \ page) \cup {Marked(o) : o \in kept}
           /\ \/ /\ page = todo
                 /\ Goto("verdict", {}) /\ listed' = {} /\ cleaned' = cleaned \cup {manifest.day}
              \/ /\ listed' = listed \cup {Marked(o) : o \in kept}
                 /\ UNCHANGED <<pc, fails, polls, cleaned>>
  BY <1>1
<1>3. /\ UNCHANGED <<gate, run, plans, answers, manifest, query, day, collector, cwl, stream, accepted, landed,
                     passed>>
      /\ pc = "cleanup"
  BY DEF DeletePage, cleanupStays
<1>4. /\ pc' \in {"cleanup", "verdict"} /\ polls' \in 0..PollBudget /\ (fails' = {} => fails = {})
  BY <1>2, <1>3, PollsStay DEF Goto
<1>5. todo \subseteq ToolObjects /\ ToolObjects \subseteq lake /\ lake \subseteq Objects
  BY DEF DatePartition, ToolObjects, GateInv, PipelineTypes
<1>6. kept \subseteq page /\ page \subseteq todo
  BY <1>1, <1>2
<1>7. \A x \in lake' : (x \in lake /\ x \notin page) \/ \E o \in kept : x = Marked(o)
  BY <1>2
<1>8. \A x \in ToolObjects' : (x \in ToolObjects /\ x \notin page) \/ \E o \in kept : x = Marked(o)
  BY <1>7 DEF ToolObjects
<1>9. \A o \in kept : o \in page /\ o \in ToolObjects /\ o \in Objects
  BY <1>5, <1>6
<1> HIDE DEF todo
<1>10. HarnessTypes'
  BY <1>3, <1>4 DEF GateInv, HarnessTypes
<1>11. PipelineTypes'
  <2>1. lake' \subseteq Objects
    BY <1>5, <1>7, <1>9, MarkedIs
  <2> QED BY <1>3, <2>1, SameTypes DEF GateInv, PipelineTypes
<1>12. RunsInv'
  BY <1>3, <1>4 DEF GateInv, RunsInv
<1>13. FlowInv'
  <2>1. ASSUME NEW x \in ToolObjects' PROVE [rec |-> RecOf(x), copy |-> x.copy] \in landed
    <3>1. CASE x \in ToolObjects
      BY <3>1 DEF GateInv, FlowInv
    <3>2. CASE x \notin ToolObjects
      <4>1. PICK o \in kept : x = Marked(o)
        BY <1>8, <3>2
      <4>2. RecOf(x) = RecOf(o) /\ x.copy = o.copy /\ o \in ToolObjects
        BY <1>9, <4>1, MarkedIs
      <4>3. [rec |-> RecOf(o), copy |-> o.copy] \in landed
        BY <4>2 DEF GateInv, FlowInv
      <4> QED BY <4>2, <4>3
    <3> QED BY <3>1, <3>2
  <2> QED BY <1>3, <2>1 DEF GateInv, FlowInv
<1>14. OnceInv'
  <2>1. ASSUME NEW x \in ToolObjects'
        PROVE  \E o \in ToolObjects : /\ RecOf(o) = RecOf(x) /\ o.copy = x.copy /\ o.run = x.run
                                      /\ \/ x = o /\ o \notin page
                                         \/ x = Marked(o) /\ o \in page
    <3>1. CASE x \in ToolObjects /\ x \notin page
      BY <3>1
    <3>2. CASE ~(x \in ToolObjects /\ x \notin page)
      <4>1. PICK o \in kept : x = Marked(o)
        BY <1>8, <3>2
      <4>2. RecOf(x) = RecOf(o) /\ x.copy = o.copy /\ x.run = o.run /\ o \in ToolObjects /\ o \in page
        BY <1>9, <4>1, MarkedIs
      <4> QED BY <4>1, <4>2
    <3> QED BY <3>1, <3>2
  <2>2. ASSUME NEW x \in ToolObjects', NEW y \in ToolObjects', RecOf(x) = RecOf(y), x.copy = y.copy, x.run # 0
        PROVE  x = y
    <3>1. PICK o \in ToolObjects : /\ RecOf(o) = RecOf(x) /\ o.copy = x.copy /\ o.run = x.run
                                   /\ \/ x = o /\ o \notin page
                                      \/ x = Marked(o) /\ o \in page
      BY <2>1
    <3>2. PICK p \in ToolObjects : /\ RecOf(p) = RecOf(y) /\ p.copy = y.copy /\ p.run = y.run
                                   /\ \/ y = p /\ p \notin page
                                      \/ y = Marked(p) /\ p \in page
      BY <2>1
    <3>3. o = p
      BY <2>2, <3>1, <3>2 DEF GateInv, OnceInv
    <3> QED BY <3>1, <3>2, <3>3
  <2>3. \A x, y \in ToolObjects' : RecOf(x) = RecOf(y) /\ x.copy = y.copy /\ x.run # 0 => x = y
    BY <2>2
  <2> QED BY <1>3, <2>3 DEF GateInv, OnceInv
<1>15. SentInv'
  BY <1>3, SameCarried DEF GateInv, SentInv, Active, Verifying
<1>16. CountedInv'
  BY <1>3, SameCounted DEF GateInv, CountedInv, Verifying
<1>17. RowsInv'
  BY <1>4 DEF RowsInv
<1>18. VerdictInv'
  BY <1>3, <1>4, SameLossless DEF GateInv, VerdictInv
<1>19. CleanupInv'
  <2>1. \A o \in kept : Marked(o).residue
    BY <1>9, MarkedIs
  <2>2. \A x \in listed' : x.residue
    BY <1>2, <2>1 DEF GateInv, CleanupInv
  <2>3. ASSUME NEW x \in ToolObjects', x.dt \in cleaned' PROVE x.residue
    <3>1. CASE x \in ToolObjects /\ x \notin page
      <4>1. CASE x.dt \in cleaned
        BY <3>1, <4>1 DEF GateInv, CleanupInv, ResidueIsLate
      <4>2. CASE x.dt \notin cleaned
        <5>1. page = todo /\ x.dt = manifest.day
          BY <1>2, <2>3, <4>2
        <5>2. x \in listed
          BY <3>1, <5>1 DEF todo, DatePartition
        <5> QED BY <5>2 DEF GateInv, CleanupInv
      <4> QED BY <4>1, <4>2
    <3>2. CASE ~(x \in ToolObjects /\ x \notin page)
      BY <1>8, <2>1, <3>2
    <3> QED BY <3>1, <3>2
  <2> QED BY <2>2, <2>3 DEF CleanupInv, ResidueIsLate
<1> QED BY <1>10, <1>11, <1>12, <1>13, <1>14, <1>15, <1>16, <1>17, <1>18, <1>19 DEF GateInv

LEMMA VerdictKeeps == ASSUME GateInv, Verdict PROVE GateInv'
<1>1. /\ UNCHANGED <<gate, plans, answers, manifest, query, listed, day, collector, cwl, stream, lake, accepted,
                     landed, cleaned>>
      /\ pc = "verdict" /\ polls' \in 0..PollBudget
  BY PollsStay DEF Verdict, pipeline
<1>2. CASE fails # {}
  <2>1. Quiet /\ pc' = "red"
    BY <1>1, <1>2 DEF Verdict, Quiet
  <2> QED BY <1>1, <2>1, PollsStay, VerifierKeeps DEF Verifying
<1>3. CASE fails = {}
  <2>1. /\ passed' = passed \cup {run}
        /\ \/ run = Len(gate) /\ pc' = "green" /\ run' = run
           \/ run # Len(gate) /\ pc' = "start" /\ run' = run + 1
    BY <1>3 DEF Verdict
  <2>2. /\ run \in Nat /\ Len(gate) \in Nat /\ run \in 1..Len(gate) /\ passed \subseteq 1..run
        /\ \A rec \in collector \cup cwl \cup accepted : rec.run \in passed \cup {0, run}
    BY DEF GateInv, HarnessTypes, RunsInv
  <2>3. run' \in 1..Len(gate) /\ passed' \subseteq 1..run'
    BY <2>1, <2>2
  <2>4. HarnessTypes'
    BY <1>1, <2>3 DEF GateInv, HarnessTypes
  <2>5. PipelineTypes'
    BY <1>1, SameTypes DEF GateInv, PipelineTypes
  <2>6. RunsInv'
    <3>1. run' \in passed' => pc' = "green"
      BY <2>1, <2>2
    <3>2. ASSUME NEW rec \in collector \cup cwl \cup accepted
          PROVE  rec.run \in passed' \cup {0, run'} /\ (pc' \in {"guard", "start"} => rec.run # run')
      BY <2>1, <2>2
    <3> QED BY <1>1, <2>3, <3>1, <3>2 DEF RunsInv
  <2>7. FlowInv' /\ OnceInv' /\ CleanupInv'
    BY <1>1, SameLake DEF GateInv, FlowInv, OnceInv, CleanupInv, ResidueIsLate
  <2>8. SentInv' /\ CountedInv' /\ RowsInv'
    BY <2>1 DEF SentInv, CountedInv, RowsInv, Active, Verifying
  <2>9. VerdictInv'
    <3>1. \A r \in passed' : Lossless(r)
      BY <1>1, <1>3, <2>1 DEF GateInv, VerdictInv
    <3> QED BY <1>1, <2>1, <3>1, SameLossless DEF VerdictInv
  <2> QED BY <2>4, <2>5, <2>6, <2>7, <2>8, <2>9 DEF GateInv
<1> QED BY <1>2, <1>3

-----------------------------------------------------------------------------
(***************************************************************************)
(* The theorems of the gate.                                               *)
(***************************************************************************)

LEMMA InitHolds == ASSUME Init PROVE GateInv
<1>1. PICK d \in Deployments : gate = d.gate /\ pc = IF d.guard THEN "guard" ELSE "start"
  BY DEF Init
<1>2. gate \in Seq(Modes) /\ gate # <<>> /\ pc \in {"guard", "start"}
  BY <1>1, GatesAssumption
<1>3. Len(gate) \in Nat /\ Len(gate) # 0 /\ PollBudget \in Nat /\ MaxDay \in Nat /\ MaxCopies \in Nat \ {0}
  BY <1>2, BoundsAssumption
<1>4. HarnessTypes
  <2>1. run = 1 /\ polls = PollBudget /\ query.state = "none" /\ manifest = NoManifest
    BY NoQueryIs DEF Init
  <2>2. ArePlans(plans) /\ answers \in Seq(Nat) /\ Len(answers) <= Len(plans)
    <3>1. plans = <<>> /\ answers = <<>>
      BY DEF Init
    <3>2. Len(plans) = 0 /\ DOMAIN plans = {} /\ DOMAIN plans = 1..0
      BY <3>1
    <3>3. ArePlans(plans)
      BY <3>2 DEF ArePlans
    <3> QED BY <3>1, <3>2, <3>3
  <2> QED BY <1>2, <1>3, <2>1, <2>2, NoManifestIs DEF HarnessTypes
<1>5. ToolObjects = {} /\ lake = {ProductionRow}
  BY DEF Init, ToolObjects, ProductionRow
<1>6. PipelineTypes
  <2>1. day = 0 /\ 0 \in 0..Len(gate) /\ 0 \in 0..day /\ 1 \in 1..MaxCopies
    BY <1>3 DEF Init
  <2>2. ProductionRow \in Objects
    BY <2>1 DEF Objects, ProductionRow
  <2>3. collector = {} /\ cwl = {} /\ accepted = {} /\ stream = {} /\ landed = {} /\ IsFiniteSet({})
    BY FS_EmptySet DEF Init
  <2> QED BY <1>3, <1>5, <2>1, <2>2, <2>3 DEF PipelineTypes
<1>7. RunsInv /\ FlowInv /\ OnceInv /\ CleanupInv
  BY <1>5 DEF Init, RunsInv, FlowInv, OnceInv, CleanupInv, ResidueIsLate
<1>8. SentInv /\ CountedInv /\ RowsInv
  BY <1>2 DEF SentInv, CountedInv, RowsInv, Active, Verifying
<1>9. VerdictInv
  BY <1>2 DEF Init, VerdictInv
<1> QED BY <1>4, <1>6, <1>7, <1>8, <1>9 DEF GateInv

LEMMA PipelineStepKeeps == ASSUME GateInv, Pipeline PROVE GateInv'
<1>1. ASSUME NEW rec \in collector, Drop(rec) PROVE GateInv'
  BY <1>1, LossKeeps DEF Drop
<1>2. ASSUME NEW s \in stream, FlushError(s) PROVE GateInv'
  BY <1>2, LossKeeps DEF FlushError
<1> QED BY <1>1, <1>2, ExportKeeps, FlushKeeps, MidnightKeeps DEF Pipeline

LEMMA NextKeeps == ASSUME GateInv, [Next]_vars PROVE GateInv'
<1>1. CASE Harness
  BY <1>1, check_queryability_Keeps, StartKeeps, SendKeeps, WriteManifestKeeps, check_cwl_Keeps,
     check_firehose_Keeps, check_s3_Keeps, check_s3_objects_Keeps, check_glue_Keeps, check_athena_Keeps,
     check_queryable_Keeps, check_reconcile_Keeps, check_embed_lambda_Keeps, CleanupImpossibleKeeps,
     DeletePageKeeps, VerdictKeeps, ApiErrorKeeps DEF Harness
<1> QED BY <1>1, AthenaSettlesKeeps, PipelineStepKeeps, StutterKeeps DEF Next

LEMMA Inductive == Spec => []GateInv
<1>1. Init => GateInv
  BY InitHolds
<1>2. GateInv /\ [Next]_vars => GateInv'
  BY NextKeeps
<1> QED BY <1>1, <1>2, PTL DEF Spec

\* Every variable of the gate keeps its type, whatever the services around it do.
THEOREM GateTypeCorrect == Spec => []TypeOK
<1>1. GateInv => TypeOK
  <2> SUFFICES ASSUME GateInv PROVE TypeOK
    OBVIOUS
  <2>1. \A o \in lake : o.copy \in 1..MaxCopies /\ o.dt \in 0..day
    BY DEF GateInv, PipelineTypes, Objects
  <2>2. passed \subseteq 1..Len(gate)
    BY DEF GateInv, RunsInv, HarnessTypes
  <2> QED BY <2>1, <2>2 DEF GateInv, HarnessTypes, PipelineTypes, TypeOK
<1> QED BY <1>1, Inductive, PTL

\* A run that e2e_verify.py passes lost none of the records the receiver acknowledged, unless
\* Firehose delivered one of the run's records more than once: the reconciliation compares the
\* manifest with an Athena count of every copy.
THEOREM GreenLostNothing == Spec => []GreenRunLostNothing
<1>1. GateInv => GreenRunLostNothing
  BY DEF GateInv, VerdictInv, Lossless, Doubled, GreenRunLostNothing
<1> QED BY <1>1, Inductive, PTL

\* The paged deletion of _delete_prefix reaches every object of the date that was there when its
\* listing began: what remains under a cleaned date arrived after that, or was refused by S3.
THEOREM ResidueCameLate == Spec => []ResidueIsLate
<1>1. GateInv => ResidueIsLate
  BY DEF GateInv, CleanupInv
<1> QED BY <1>1, Inductive, PTL

\* Only the clean-up removes objects, and only synthetic ones of the day the run started on,
\* of a run that passed, of this one, or without a run id (_cleanup_run_objects).
THEOREM CleanupIsOwn == Spec => CleanupTouchesOwnData
<1> DEFINE Own == \A o \in lake : (~ \E p \in lake' : [p EXCEPT !.residue = o.residue] = o) =>
                    /\ o.tool = "e2e-smoke"
                    /\ o.dt = manifest.day
                    /\ o.run \in passed \cup {0, run}
<1>1. ASSUME GateInv, [Next]_vars PROVE [Own]_vars
  <2>1. \A o \in lake : [o EXCEPT !.residue = o.residue] = o
    BY <1>1 DEF GateInv, PipelineTypes, Objects
  <2>2. CASE lake \subseteq lake'
    BY <2>1, <2>2
  <2>3. CASE DeletePage
    <3>1. PICK page \in SUBSET (DatePartition(manifest.day) \ listed) :
            \E kept \in SUBSET page : lake' = (lake \ page) \cup {Marked(o) : o \in kept}
      BY <1>1, <2>3, DeletePageIs
    <3>2. PICK kept \in SUBSET page : lake' = (lake \ page) \cup {Marked(o) : o \in kept}
      BY <3>1
    <3>3. ASSUME NEW o \in lake, ~ \E p \in lake' : [p EXCEPT !.residue = o.residue] = o
          PROVE  o.tool = "e2e-smoke" /\ o.dt = manifest.day /\ o.run \in passed \cup {0, run}
      <4>1. o \in page
        BY <2>1, <3>2, <3>3
      <4>2. o \in ToolObjects /\ o.dt = manifest.day /\ o.tool = "e2e-smoke"
        BY <4>1 DEF DatePartition, ToolObjects
      <4> DEFINE l == [rec |-> RecOf(o), copy |-> o.copy]
      <4>3. l \in landed /\ l.rec = RecOf(o)
        BY <1>1, <4>2 DEF GateInv, FlowInv
      <4> HIDE DEF l
      <4>4. RecOf(o) \in cwl /\ RecOf(o).run = o.run
        BY <1>1, <4>3 DEF GateInv, FlowInv, RecOf
      <4> QED BY <1>1, <4>2, <4>4 DEF GateInv, RunsInv
    <3> QED BY <3>3
  <2>4. CASE ~DeletePage
    <3>1. lake \subseteq lake' \/ UNCHANGED vars
      BY <1>1, <2>4 DEF Next, Harness, AthenaSettles, Pipeline, Export, Drop, Flush, FlushError, Midnight,
        check_queryability, Start, Send, WriteManifest, check_cwl, check_firehose, check_s3, check_s3_objects,
        check_glue, check_athena, check_queryable, check_reconcile, check_embed_lambda, CleanupImpossible,
        Verdict, ApiError, verifierStays, pipeline
    <3> QED BY <2>2, <3>1
  <2> QED BY <2>3, <2>4
<1> QED BY <1>1, Inductive, PTL DEF Spec, CleanupTouchesOwnData

-----------------------------------------------------------------------------
(***************************************************************************)
(* ToolInstall, for any list of different tools, any way to provision     *)
(* them, any pins and any number of interruptions.  Its variables are      *)
(* its own: the jobs of the gate run make tools-ensure, in setup-tools,    *)
(* before anything else.                                                   *)
(***************************************************************************)

\* The tools a run is through with report their pins: no later step of the run touches them.
DoneBefore == step # "idle" =>
  \A i \in DOMAIN Tools : i < at /\ Method[Tools[i]] # "external" => Current(Tools[i])

\* Between two runs the next one starts with the first tool; during a run there is no outcome.
AtRest == IF step = "idle" THEN at = 1 ELSE outcome = "none"

\* The inductive invariant of ToolInstall.
ToolsInv == ToolTypeOK /\ AtRest /\ DoneBefore /\ ExitZeroReportsPins

LEMMA ToolFacts ==
  /\ Len(Tools) \in Nat \ {0} /\ DOMAIN Tools = 1..Len(Tools)
  /\ \A i \in DOMAIN Tools : Tools[i] \in Names
  /\ \A t \in Names : \E i \in DOMAIN Tools : t = Tools[i]
<1>1. Len(Tools) \in Nat /\ DOMAIN Tools = 1..Len(Tools) /\ Len(Tools) # 0
  BY ToolsAssumption
<1> QED BY <1>1 DEF Names

\* A step of the run on the files of the tool at hand.
Working ==
  /\ step' \in Steps \ {"idle"} /\ UNCHANGED <<pin, at, outcome, interruptions>> /\ step # "idle"
  /\ disk' \in [Names -> Files]
  /\ \A t \in Names \ {Tool} : disk'[t] = disk[t]

\* The other tools do not notice.
LEMMA WorkingKeeps ==
  ASSUME ToolsInv, Working
  PROVE  ToolsInv'
<1> USE DEF ToolsInv
<1>1. ToolTypeOK'
  BY DEF Working, ToolTypeOK
<1>2. AtRest' /\ ExitZeroReportsPins'
  BY DEF Working, AtRest, ExitZeroReportsPins
<1>3. DoneBefore'
  <2> SUFFICES ASSUME NEW i \in DOMAIN Tools, i < at, Method[Tools[i]] # "external"
               PROVE  Current(Tools[i])'
    BY DEF DoneBefore, Working
  <2>1. Tools[i] # Tool /\ Tools[i] \in Names
    BY ToolFacts, ToolsAssumption DEF Tool, ToolTypeOK
  <2>2. Current(Tools[i])
    BY DEF DoneBefore, Working
  <2>3. disk'[Tools[i]] = disk[Tools[i]] /\ pin' = pin
    BY <2>1 DEF Working
  <2> QED BY <2>2, <2>3 DEF Current, Found
<1> QED BY <1>1, <1>2, <1>3

\* The run goes on to the next tool when this one is as it should be.
LEMMA NextToolKeeps ==
  ASSUME ToolsInv, step # "idle", NextTool, UNCHANGED <<disk, interruptions>>,
         Method[Tool] # "external" => Current(Tool)
  PROVE  ToolsInv'
<1> USE ToolFacts DEF ToolsInv
<1>1. \A i \in DOMAIN Tools : i <= at /\ Method[Tools[i]] # "external" => Current(Tools[i])
  BY DEF DoneBefore, Tool, ToolTypeOK
<1>2. pin' = pin /\ \A t \in Names : Current(t) => Current(t)'
  BY DEF NextTool, Current, Found
<1>3. CASE at < Len(Tools)
  <2>1. at' = at + 1 /\ step' = "probe" /\ outcome' = outcome
    BY <1>3 DEF NextTool
  <2>2. ToolTypeOK'
    BY <1>2, <1>3, <2>1 DEF ToolTypeOK, Steps
  <2>3. AtRest' /\ ExitZeroReportsPins'
    BY <2>1 DEF AtRest, ExitZeroReportsPins
  <2>4. DoneBefore'
    BY <1>1, <1>2, <2>1 DEF DoneBefore, ToolTypeOK
  <2> QED BY <2>2, <2>3, <2>4
<1>4. CASE ~(at < Len(Tools))
  <2>1. at' = 1 /\ step' = "idle" /\ outcome' = "ok" /\ at = Len(Tools)
    BY <1>4 DEF NextTool, ToolTypeOK
  <2>2. ToolTypeOK'
    BY <1>2, <2>1 DEF ToolTypeOK, Steps
  <2>3. ExitZeroReportsPins'
    <3> SUFFICES ASSUME NEW t \in Managed PROVE Current(t)'
      BY DEF ExitZeroReportsPins, Current
    <3>1. PICK i \in DOMAIN Tools : t = Tools[i]
      BY DEF Managed
    <3>2. Current(t)
      BY <1>1, <2>1, <3>1 DEF Managed
    <3> QED BY <1>2, <3>2 DEF Managed
  <2> QED BY <2>1, <2>2, <2>3 DEF AtRest, DoneBefore
<1> QED BY <1>3, <1>4

LEMMA ExitOneKeeps ==
  ASSUME ToolsInv, ExitOne, UNCHANGED disk, interruptions' \in 0..MaxInterruptions
  PROVE  ToolsInv'
<1>1. ToolTypeOK'
  BY ToolFacts DEF ToolsInv, ExitOne, ToolTypeOK, Steps
<1> QED BY <1>1 DEF ToolsInv, ExitOne, AtRest, DoneBefore, ExitZeroReportsPins

\* Every step on the files stays with the tool at hand.
LEMMA WorkingSteps ==
  ASSUME ToolTypeOK,
         \/ Download \/ OpenTarget \/ CopyMember \/ MakeExecutable
         \/ Rmtree \/ Untar \/ UntarRest \/ Unlink \/ Symlink
  PROVE  Working
<1> USE DEF Proceed
<1>1. Tool \in Names /\ disk[Tool] \in Files /\ pin[Tool] \in 1..MaxPin
  BY ToolFacts DEF Tool, ToolTypeOK
<1>2. CASE Download
  BY <1>2 DEF Download, Working, Steps, ToolTypeOK, FirstExtractStep
<1>3. CASE OpenTarget
  BY <1>1, <1>3 DEF OpenTarget, Working, Steps, ToolTypeOK, Files
<1>4. CASE CopyMember
  BY <1>1, <1>4 DEF CopyMember, Working, Steps, ToolTypeOK, Files
<1>5. CASE MakeExecutable
  BY <1>1, <1>5 DEF MakeExecutable, Working, Steps, ToolTypeOK, Files
<1>6. CASE Rmtree
  <2>1. CASE disk' = [disk EXCEPT ![Tool].rest = FALSE] /\ Proceed("rmtree")
    BY <1>1, <1>6, <2>1 DEF Rmtree, Working, Steps, ToolTypeOK, Files
  <2>2. CASE disk' = [disk EXCEPT ![Tool].rest = FALSE, ![Tool].file = Absent] /\ Proceed("untar")
    BY <1>1, <1>6, <2>2 DEF Rmtree, Working, Steps, ToolTypeOK, Files
  <2> QED BY <1>6, <2>1, <2>2 DEF Rmtree
<1>7. CASE Untar
  BY <1>1, <1>7 DEF Untar, Working, Steps, ToolTypeOK, Files
<1>8. CASE UntarRest
  BY <1>1, <1>8 DEF UntarRest, Working, Steps, ToolTypeOK, Files
<1>9. CASE Unlink
  BY <1>1, <1>9 DEF Unlink, Working, Steps, ToolTypeOK, Files
<1>10. CASE Symlink
  BY <1>1, <1>10 DEF Symlink, Working, Steps, ToolTypeOK, Files
<1> QED BY <1>2, <1>3, <1>4, <1>5, <1>6, <1>7, <1>8, <1>9, <1>10

LEMMA ToolsInvHolds == EnsureSpec => []ToolsInv
<1>1. EnsureInit => ToolsInv
  <2> SUFFICES ASSUME EnsureInit PROVE ToolsInv
    OBVIOUS
  <2>1. ToolTypeOK
    BY ToolFacts, PinsAssumption DEF EnsureInit, ToolTypeOK, Files, Steps
  <2> QED BY <2>1 DEF ToolsInv, EnsureInit, AtRest, DoneBefore, ExitZeroReportsPins
<1>2. ToolsInv /\ [EnsureNext]_toolVars => ToolsInv'
  <2> SUFFICES ASSUME ToolsInv, [EnsureNext]_toolVars PROVE ToolsInv'
    OBVIOUS
  <2>0. ToolTypeOK /\ Tool \in Names
    BY ToolFacts DEF ToolsInv, ToolTypeOK, Tool
  <2>1. CASE StartRun
    <3>1. ToolTypeOK'
      BY <2>0, <2>1 DEF StartRun, ToolTypeOK, Steps
    <3>2. AtRest' /\ ExitZeroReportsPins'
      BY <2>1 DEF StartRun, AtRest, ExitZeroReportsPins
    <3>3. DoneBefore'
      BY <2>0, <2>1, ToolFacts DEF StartRun, ToolsInv, AtRest, DoneBefore
    <3> QED BY <3>1, <3>2, <3>3 DEF ToolsInv
  <2>2. CASE Probe
    <3>1. step # "idle" /\ UNCHANGED <<disk, interruptions>> /\ interruptions' \in 0..MaxInterruptions
      BY <2>0, <2>2 DEF Probe, ToolTypeOK
    <3>2. \/ NextTool /\ (Method[Tool] # "external" => Current(Tool))
          \/ ExitOne
          \/ \E s \in {"download", "goInstall"} : Proceed(s)
      BY <2>2 DEF Probe
    <3>3. ASSUME NEW s \in {"download", "goInstall"}, Proceed(s) PROVE Working
      BY <2>0, <3>1, <3>3 DEF Proceed, Working, Steps, ToolTypeOK
    <3> QED BY <3>1, <3>2, <3>3, NextToolKeeps, ExitOneKeeps, WorkingKeeps
  <2>3. CASE \/ Download \/ OpenTarget \/ CopyMember \/ MakeExecutable
             \/ Rmtree \/ Untar \/ UntarRest \/ Unlink \/ Symlink
    BY <2>0, <2>3, WorkingSteps, WorkingKeeps
  <2>4. CASE GoInstall
    <3>1. CASE GoBuilds
      <4>1. [file |-> pin[Tool], exec |-> TRUE, rest |-> TRUE, link |-> TRUE] \in Files
        BY <2>0 DEF ToolTypeOK, Files
      <4>2. /\ disk' = [disk EXCEPT ![Tool] = [file |-> pin[Tool], exec |-> TRUE, rest |-> TRUE, link |-> TRUE]]
            /\ step # "idle" /\ step' = "verify" /\ UNCHANGED <<pin, at, outcome, interruptions>>
        BY <2>4, <3>1 DEF GoInstall, Proceed
      <4>3. Working
        BY <2>0, <4>1, <4>2 DEF Working, Steps, ToolTypeOK
      <4> QED BY <4>3, WorkingKeeps
    <3>2. CASE ~GoBuilds
      BY <2>0, <2>4, <3>2, ExitOneKeeps DEF GoInstall, ToolTypeOK
    <3> QED BY <3>1, <3>2
  <2>5. CASE Verify
    <3>1. step # "idle" /\ UNCHANGED <<disk, interruptions>> /\ interruptions' \in 0..MaxInterruptions
      BY <2>0, <2>5 DEF Verify, ToolTypeOK
    <3> QED BY <2>5, <3>1, NextToolKeeps, ExitOneKeeps DEF Verify
  <2>6. CASE Interrupted
    <3>1. interruptions' \in 0..MaxInterruptions
      BY <2>0, <2>6, PinsAssumption DEF Interrupted, ToolTypeOK
    <3> QED BY <2>6, <3>1, ExitOneKeeps DEF Interrupted
  <2>7. ASSUME NEW t \in Names, RaisePin(t) PROVE ToolsInv'
    <3>1. pin' \in [Names -> 1..MaxPin]
      BY <2>0, <2>7, PinsAssumption DEF RaisePin, ToolTypeOK
    <3>2. ToolTypeOK'
      BY <2>0, <2>7, <3>1 DEF RaisePin, ToolTypeOK
    <3> QED BY <2>7, <3>2 DEF RaisePin, ToolsInv, AtRest, DoneBefore, ExitZeroReportsPins
  <2>8. CASE UNCHANGED toolVars
    BY <2>8 DEF toolVars, ToolsInv, ToolTypeOK, AtRest, DoneBefore, Current, Found, ExitZeroReportsPins
  <2> QED BY <2>1, <2>2, <2>3, <2>4, <2>5, <2>6, <2>7, <2>8 DEF EnsureNext, Run
<1> QED BY <1>1, <1>2, PTL DEF EnsureSpec

\* make tools-ensure: the pins, the files of every tool and the position of the run keep their
\* types.
THEOREM ToolTypeCorrect == EnsureSpec => []ToolTypeOK
<1>1. ToolsInv => ToolTypeOK
  BY DEF ToolsInv
<1> QED BY <1>1, ToolsInvHolds, PTL

\* Exit 0 of make tools-ensure means that the name of every tool leads to an executable of
\* the pinned version, whatever earlier, failed and killed runs left behind.
THEOREM ExitZeroIsPinned == EnsureSpec => []ExitZeroReportsPins
<1>1. ToolsInv => ExitZeroReportsPins
  BY DEF ToolsInv
<1> QED BY <1>1, ToolsInvHolds, PTL
=============================================================================
