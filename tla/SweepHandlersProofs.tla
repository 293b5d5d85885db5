------------------------ MODULE SweepHandlersProofs ------------------------
(***************************************************************************)
(* TLAPS proofs about SweepHandlers, for any number of sweeps and targets, *)
(* every assignment of kinds and parts and any number of faults.           *)
(***************************************************************************)
EXTENDS SweepHandlers, TLAPS

AllParts == UNION {PartsOf[r] : r \in Resources}
States   == {"live", "disabling", "disabled", "deleting", "gone"}
Handlers == [step : Steps, r : Resources \cup {"none"}, left : SUBSET AllParts, tok : Nat,
             named : BOOLEAN, met : BOOLEAN, blind : BOOLEAN, how : Outcomes,
             mode : {"delete", "check"}]

\* The account: a target is accepted for deletion after its parts only, a distribution alone
\* is disabled, a zone alone is delegated to.
AccountInv ==
  /\ fixture \in Fixtures /\ res \in [Resources -> States]
  /\ parts \in [Resources -> SUBSET AllParts] /\ \A r \in Resources : parts[r] \subseteq PartsOf[r]
  /\ delegated \subseteq {r \in Resources : Kind[r] = "zone"}
  /\ listed \subseteq fixture /\ version \in [Resources -> Nat]
  /\ \A r \in Resources :
       /\ res[r] \in {"deleting", "gone"} => parts[r] = {}
       /\ res[r] \in {"disabling", "disabled"} => Kind[r] = "distribution"
       /\ res[r] = "deleting" => Kind[r] \in {"key", "drained"}

\* The calls a sweep is about to make are those of its target's handler, and unless it met
\* another sweep the parts it has listed are still there.
OwnCalls(s) ==
  /\ h[s].step # "idle" => h[s].r \in fixture
  /\ h[s].left # {} <=> h[s].step = "parts"
  /\ h[s].step \in {"disable", "deploy", "refresh"} => Kind[h[s].r] = "distribution"
  /\ h[s].step = "schedule" => Kind[h[s].r] = "key"
  /\ h[s].step = "parent" => Kind[h[s].r] = "zone" /\ res[h[s].r] = "gone"
  /\ h[s].step = "parts" => h[s].left \subseteq PartsOf[h[s].r]
  /\ h[s].step = "parts" /\ ~Tolerant(Kind[h[s].r]) /\ ~h[s].met => h[s].left \subseteq parts[h[s].r]

\* The properties, for one sweep.
SaysTrue(s) ==
  /\ h[s].step = "answered" /\ h[s].how \in {"deleted", "scheduled"} =>
       \/ Kind[h[s].r] = "no_branch"
       \/ /\ res[h[s].r] \in {"deleting", "gone"} /\ parts[h[s].r] = {}
          /\ h[s].named => h[s].r \notin delegated
  /\ h[s].step = "answered" /\ h[s].how = "already-deleted" => res[h[s].r] = "gone" \/ h[s].met
  /\ h[s].step = "answered" /\ h[s].how = "excluded" =>
       res[h[s].r] \in {"deleting", "gone"} \/ h[s].blind

\* Two sweeps in handlers of one target know of each other.
Meet == \A s, q \in Sweeps : s # q /\ Busy(s) /\ Busy(q) /\ h[s].r = h[q].r => h[s].met

HandlerInv ==
  /\ AccountInv
  /\ h \in [Sweeps -> Handlers] /\ todo \in [Sweeps -> SUBSET fixture] /\ faults \in 0..MaxFaults
  /\ \A s \in Sweeps : OwnCalls(s) /\ SaysTrue(s)
  /\ Meet

-----------------------------------------------------------------------------
(***************************************************************************)
(* One sweep makes a call.                                                 *)
(***************************************************************************)

\* What a call may do to the account: a deletion is never taken back.
Forward ==
  /\ fixture' = fixture /\ delegated' \subseteq delegated
  /\ \A r \in Resources :
       /\ res[r] = "gone" => res'[r] = "gone"
       /\ res[r] \in {"deleting", "gone"} => res'[r] \in {"deleting", "gone"}

\* The handler of s goes on, and no other.
Moved(s) ==
  /\ h' \in [Sweeps -> Handlers] /\ \A q \in Sweeps \ {s} : h'[q] = h[q]
  /\ h'[s].r = h[s].r /\ h'[s].met = h[s].met

LEMMA FixtureFacts == AccountInv => fixture \subseteq Resources
  BY HandlersAssumption DEF AccountInv

LEMMA IdleFacts ==
  /\ Idle \in Handlers /\ Idle.step = "idle" /\ Idle.left = {} /\ Idle.r = "none"
  BY DEF Idle, Handlers, Steps, Outcomes

\* What holds of a sweep still does when it does nothing.
LEMMA OthersKept ==
  ASSUME HandlerInv, AccountInv', Forward, NEW q \in Sweeps, h'[q] = h[q],
         h[q].step = "parts" /\ ~Tolerant(Kind[h[q].r]) /\ ~h[q].met => h[q].left \subseteq parts'[h[q].r]
  PROVE  OwnCalls(q)' /\ SaysTrue(q)'
<1>1. h[q].step # "idle" => h[q].r \in fixture /\ h[q].r \in Resources
  BY FixtureFacts DEF HandlerInv, OwnCalls
<1>2. OwnCalls(q)'
  BY <1>1 DEF HandlerInv, OwnCalls, Forward
<1>3. h[q].step = "answered" =>
        /\ res[h[q].r] = "gone" => res'[h[q].r] = "gone"
        /\ res[h[q].r] \in {"deleting", "gone"} => res'[h[q].r] \in {"deleting", "gone"} /\ parts'[h[q].r] = {}
        /\ h[q].r \notin delegated => h[q].r \notin delegated'
  BY <1>1 DEF Forward, AccountInv
<1>4. SaysTrue(q)'
  BY <1>3 DEF HandlerInv, SaysTrue
<1> QED BY <1>2, <1>4

\* A call of s, which is in a handler.
LEMMA OneCall ==
  ASSUME HandlerInv, NEW s \in Sweeps, Busy(s), Moved(s), AccountInv', Forward, OwnCalls(s)', SaysTrue(s)',
         \A q \in Sweeps \ {s} :
           h[q].step = "parts" /\ ~Tolerant(Kind[h[q].r]) /\ ~h[q].met => h[q].left \subseteq parts'[h[q].r],
         todo' = todo, faults' \in 0..MaxFaults
  PROVE  HandlerInv'
<1>1. h' \in [Sweeps -> Handlers] /\ todo' \in [Sweeps -> SUBSET fixture']
  BY DEF Moved, Forward, HandlerInv
<1>2. ASSUME NEW q \in Sweeps PROVE OwnCalls(q)' /\ SaysTrue(q)'
  <2>1. CASE q = s
    BY <2>1
  <2>2. CASE q # s
    BY <2>2, OthersKept DEF Moved
  <2> QED BY <2>1, <2>2
<1>3. Meet'
  <2> SUFFICES ASSUME NEW a \in Sweeps, NEW b \in Sweeps, a # b, Busy(a)', Busy(b)', h'[a].r = h'[b].r
               PROVE  h'[a].met
    BY DEF Meet
  <2>1. \A q \in Sweeps : h'[q].r = h[q].r /\ h'[q].met = h[q].met /\ (Busy(q)' => Busy(q))
    BY DEF Moved, Busy
  <2>2. h[a].met
    BY <2>1 DEF HandlerInv, Meet
  <2> QED BY <2>1, <2>2
<1> QED BY <1>1, <1>2, <1>3 DEF HandlerInv

\* A call that changes nothing in the account.
LEMMA OneRead ==
  ASSUME HandlerInv, NEW s \in Sweeps, Busy(s), Moved(s), UNCHANGED <<account, todo>>,
         OwnCalls(s)', SaysTrue(s)', faults' \in 0..MaxFaults
  PROVE  HandlerInv'
<1>1. AccountInv' /\ Forward
  BY DEF account, HandlerInv, AccountInv, Forward
<1>2. parts' = parts /\ todo' = todo
  BY DEF account
<1>3. \A q \in Sweeps : h[q].step = "parts" /\ ~Tolerant(Kind[h[q].r]) /\ ~h[q].met => h[q].left \subseteq parts'[h[q].r]
  BY <1>2 DEF HandlerInv, OwnCalls
<1> QED BY <1>1, <1>2, <1>3, OneCall

LEMMA AnswerMoves ==
  ASSUME HandlerInv, NEW s \in Sweeps, NEW how \in Outcomes, Answer(s, how)
  PROVE  /\ Moved(s) /\ h'[s].step = "answered" /\ h'[s].left = {} /\ h'[s].how = how
         /\ h'[s].named = h[s].named /\ h'[s].blind = h[s].blind
<1>1. h \in [Sweeps -> Handlers]
  BY DEF HandlerInv
<1> DEFINE new == [h[s] EXCEPT !.step = "answered", !.left = {}, !.how = how]
<1>2. h[s] \in Handlers /\ "answered" \in Steps
  BY <1>1 DEF Steps
<1>3. /\ new \in Handlers /\ new.step = "answered" /\ new.left = {} /\ new.how = how
      /\ new.named = h[s].named /\ new.blind = h[s].blind /\ new.r = h[s].r /\ new.met = h[s].met
  BY <1>2 DEF Handlers
<1>4. h' = [h EXCEPT ![s] = new]
  BY <1>1 DEF Answer
<1> HIDE DEF new
<1> QED BY <1>1, <1>3, <1>4 DEF Moved

LEMMA GoMoves ==
  ASSUME HandlerInv, NEW s \in Sweeps, NEW step \in Steps, Go(s, step)
  PROVE  /\ Moved(s) /\ h'[s].step = step /\ h'[s].left = h[s].left
         /\ h'[s].named = h[s].named /\ h'[s].how = h[s].how /\ h'[s].tok = h[s].tok
<1>1. h \in [Sweeps -> Handlers]
  BY DEF HandlerInv
<1> QED BY <1>1 DEF Go, Moved, Handlers

LEMMA GoPartsMoves ==
  ASSUME HandlerInv, NEW s \in Sweeps, NEW left \in SUBSET AllParts, NEW tok \in Nat, GoParts(s, left, tok)
  PROVE  /\ Moved(s) /\ h'[s].step = (IF left = {} THEN "target" ELSE "parts") /\ h'[s].left = left
<1>1. h \in [Sweeps -> Handlers]
  BY DEF HandlerInv
<1> DEFINE step == IF left = {} THEN "target" ELSE "parts"
           new == [h[s] EXCEPT !.step = step, !.left = left, !.tok = tok]
<1>2. h[s] \in Handlers /\ step \in Steps
  BY <1>1 DEF Steps
<1>3. h' = [h EXCEPT ![s] = new]
  BY <1>1 DEF GoParts
<1> HIDE DEF step
<1>4. new \in Handlers /\ new.step = step /\ new.left = left /\ new.r = h[s].r /\ new.met = h[s].met
  BY <1>2 DEF Handlers
<1> HIDE DEF new
<1>5. Moved(s) /\ h'[s].step = step /\ h'[s].left = left
  BY <1>1, <1>3, <1>4 DEF Moved
<1> QED BY <1>5 DEF step

\* The handler of s answers about an account that it leaves as it is.
LEMMA Answering ==
  ASSUME HandlerInv, NEW s \in Sweeps, Busy(s), NEW how \in Outcomes, Answer(s, how),
         UNCHANGED <<account, todo>>, faults' \in 0..MaxFaults,
         how \in {"deleted", "scheduled"} =>
           res[h[s].r] \in {"deleting", "gone"} /\ parts[h[s].r] = {} /\ (h[s].named => h[s].r \notin delegated),
         how = "already-deleted" => res[h[s].r] = "gone" \/ h[s].met,
         how = "excluded" => res[h[s].r] \in {"deleting", "gone"}
  PROVE  HandlerInv'
<1>1. /\ Moved(s) /\ h'[s].step = "answered" /\ h'[s].left = {} /\ h'[s].how = how
      /\ h'[s].named = h[s].named /\ h'[s].blind = h[s].blind
  BY AnswerMoves
<1>2. h'[s].r = h[s].r /\ h'[s].met = h[s].met
  BY <1>1 DEF Moved
<1>3. fixture' = fixture /\ res' = res /\ parts' = parts /\ delegated' = delegated
  BY DEF account
<1>4. h[s].step # "idle"
  BY DEF Busy
<1>5. OwnCalls(s)'
  BY <1>1, <1>2, <1>3, <1>4 DEF HandlerInv, OwnCalls
<1>6. SaysTrue(s)'
  BY <1>1, <1>2, <1>3 DEF SaysTrue
<1> QED BY <1>1, <1>5, <1>6, OneRead

\* An error of a call that is taken for a target that is gone.
LEMMA NotFoundAnswers ==
  ASSUME HandlerInv, NEW s \in Sweeps, Busy(s), NotFound(s), UNCHANGED <<account, todo, faults>>,
         Gone(s) \/ h[s].met
  PROVE  HandlerInv'
<1>1. faults' \in 0..MaxFaults
  BY DEF HandlerInv
<1>2. CASE KindAt(s) = "zone"
  <2>1. Answer(s, "failed") /\ "failed" \in Outcomes
    BY <1>2 DEF NotFound, Outcomes
  <2> QED BY <1>1, <2>1, Answering
<1>3. CASE KindAt(s) # "zone"
  <2>1. Answer(s, "already-deleted") /\ "already-deleted" \in Outcomes
    BY <1>3 DEF NotFound, Outcomes
  <2> QED BY <1>1, <2>1, Answering DEF Gone
<1> QED BY <1>2, <1>3

\* The handler goes on to a call that needs nothing but its kind.
LEMMA GoingOn ==
  ASSUME HandlerInv, NEW s \in Sweeps, Busy(s), Moved(s), h'[s].left = {},
         UNCHANGED <<account, todo>>, faults' \in 0..MaxFaults,
         h'[s].step \notin {"idle", "parts", "parent", "answered"},
         h'[s].step \in {"disable", "deploy", "refresh"} => Kind[h[s].r] = "distribution",
         h'[s].step = "schedule" => Kind[h[s].r] = "key"
  PROVE  HandlerInv'
<1>1. h'[s].r = h[s].r
  BY DEF Moved
<1>2. fixture' = fixture /\ h[s].step # "idle"
  BY DEF account, Busy
<1>3. OwnCalls(s)'
  BY <1>1, <1>2 DEF HandlerInv, OwnCalls
<1>4. SaysTrue(s)'
  BY DEF SaysTrue
<1> QED BY <1>3, <1>4, OneRead

-----------------------------------------------------------------------------
(***************************************************************************)
(* The calls.                                                              *)
(***************************************************************************)

LEMMA TargetFacts ==
  ASSUME HandlerInv, NEW s \in Sweeps, h[s].step # "idle"
  PROVE  /\ h[s].r \in Resources /\ h[s].r \in fixture /\ parts[h[s].r] \in SUBSET AllParts
         /\ parts[h[s].r] \subseteq PartsOf[h[s].r]
         /\ version[h[s].r] \in Nat /\ faults \in 0..MaxFaults /\ res[h[s].r] \in States
         /\ h[s] \in Handlers
<1>1. h[s].r \in fixture /\ h[s].r \in Resources
  BY FixtureFacts DEF HandlerInv, OwnCalls
<1> QED BY <1>1 DEF HandlerInv, AccountInv

\* What a listing returned is removed next, or the target is when it returned nothing.
LEMMA ListingGoesOn ==
  ASSUME HandlerInv, NEW s \in Sweeps, Busy(s), NEW left \in SUBSET AllParts, NEW tok \in Nat,
         GoParts(s, left, tok), left \subseteq parts[h[s].r], UNCHANGED <<account, todo, faults>>
  PROVE  HandlerInv'
<1>1. Moved(s) /\ h'[s].step = (IF left = {} THEN "target" ELSE "parts") /\ h'[s].left = left
  BY GoPartsMoves
<1>2. h'[s].r = h[s].r /\ h[s].step # "idle" /\ fixture' = fixture /\ parts' = parts /\ res' = res
  BY <1>1 DEF Moved, Busy, account
<1>3. h[s].r \in fixture /\ parts[h[s].r] \subseteq PartsOf[h[s].r] /\ faults' \in 0..MaxFaults
  BY <1>2, TargetFacts
<1>4. OwnCalls(s)'
  BY <1>1, <1>2, <1>3 DEF OwnCalls
<1>5. SaysTrue(s)'
  BY <1>1 DEF SaysTrue
<1> QED BY <1>1, <1>3, <1>4, <1>5, OneRead

LEMMA ZoneNameKeeps ==
  ASSUME HandlerInv, NEW s \in Sweeps, NEW known \in BOOLEAN, At(s, "name"),
         h' = [h EXCEPT ![s].step = "list", ![s].named = known],
         UNCHANGED <<account, todo>>, faults' \in 0..MaxFaults
  PROVE  HandlerInv'
<1> DEFINE new == [h[s] EXCEPT !.step = "list", !.named = known]
<1>1. h \in [Sweeps -> Handlers] /\ h[s].step = "name" /\ h[s].left = {}
  BY DEF HandlerInv, OwnCalls, At
<1>2. new \in Handlers /\ new.step = "list" /\ new.r = h[s].r /\ new.met = h[s].met /\ new.left = h[s].left
  <2>1. h[s] \in Handlers /\ "list" \in Steps
    BY <1>1 DEF Steps
  <2> QED BY <2>1 DEF Handlers
<1>3. h' = [h EXCEPT ![s] = new]
  BY <1>1
<1> HIDE DEF new
<1>4. Moved(s) /\ h'[s].left = {} /\ h'[s].step = "list"
  BY <1>1, <1>2, <1>3 DEF Moved
<1>5. Busy(s)
  BY <1>1 DEF Busy
<1> QED BY <1>4, <1>5, GoingOn

\* The listing calls: the parts, the state, the lock token, the protection.
LEMMA ListKeeps ==
  ASSUME HandlerInv, NEW s \in Sweeps,
         ListParts(s) \/ DescribeState(s) \/ GetWebAcl(s) \/ DescribeUserPool(s)
  PROVE  HandlerInv'
<1>1. h[s].step = "list" /\ Busy(s) /\ UNCHANGED <<account, todo, faults>>
  BY DEF ListParts, DescribeState, GetWebAcl, DescribeUserPool, At, Busy
<1>2. /\ h[s].r \in Resources /\ parts[h[s].r] \in SUBSET AllParts /\ version[h[s].r] \in Nat
      /\ faults' \in 0..MaxFaults /\ h[s].left = {}
  BY <1>1, TargetFacts DEF HandlerInv, OwnCalls
<1>3. CASE NotFound(s) /\ Gone(s)
  BY <1>1, <1>3, NotFoundAnswers
<1>4. CASE GoParts(s, parts[h[s].r], 0)
  BY <1>1, <1>2, <1>4, ListingGoesOn
<1>5. CASE GoParts(s, {}, version[h[s].r])
  BY <1>1, <1>2, <1>5, ListingGoesOn
<1>6. CASE DescribeState(s) /\ ~Gone(s) /\ res[h[s].r] = "deleting"
  <2>1. Answer(s, "deleted") /\ "deleted" \in Outcomes /\ Kind[h[s].r] = "drained"
    BY <1>6 DEF DescribeState, Outcomes, Target, KindAt
  <2>2. parts[h[s].r] = {} /\ h[s].r \notin delegated
    BY <1>2, <1>6, <2>1 DEF HandlerInv, AccountInv
  <2> QED BY <1>1, <1>2, <1>6, <2>1, <2>2, Answering
<1>7. CASE DescribeState(s) /\ ~Gone(s) /\ res[h[s].r] # "deleting"
  <2>1. Go(s, "target") /\ "target" \in Steps
    BY <1>7 DEF DescribeState, Steps, Target
  <2>2. Moved(s) /\ h'[s].step = "target" /\ h'[s].left = {}
    BY <1>2, <2>1, GoMoves
  <2> QED BY <1>1, <1>2, <2>2, GoingOn
<1> QED BY <1>3, <1>4, <1>5, <1>6, <1>7 DEF ListParts, DescribeState, GetWebAcl, DescribeUserPool, Target

\* The ETag of a distribution, before it is disabled or deleted.
LEMMA ETagKeeps ==
  ASSUME HandlerInv, NEW s \in Sweeps, GetDistributionConfig(s) \/ RefreshETag(s)
  PROVE  HandlerInv'
<1>1. /\ h[s].step \in {"list", "refresh"} /\ Busy(s) /\ UNCHANGED <<account, todo, faults>>
      /\ Kind[h[s].r] = "distribution"
  BY DEF GetDistributionConfig, RefreshETag, At, Busy, KindAt, HandlerInv, OwnCalls
<1>2. /\ version[h[s].r] \in Nat /\ faults' \in 0..MaxFaults /\ h[s].left = {} /\ h[s] \in Handlers
  BY <1>1, TargetFacts DEF HandlerInv, OwnCalls
<1>3. CASE Gone(s)
  <2>1. NotFound(s)
    BY <1>3 DEF GetDistributionConfig, RefreshETag
  <2> QED BY <1>1, <1>3, <2>1, NotFoundAnswers
<1>4. CASE ~Gone(s)
  <2>1. PICK step \in {"disable", "target"} : h' = [h EXCEPT ![s].step = step, ![s].tok = version[h[s].r]]
    BY <1>4 DEF GetDistributionConfig, RefreshETag, Target
  <2> DEFINE new == [h[s] EXCEPT !.step = step, !.tok = version[h[s].r]]
  <2>2. new \in Handlers /\ new.step = step /\ new.r = h[s].r /\ new.met = h[s].met /\ new.left = h[s].left
    <3>1. step \in Steps
      BY <2>1 DEF Steps
    <3> QED BY <1>2, <3>1 DEF Handlers
  <2>3. h \in [Sweeps -> Handlers]
    BY DEF HandlerInv
  <2>4. h' = [h EXCEPT ![s] = new]
    BY <2>1, <2>3
  <2> HIDE DEF new
  <2>5. Moved(s) /\ h'[s].left = {} /\ h'[s].step = step
    BY <1>2, <2>2, <2>3, <2>4 DEF Moved
  <2> QED BY <1>1, <1>2, <2>1, <2>5, GoingOn
<1> QED BY <1>3, <1>4

LEMMA WaitKeeps ==
  ASSUME HandlerInv, NEW s \in Sweeps, Wait(s)
  PROVE  HandlerInv'
<1>1. h[s].step = "deploy" /\ Busy(s) /\ UNCHANGED <<account, todo, faults>>
  BY DEF Wait, At, Busy
<1>2. faults' \in 0..MaxFaults /\ h[s].left = {} /\ Kind[h[s].r] = "distribution"
  BY <1>1 DEF HandlerInv, OwnCalls
<1>3. CASE Go(s, "refresh")
  <2>1. Moved(s) /\ h'[s].step = "refresh" /\ h'[s].left = {}
    BY <1>2, <1>3, GoMoves DEF Steps
  <2> QED BY <1>1, <1>2, <2>1, GoingOn
<1>4. CASE Answer(s, "failed")
  <2>1. "failed" \in Outcomes
    BY DEF Outcomes
  <2> QED BY <1>1, <1>2, <1>4, <2>1, Answering
<1> QED BY <1>3, <1>4 DEF Wait

LEMMA DescribeKeyKeeps ==
  ASSUME HandlerInv, NEW s \in Sweeps, DescribeKey(s)
  PROVE  HandlerInv'
<1>1. h[s].step = "target" /\ Busy(s) /\ UNCHANGED <<account, todo, faults>> /\ Kind[h[s].r] = "key"
  BY DEF DescribeKey, At, Busy, KindAt
<1>2. faults' \in 0..MaxFaults /\ h[s].left = {} /\ h[s].r \in Resources
  BY <1>1, TargetFacts DEF HandlerInv, OwnCalls
<1>3. CASE res[h[s].r] = "deleting"
  <2>1. Answer(s, "scheduled") /\ "scheduled" \in Outcomes
    BY <1>3 DEF DescribeKey, Outcomes, Target
  <2>2. parts[h[s].r] = {} /\ h[s].r \notin delegated
    BY <1>1, <1>2, <1>3 DEF HandlerInv, AccountInv
  <2> QED BY <1>1, <1>2, <1>3, <2>1, <2>2, Answering
<1>4. CASE res[h[s].r] # "deleting"
  <2>1. Go(s, "schedule")
    BY <1>4 DEF DescribeKey, Target
  <2>2. Moved(s) /\ h'[s].step = "schedule" /\ h'[s].left = {}
    BY <1>2, <2>1, GoMoves DEF Steps
  <2> QED BY <1>1, <1>2, <2>2, GoingOn
<1> QED BY <1>3, <1>4

LEMMA ProbeKeeps ==
  ASSUME HandlerInv, NEW s \in Sweeps, Probe(s)
  PROVE  HandlerInv'
<1>1. h[s].step = "probe" /\ Busy(s) /\ UNCHANGED <<account, todo, faults>>
  BY DEF Probe, At, Busy
<1>2. faults' \in 0..MaxFaults /\ h[s].r \in Resources /\ res[h[s].r] \in States
  BY <1>1, TargetFacts
<1>3. "found" \in Outcomes /\ "excluded" \in Outcomes
  BY DEF Outcomes
<1>4. CASE ProvenGone(h[s].r)
  <2>1. res[h[s].r] \in {"deleting", "gone"}
    BY <1>2, <1>4 DEF ProvenGone, PastDeletion, PendingDeletion, Inactive, NoSuch, HandlerInv, AccountInv, States
  <2>2. Answer(s, "excluded")
    BY <1>4 DEF Probe, Target
  <2> QED BY <1>1, <1>2, <1>3, <2>1, <2>2, Answering
<1>5. CASE ~ProvenGone(h[s].r)
  <2>1. Answer(s, "found")
    BY <1>5 DEF Probe, Target
  <2> QED BY <1>1, <1>2, <1>3, <2>1, Answering
<1> QED BY <1>4, <1>5

-----------------------------------------------------------------------------
\* A sweep that lists the parts of a target has not met another one in a handler of it, or
\* knows.
LEMMA RemovePartKeeps ==
  ASSUME HandlerInv, NEW s \in Sweeps, NEW p \in h[s].left, RemovePart(s, p)
  PROVE  HandlerInv'
<1> DEFINE r == h[s].r
<1>1. h[s].step = "parts" /\ Busy(s)
      /\ UNCHANGED <<fixture, res, delegated, version, listed, todo, faults>>
  BY DEF RemovePart, At, Busy
<1>2. /\ r \in Resources /\ r \in fixture /\ h[s] \in Handlers /\ faults' \in 0..MaxFaults
      /\ h[s].left \subseteq PartsOf[r]
  BY <1>1, TargetFacts DEF HandlerInv, OwnCalls
<1>3. CASE PartMissing(s, p)
  <2>1. NotFound(s) /\ UNCHANGED <<account, todo, faults>>
    BY <1>1, <1>3 DEF RemovePart, account
  <2>2. Gone(s) \/ h[s].met
    BY <1>1, <1>3 DEF PartMissing, HandlerInv, OwnCalls, Target, KindAt
  <2> QED BY <1>1, <2>1, <2>2, NotFoundAnswers
<1>4. CASE ~PartMissing(s, p)
  <2>1. parts' = [parts EXCEPT ![r] = @ \ {p}] /\ GoParts(s, h[s].left \ {p}, h[s].tok)
    BY <1>4 DEF RemovePart, Target
  <2>2. h[s].left \ {p} \in SUBSET AllParts /\ h[s].tok \in Nat
    BY <1>2 DEF Handlers
  <2> DEFINE left == h[s].left \ {p}
  <2>3. Moved(s) /\ h'[s].step = (IF left = {} THEN "target" ELSE "parts") /\ h'[s].left = left
    BY <2>1, <2>2, GoPartsMoves
  <2>4. h'[s].r = r /\ h'[s].met = h[s].met
    BY <2>3 DEF Moved
  <2>5. /\ parts \in [Resources -> SUBSET AllParts] /\ parts'[r] = parts[r] \ {p}
        /\ parts' \in [Resources -> SUBSET AllParts]
        /\ \A t \in Resources \ {r} : parts'[t] = parts[t]
    BY <1>2, <2>1 DEF HandlerInv, AccountInv
  <2>6. \A t \in Resources : parts'[t] \subseteq parts[t]
    BY <2>5
  <2>7. AccountInv' /\ Forward
    <3>1. \A t \in Resources : parts'[t] \subseteq PartsOf[t] /\ (parts[t] = {} => parts'[t] = {})
      BY <2>6 DEF HandlerInv, AccountInv
    <3>2. AccountInv'
      BY <1>1, <2>5, <3>1 DEF HandlerInv, AccountInv
    <3> QED BY <1>1, <3>2 DEF Forward
  <2>8. h[s].step = "parts" /\ ~Tolerant(Kind[r]) /\ ~h[s].met => left \subseteq parts'[r]
    BY <2>5 DEF HandlerInv, OwnCalls
  <2>9. OwnCalls(s)'
    <3> HIDE DEF r
    <3>1. left \subseteq PartsOf[r]
      BY <1>2
    <3> HIDE DEF left
    <3> QED BY <1>1, <1>2, <2>3, <2>4, <2>8, <3>1 DEF OwnCalls
  <2>10. SaysTrue(s)'
    BY <2>3 DEF SaysTrue
  <2>11. ASSUME NEW q \in Sweeps \ {s}, h[q].step = "parts", ~Tolerant(Kind[h[q].r]), ~h[q].met
         PROVE  h[q].left \subseteq parts'[h[q].r]
    <3>1. Busy(q) /\ h[q].r # r
      BY <1>1, <2>11 DEF Busy, HandlerInv, Meet
    <3>2. h[q].r \in Resources
      BY <2>11, TargetFacts
    <3>3. h[q].left \subseteq parts[h[q].r]
      BY <2>11 DEF HandlerInv, OwnCalls
    <3> QED BY <2>5, <3>1, <3>2, <3>3
  <2> QED BY <1>1, <1>2, <2>3, <2>7, <2>9, <2>10, <2>11, OneCall
<1> QED BY <1>3, <1>4

\* A call that takes nothing from a target but its state.
LEMMA PartsKept ==
  ASSUME HandlerInv, parts' = parts
  PROVE  \A q \in Sweeps :
           h[q].step = "parts" /\ ~Tolerant(Kind[h[q].r]) /\ ~h[q].met => h[q].left \subseteq parts'[h[q].r]
  BY DEF HandlerInv, OwnCalls

LEMMA DisableKeeps ==
  ASSUME HandlerInv, NEW s \in Sweeps, Disable(s)
  PROVE  HandlerInv'
<1> DEFINE r == h[s].r
<1>1. h[s].step = "disable" /\ Busy(s) /\ UNCHANGED <<fixture, parts, delegated, listed, todo, faults>>
  BY DEF Disable, At, Busy
<1>2. /\ r \in Resources /\ r \in fixture /\ Kind[r] = "distribution" /\ h[s].left = {}
      /\ faults' \in 0..MaxFaults
  BY <1>1, TargetFacts DEF HandlerInv, OwnCalls
<1>3. CASE Gone(s)
  <2>1. NotFound(s) /\ UNCHANGED <<account, todo, faults>>
    BY <1>1, <1>3 DEF Disable, account
  <2> QED BY <1>1, <1>3, <2>1, NotFoundAnswers
<1>4. CASE ~Gone(s) /\ h[s].tok # version[r]
  <2>1. Answer(s, "failed") /\ UNCHANGED <<account, todo, faults>> /\ "failed" \in Outcomes
    BY <1>1, <1>4 DEF Disable, account, Outcomes, Target
  <2> QED BY <1>1, <1>2, <2>1, Answering
<1>5. CASE ~Gone(s) /\ h[s].tok = version[r]
  <2>1. /\ res' = [res EXCEPT ![r] = "disabling"] /\ version' = [version EXCEPT ![r] = @ + 1]
        /\ Go(s, "deploy")
    BY <1>5 DEF Disable, Target
  <2>2. Moved(s) /\ h'[s].step = "deploy" /\ h'[s].left = {}
    BY <1>2, <2>1, GoMoves DEF Steps
  <2>3. h'[s].r = r
    BY <2>2 DEF Moved
  <2>4. /\ res' \in [Resources -> States] /\ res'[r] = "disabling"
        /\ \A t \in Resources \ {r} : res'[t] = res[t]
        /\ version' \in [Resources -> Nat]
    BY <1>2, <2>1 DEF HandlerInv, AccountInv, States
  <2>5. res[r] \notin {"deleting", "gone"}
    BY <1>2, <1>5 DEF HandlerInv, AccountInv, Gone
  <2>6. AccountInv'
    BY <1>1, <1>2, <2>4 DEF HandlerInv, AccountInv
  <2>7. Forward
    BY <1>1, <2>4, <2>5 DEF Forward
  <2>8. OwnCalls(s)' /\ SaysTrue(s)'
    BY <1>1, <1>2, <2>2, <2>3 DEF OwnCalls, SaysTrue
  <2> QED BY <1>1, <1>2, <2>2, <2>6, <2>7, <2>8, PartsKept, OneCall
<1> QED BY <1>3, <1>4, <1>5

LEMMA DeleteTargetKeeps ==
  ASSUME HandlerInv, NEW s \in Sweeps, DeleteTarget(s)
  PROVE  HandlerInv'
<1> DEFINE r == h[s].r
           to == IF Kind[r] \in {"key", "drained"} THEN "deleting" ELSE "gone"
<1>1. /\ h[s].step \in {"schedule", "target"} /\ Busy(s)
      /\ UNCHANGED <<fixture, parts, delegated, version, listed, todo, faults>>
  BY DEF DeleteTarget, At, Busy
<1>2. r \in Resources /\ r \in fixture /\ h[s].left = {} /\ faults' \in 0..MaxFaults
  BY <1>1, TargetFacts DEF HandlerInv, OwnCalls
<1>3. CASE Gone(s)
  <2>1. NotFound(s) /\ UNCHANGED <<account, todo, faults>>
    BY <1>1, <1>3 DEF DeleteTarget, account
  <2> QED BY <1>1, <1>3, <2>1, NotFoundAnswers
<1>4. CASE ~Gone(s) /\ Refused(s)
  <2>1. Answer(s, "failed") /\ UNCHANGED <<account, todo, faults>> /\ "failed" \in Outcomes
    BY <1>1, <1>4 DEF DeleteTarget, account, Outcomes
  <2> QED BY <1>1, <1>2, <2>1, Answering
<1>5. CASE ~Gone(s) /\ ~Refused(s)
  <2>1. /\ res' = [res EXCEPT ![r] = to] /\ parts[r] = {}
        /\ IF Delegating(s) THEN Go(s, "parent")
           ELSE Answer(s, IF Kind[r] = "key" THEN "scheduled" ELSE "deleted")
    BY <1>5 DEF DeleteTarget, Refused, Target, KindAt
  <2>2. /\ res' \in [Resources -> States] /\ res'[r] = to /\ \A t \in Resources \ {r} : res'[t] = res[t]
        /\ to \in {"deleting", "gone"} /\ (to = "deleting" => Kind[r] \in {"key", "drained"})
    BY <1>2, <2>1 DEF HandlerInv, AccountInv, States
  <2>3. res[r] # "gone"
    BY <1>5 DEF Gone
  <2> HIDE DEF to
  <2>4. AccountInv'
    BY <1>1, <2>1, <2>2 DEF HandlerInv, AccountInv
  <2>5. Forward
    BY <1>1, <2>2, <2>3 DEF Forward
  <2>6. CASE Delegating(s)
    <3>1. Go(s, "parent") /\ Kind[r] = "zone"
      BY <2>1, <2>6 DEF Delegating, KindAt
    <3>2. Moved(s) /\ h'[s].step = "parent" /\ h'[s].left = {}
      BY <1>2, <3>1, GoMoves DEF Steps
    <3>3. h'[s].r = r /\ res'[r] = "gone"
      BY <2>2, <3>1, <3>2 DEF Moved
    <3>4. OwnCalls(s)' /\ SaysTrue(s)'
      BY <1>1, <1>2, <3>1, <3>2, <3>3 DEF OwnCalls, SaysTrue
    <3> QED BY <1>1, <1>2, <2>4, <2>5, <3>2, <3>4, PartsKept, OneCall
  <2>7. CASE ~Delegating(s)
    <3> DEFINE how == IF Kind[r] = "key" THEN "scheduled" ELSE "deleted"
    <3>1. Answer(s, how) /\ how \in Outcomes /\ how \in {"scheduled", "deleted"}
      BY <2>1, <2>7 DEF Outcomes
    <3> HIDE DEF how
    <3>2. Moved(s) /\ h'[s].step = "answered" /\ h'[s].left = {} /\ h'[s].how = how /\ h'[s].named = h[s].named
      BY <3>1, AnswerMoves
    <3>3. h'[s].r = r
      BY <3>2 DEF Moved
    <3>4. h[s].named => r \notin delegated
      BY <1>2, <2>7 DEF Delegating, KindAt, HandlerInv, AccountInv
    <3>5. OwnCalls(s)'
      BY <1>1, <1>2, <3>2, <3>3 DEF OwnCalls
    <3>6. SaysTrue(s)'
      BY <1>1, <2>1, <2>2, <3>1, <3>2, <3>3, <3>4 DEF SaysTrue
    <3> QED BY <1>1, <1>2, <2>4, <2>5, <3>2, <3>5, <3>6, PartsKept, OneCall
  <2> QED BY <2>6, <2>7
<1> QED BY <1>3, <1>4, <1>5

\* Of the shared parent zone a sweep removes the record of its own zone, which is gone.
LEMMA DelegationRemoved ==
  ASSUME HandlerInv, NEW s \in Sweeps, DeleteParentDelegation(s)
  PROVE  delegated' = delegated \ {h[s].r}
<1>1. Delegation(h[s].r) = IF h[s].r \in delegated THEN {h[s].r} ELSE {}
  BY DEF Delegation, FirstRecords
<1> QED BY <1>1 DEF DeleteParentDelegation, Target

LEMMA DeleteParentDelegationKeeps ==
  ASSUME HandlerInv, NEW s \in Sweeps, DeleteParentDelegation(s)
  PROVE  HandlerInv'
<1> DEFINE r == h[s].r
<1>1. /\ h[s].step = "parent" /\ Busy(s) /\ Answer(s, "deleted") /\ "deleted" \in Outcomes
      /\ UNCHANGED <<fixture, res, parts, version, listed, todo, faults>>
  BY DEF DeleteParentDelegation, At, Busy, Outcomes
<1>2. delegated' = delegated \ {r}
  BY DelegationRemoved
<1>3. r \in Resources /\ r \in fixture /\ res[r] = "gone" /\ faults' \in 0..MaxFaults
  BY <1>1, TargetFacts DEF HandlerInv, OwnCalls
<1>4. AccountInv' /\ Forward
  BY <1>1, <1>2 DEF HandlerInv, AccountInv, Forward
<1>5. Moved(s) /\ h'[s].step = "answered" /\ h'[s].left = {} /\ h'[s].how = "deleted"
  BY <1>1, AnswerMoves
<1>6. h'[s].r = r /\ parts[r] = {}
  BY <1>3, <1>5 DEF Moved, HandlerInv, AccountInv
<1>7. OwnCalls(s)' /\ SaysTrue(s)'
  BY <1>1, <1>2, <1>3, <1>5, <1>6 DEF OwnCalls, SaysTrue
<1> QED BY <1>1, <1>3, <1>4, <1>5, <1>7, PartsKept, OneCall

LEMMA FaultCounted == HandlerInv /\ Fault => faults' \in 0..MaxFaults
  BY HandlersAssumption DEF HandlerInv, Fault

LEMMA CallFailsKeeps ==
  ASSUME HandlerInv, NEW s \in Sweeps, CallFails(s)
  PROVE  HandlerInv'
<1>1. Busy(s) /\ UNCHANGED <<account, todo>> /\ faults' \in 0..MaxFaults
  BY FaultCounted DEF CallFails
<1>2. {"failed", "found", "excluded"} \subseteq Outcomes
  BY DEF Outcomes
<1>3. CASE At(s, "name")
  <2>1. h' = [h EXCEPT ![s].step = "list", ![s].named = FALSE]
    BY <1>3 DEF CallFails, At
  <2> QED BY <1>1, <1>3, <2>1, ZoneNameKeeps
<1>4. CASE At(s, "target") /\ KindAt(s) = "key"
  <2>1. Go(s, "schedule") /\ h[s].left = {}
    BY <1>4 DEF CallFails, At, HandlerInv, OwnCalls
  <2>2. Moved(s) /\ h'[s].step = "schedule" /\ h'[s].left = {}
    BY <2>1, GoMoves DEF Steps
  <2> QED BY <1>1, <1>4, <2>2, GoingOn DEF KindAt
<1>5. CASE At(s, "probe") /\ KindAt(s) \in {"cluster", "service"}
  <2> DEFINE new == [h[s] EXCEPT !.step = "answered", !.how = "excluded", !.blind = TRUE]
  <2>1. h' = [h EXCEPT ![s].step = "answered", ![s].how = "excluded", ![s].blind = TRUE]
    BY <1>5 DEF CallFails, At
  <2>2. h \in [Sweeps -> Handlers] /\ h[s].step = "probe" /\ h[s].left = {} /\ h[s].r \in fixture
    BY <1>5 DEF HandlerInv, OwnCalls, At
  <2>3. /\ new \in Handlers /\ new.step = "answered" /\ new.how = "excluded" /\ new.blind = TRUE
        /\ new.r = h[s].r /\ new.met = h[s].met /\ new.left = h[s].left
    <3>1. h[s] \in Handlers /\ "answered" \in Steps
      BY <2>2 DEF Steps
    <3> QED BY <1>2, <3>1 DEF Handlers
  <2>4. h' = [h EXCEPT ![s] = new]
    BY <2>1, <2>2
  <2> HIDE DEF new
  <2>5. Moved(s) /\ h'[s] = new
    BY <2>2, <2>3, <2>4 DEF Moved
  <2>6. fixture' = fixture
    BY <1>1 DEF account
  <2>7. OwnCalls(s)' /\ SaysTrue(s)'
    BY <2>2, <2>3, <2>5, <2>6 DEF OwnCalls, SaysTrue
  <2> QED BY <1>1, <2>5, <2>7, OneRead
<1>6. CASE Answer(s, "found")
  BY <1>1, <1>2, <1>6, Answering
<1>7. CASE Answer(s, "failed")
  BY <1>1, <1>2, <1>7, Answering
<1>8. \/ At(s, "name") \/ (At(s, "target") /\ KindAt(s) = "key")
      \/ (At(s, "probe") /\ KindAt(s) \in {"cluster", "service"})
      \/ Answer(s, "found") \/ Answer(s, "failed")
  BY DEF CallFails
<1> QED BY <1>3, <1>4, <1>5, <1>6, <1>7, <1>8

-----------------------------------------------------------------------------
(***************************************************************************)
(* A sweep between two handlers, and the rest of the world.                *)
(***************************************************************************)

\* The handlers are not disturbed by what changes around them.
LEMMA Around ==
  ASSUME HandlerInv, AccountInv', Forward, h' = h, todo' \in [Sweeps -> SUBSET fixture],
         faults' \in 0..MaxFaults, \A r \in Resources : parts[r] \subseteq parts'[r]
  PROVE  HandlerInv'
<1>1. ASSUME NEW q \in Sweeps PROVE OwnCalls(q)' /\ SaysTrue(q)'
  <2>1. ASSUME h[q].step = "parts", ~Tolerant(Kind[h[q].r]), ~h[q].met
        PROVE  h[q].left \subseteq parts'[h[q].r]
    <3>1. h[q].r \in Resources
      BY <2>1, TargetFacts
    <3>2. h[q].left \subseteq parts[h[q].r]
      BY <2>1 DEF HandlerInv, OwnCalls
    <3> QED BY <3>1, <3>2
  <2> QED BY <2>1, OthersKept
<1>2. Meet'
  BY DEF HandlerInv, Meet, Busy
<1> QED BY <1>1, <1>2 DEF HandlerInv, Forward

\* A sweep ends its handler, or its pass, or is lost.
LEMMA Idles ==
  ASSUME HandlerInv, NEW s \in Sweeps, NEW mode \in {"delete", "check"},
         h' = [h EXCEPT ![s] = [Idle EXCEPT !.mode = mode]],
         UNCHANGED account, todo' \in [Sweeps -> SUBSET fixture], faults' \in 0..MaxFaults
  PROVE  HandlerInv'
<1> DEFINE new == [Idle EXCEPT !.mode = mode]
<1>1. new \in Handlers /\ new.step = "idle" /\ new.left = {}
  BY IdleFacts DEF Handlers
<1>2. h \in [Sweeps -> Handlers] /\ h' = [h EXCEPT ![s] = new]
  BY DEF HandlerInv
<1> HIDE DEF new
<1>3. h' \in [Sweeps -> Handlers] /\ h'[s] = new /\ \A q \in Sweeps \ {s} : h'[q] = h[q]
  BY <1>1, <1>2
<1>4. AccountInv' /\ Forward /\ parts' = parts /\ fixture' = fixture
  BY DEF account, HandlerInv, AccountInv, Forward
<1>5. ASSUME NEW q \in Sweeps PROVE OwnCalls(q)' /\ SaysTrue(q)'
  <2>1. CASE q = s
    BY <1>1, <1>3, <2>1 DEF OwnCalls, SaysTrue
  <2>2. CASE q # s
    BY <1>3, <1>4, <2>2, PartsKept, OthersKept
  <2> QED BY <2>1, <2>2
<1>6. ~Busy(s)'
  BY <1>1, <1>3 DEF Busy
<1>7. Meet'
  BY <1>3, <1>6 DEF HandlerInv, Meet, Busy
<1> QED BY <1>3, <1>4, <1>5, <1>7 DEF HandlerInv

LEMMA RecordKeeps ==
  ASSUME HandlerInv, NEW s \in Sweeps, Record(s)
  PROVE  HandlerInv'
<1>1. h[s] \in Handlers /\ todo' \in [Sweeps -> SUBSET fixture] /\ faults' \in 0..MaxFaults /\ UNCHANGED account
  BY DEF HandlerInv, Record
<1>2. Idle = [Idle EXCEPT !.mode = "delete"]
  BY DEF Idle
<1>3. \/ h' = [h EXCEPT ![s] = [Idle EXCEPT !.mode = "delete"]]
      \/ h' = [h EXCEPT ![s] = [Idle EXCEPT !.mode = h[s].mode]]
  BY <1>2 DEF Record
<1>4. h[s].mode \in {"delete", "check"}
  BY <1>1 DEF Handlers
<1> QED BY <1>1, <1>3, <1>4, Idles

LEMMA LostKeeps ==
  ASSUME HandlerInv, NEW s \in Sweeps, Lost(s)
  PROVE  HandlerInv'
<1>1. Idle = [Idle EXCEPT !.mode = "delete"]
  BY DEF Idle
<1>2. h' = [h EXCEPT ![s] = [Idle EXCEPT !.mode = "delete"]] /\ UNCHANGED account
  BY <1>1 DEF Lost
<1>3. todo' \in [Sweeps -> SUBSET fixture] /\ faults' \in 0..MaxFaults
  BY FaultCounted DEF Lost, HandlerInv
<1> QED BY <1>2, <1>3, Idles

LEMMA EnumerateKeeps ==
  ASSUME HandlerInv, NEW s \in Sweeps, Enumerate(s)
  PROVE  HandlerInv'
<1>1. PICK mode \in {"delete", "check"} : h' = [h EXCEPT ![s].mode = mode]
  BY DEF Enumerate
<1> DEFINE new == [h[s] EXCEPT !.mode = mode]
<1>2. h \in [Sweeps -> Handlers] /\ h[s] \in Handlers /\ h[s].step = "idle" /\ h[s].left = {}
  BY DEF HandlerInv, OwnCalls, Enumerate, At
<1>3. new \in Handlers /\ new.step = "idle" /\ new.left = {} /\ h' = [h EXCEPT ![s] = new]
  BY <1>1, <1>2 DEF Handlers
<1> HIDE DEF new
<1>4. h' \in [Sweeps -> Handlers] /\ h'[s] = new /\ \A q \in Sweeps \ {s} : h'[q] = h[q]
  BY <1>2, <1>3
<1>5. UNCHANGED <<account, faults>> /\ todo' = [todo EXCEPT ![s] = listed]
  BY DEF Enumerate
<1>6. AccountInv' /\ Forward /\ parts' = parts /\ fixture' = fixture
  BY <1>5 DEF account, HandlerInv, AccountInv, Forward
<1>7. todo' \in [Sweeps -> SUBSET fixture] /\ faults' \in 0..MaxFaults
  BY <1>5 DEF HandlerInv, AccountInv
<1>8. ASSUME NEW q \in Sweeps PROVE OwnCalls(q)' /\ SaysTrue(q)'
  <2>1. CASE q = s
    BY <1>3, <1>4, <2>1 DEF OwnCalls, SaysTrue
  <2>2. CASE q # s
    BY <1>4, <1>6, <2>2, PartsKept, OthersKept
  <2> QED BY <2>1, <2>2
<1>9. ~Busy(s)'
  BY <1>3, <1>4 DEF Busy
<1>10. Meet'
  BY <1>4, <1>9 DEF HandlerInv, Meet, Busy
<1> QED BY <1>4, <1>6, <1>7, <1>8, <1>10 DEF HandlerInv

LEMMA OthersKeep ==
  ASSUME HandlerInv, NEW r \in Resources, Others(r)
  PROVE  HandlerInv'
<1>1. res[r] = "live" /\ UNCHANGED <<fixture, res, delegated, listed, todo, h>> /\ faults' \in 0..MaxFaults
  BY FaultCounted DEF Others
<1>2. CASE version' = [version EXCEPT ![r] = @ + 1] /\ UNCHANGED parts
  <2>1. AccountInv' /\ Forward
    BY <1>1, <1>2 DEF HandlerInv, AccountInv, Forward
  <2> QED BY <1>1, <1>2, <2>1, Around DEF HandlerInv
<1>3. CASE parts' = [parts EXCEPT ![r] = PartsOf[r]] /\ UNCHANGED version
  <2>1. PartsOf[r] \subseteq AllParts /\ parts[r] \subseteq PartsOf[r] /\ parts \in [Resources -> SUBSET AllParts]
    BY DEF AllParts, HandlerInv, AccountInv
  <2>2. /\ parts' \in [Resources -> SUBSET AllParts] /\ parts'[r] = PartsOf[r]
        /\ \A t \in Resources \ {r} : parts'[t] = parts[t]
    BY <1>3, <2>1
  <2>3. \A t \in Resources : parts[t] \subseteq parts'[t]
    BY <2>1, <2>2
  <2>4. AccountInv' /\ Forward
    BY <1>1, <1>3, <2>2 DEF HandlerInv, AccountInv, Forward
  <2> QED BY <1>1, <2>3, <2>4, Around DEF HandlerInv
<1> QED BY <1>2, <1>3 DEF Others

LEMMA AwsKeeps ==
  ASSUME HandlerInv, NEW r \in Resources, Aws(r) \/ Deindex(r)
  PROVE  HandlerInv'
<1>1. /\ UNCHANGED <<fixture, parts, delegated, version, todo, h, faults>> /\ listed' \subseteq listed
      /\ \/ res' = res
         \/ res[r] = "disabling" /\ res' = [res EXCEPT ![r] = "disabled"]
         \/ res[r] = "deleting" /\ res' = [res EXCEPT ![r] = "gone"]
  BY DEF Aws, Deindex
<1>2. /\ res' \in [Resources -> States] /\ \A t \in Resources \ {r} : res'[t] = res[t]
      /\ \/ res'[r] = res[r]
         \/ res[r] = "disabling" /\ res'[r] = "disabled"
         \/ res[r] = "deleting" /\ res'[r] = "gone"
  BY <1>1 DEF HandlerInv, AccountInv, States
<1>3. AccountInv'
  BY <1>1, <1>2 DEF HandlerInv, AccountInv
<1>4. Forward
  BY <1>1, <1>2 DEF Forward
<1> QED BY <1>1, <1>3, <1>4, Around DEF HandlerInv

\* A new handler, and word of it to the sweeps that are in one of the same target.
LEMMA DispatchKeeps ==
  ASSUME HandlerInv, NEW s \in Sweeps, NEW r \in todo[s], Dispatch(s, r)
  PROVE  HandlerInv'
<1> DEFINE others == {q \in Sweeps \ {s} : Busy(q) /\ h[q].r = r}
           new    == [Idle EXCEPT !.r = r, !.met = others # {}, !.mode = h[s].mode]
           mine   == IF h[s].mode = "check" THEN [new EXCEPT !.step = "probe"]
                     ELSE IF Kind[r] = "no_branch" THEN [new EXCEPT !.step = "answered", !.how = "deleted"]
                     ELSE IF Kind[r] = "raises" THEN [new EXCEPT !.step = "answered", !.how = "failed"]
                     ELSE [new EXCEPT !.step = FirstStep(Kind[r]),
                                      !.left = IF Kind[r] = "service" THEN PartsOf[r] ELSE {}]
<1>1. h' = [q \in Sweeps |-> IF q = s THEN mine
                             ELSE IF q \in others THEN [h[q] EXCEPT !.met = TRUE] ELSE h[q]]
  BY DEF Dispatch
<1>2. UNCHANGED <<account, faults>> /\ todo' = [todo EXCEPT ![s] = @ \ {r}]
  BY DEF Dispatch
<1>3. /\ h \in [Sweeps -> Handlers] /\ h[s] \in Handlers /\ r \in fixture /\ r \in Resources
      /\ h[s].mode \in {"delete", "check"}
  <2>1. h \in [Sweeps -> Handlers] /\ r \in fixture
    BY DEF HandlerInv
  <2>2. r \in Resources
    BY <2>1, FixtureFacts DEF HandlerInv
  <2>3. h[s] \in Handlers
    BY <2>1
  <2> QED BY <2>1, <2>2, <2>3 DEF Handlers
<1>4. /\ new \in Handlers /\ new.r = r /\ new.met = (others # {}) /\ new.left = {} /\ new.how = "none"
  <2>1. (others # {}) \in BOOLEAN
    OBVIOUS
  <2> HIDE DEF others
  <2> QED BY <1>3, <2>1 DEF Idle, Handlers, Steps, Outcomes
<1> HIDE DEF new
<1>5. /\ mine \in Handlers /\ mine.r = r /\ mine.met = (others # {}) /\ mine.step # "idle"
      /\ \/ mine.step \in {"probe", "target", "name", "list"} /\ mine.left = {}
         \/ mine.step = "answered" /\ mine.left = {} /\ mine.how = "deleted" /\ Kind[r] = "no_branch"
         \/ mine.step = "answered" /\ mine.left = {} /\ mine.how = "failed"
         \/ mine.step = "parts" /\ mine.left = PartsOf[r] /\ Kind[r] = "service" /\ PartsOf[r] # {}
  <2>1. CASE h[s].mode = "check"
    <3>1. mine = [new EXCEPT !.step = "probe"] /\ "probe" \in Steps
      BY <2>1 DEF Steps
    <3> HIDE DEF mine, others
    <3> QED BY <1>4, <3>1 DEF Handlers
  <2>2. CASE h[s].mode # "check" /\ Kind[r] = "no_branch"
    <3>1. mine = [new EXCEPT !.step = "answered", !.how = "deleted"] /\ "answered" \in Steps /\ "deleted" \in Outcomes
      BY <2>2 DEF Steps, Outcomes
    <3> HIDE DEF mine, others
    <3> QED BY <1>4, <2>2, <3>1 DEF Handlers
  <2>3. CASE h[s].mode # "check" /\ Kind[r] = "raises"
    <3>1. mine = [new EXCEPT !.step = "answered", !.how = "failed"] /\ "answered" \in Steps /\ "failed" \in Outcomes
      BY <2>3 DEF Steps, Outcomes
    <3> HIDE DEF mine, others
    <3> QED BY <1>4, <2>3, <3>1 DEF Handlers
  <2>4. CASE h[s].mode # "check" /\ Kind[r] \notin {"no_branch", "raises", "service"}
    <3>1. mine = [new EXCEPT !.step = FirstStep(Kind[r]), !.left = {}]
      BY <2>4
    <3>2. FirstStep(Kind[r]) \in {"target", "name", "list"}
      BY <2>4 DEF FirstStep
    <3>3. FirstStep(Kind[r]) \in Steps
      BY <3>2 DEF Steps
    <3> HIDE DEF mine, others
    <3> QED BY <1>4, <3>1, <3>2, <3>3 DEF Handlers
  <2>5. CASE h[s].mode # "check" /\ Kind[r] = "service"
    <3>1. mine = [new EXCEPT !.step = "parts", !.left = PartsOf[r]] /\ "parts" \in Steps
      BY <2>5 DEF FirstStep, Steps
    <3>2. PartsOf[r] \in SUBSET AllParts /\ PartsOf[r] # {}
      BY <1>3, <2>5, HandlersAssumption DEF AllParts
    <3> HIDE DEF mine, others
    <3> QED BY <1>4, <2>5, <3>1, <3>2 DEF Handlers
  <2> QED BY <2>1, <2>2, <2>3, <2>4, <2>5
<1> HIDE DEF mine
<1>6. /\ h'[s] = mine
      /\ \A q \in Sweeps \ {s} : h'[q] = IF q \in others THEN [h[q] EXCEPT !.met = TRUE] ELSE h[q]
  BY <1>1
<1>7. h' \in [Sweeps -> Handlers]
  <2>1. \A q \in Sweeps : [h[q] EXCEPT !.met = TRUE] \in Handlers
    BY <1>3 DEF Handlers
  <2> QED BY <1>1, <1>3, <1>5, <2>1
<1>8. \A q \in Sweeps \ {s} :
        /\ h'[q].step = h[q].step /\ h'[q].r = h[q].r /\ h'[q].left = h[q].left /\ h'[q].how = h[q].how
        /\ h'[q].named = h[q].named /\ h'[q].blind = h[q].blind
        /\ h[q].met => h'[q].met
        /\ q \in others => h'[q].met
  <2> HIDE DEF others
  <2> SUFFICES ASSUME NEW q \in Sweeps \ {s}
               PROVE  /\ h'[q].step = h[q].step /\ h'[q].r = h[q].r /\ h'[q].left = h[q].left
                      /\ h'[q].how = h[q].how /\ h'[q].named = h[q].named /\ h'[q].blind = h[q].blind
                      /\ (h[q].met => h'[q].met) /\ (q \in others => h'[q].met)
    OBVIOUS
  <2>1. h[q] \in Handlers
    BY <1>3
  <2>2. CASE q \in others
    <3>1. h'[q] = [h[q] EXCEPT !.met = TRUE]
      BY <1>6, <2>2
    <3> QED BY <2>1, <3>1 DEF Handlers
  <2>3. CASE q \notin others
    BY <1>6, <2>3
  <2> QED BY <2>2, <2>3
<1>9. fixture' = fixture /\ parts' = parts /\ res' = res /\ delegated' = delegated
  BY <1>2 DEF account
<1>10. AccountInv'
  BY <1>2 DEF account, HandlerInv, AccountInv
<1>11. todo' \in [Sweeps -> SUBSET fixture'] /\ faults' \in 0..MaxFaults
  BY <1>2, <1>9 DEF HandlerInv
<1>12. ASSUME NEW q \in Sweeps PROVE OwnCalls(q)' /\ SaysTrue(q)'
  <2>1. CASE q = s
    <3>1. OwnCalls(s)'
      BY <1>3, <1>5, <1>6, <1>9 DEF OwnCalls, Tolerant
    <3>2. SaysTrue(s)'
      BY <1>5, <1>6 DEF SaysTrue
    <3> QED BY <2>1, <3>1, <3>2
  <2>2. CASE q # s
    <3>1. OwnCalls(q) /\ SaysTrue(q)
      BY DEF HandlerInv
    <3>2. OwnCalls(q)'
      BY <1>8, <1>9, <2>2, <3>1 DEF OwnCalls
    <3>3. SaysTrue(q)'
      BY <1>8, <1>9, <2>2, <3>1 DEF SaysTrue
    <3> QED BY <3>2, <3>3
  <2> QED BY <2>1, <2>2
<1>13. Meet'
  <2> SUFFICES ASSUME NEW a \in Sweeps, NEW b \in Sweeps, a # b, Busy(a)', Busy(b)', h'[a].r = h'[b].r
               PROVE  h'[a].met
    BY DEF Meet
  <2>1. \A q \in Sweeps \ {s} : Busy(q)' => Busy(q)
    BY <1>8 DEF Busy
  <2>2. CASE a = s
    <3>1. b \in others
      BY <1>5, <1>6, <1>8, <2>1, <2>2
    <3> QED BY <1>5, <1>6, <2>2, <3>1
  <2>3. CASE b = s
    <3>1. a \in others
      BY <1>5, <1>6, <1>8, <2>1, <2>3
    <3> QED BY <1>8, <2>3, <3>1
  <2>4. CASE a # s /\ b # s
    <3>1. h[a].met
      BY <1>8, <2>1, <2>4 DEF HandlerInv, Meet
    <3> QED BY <1>8, <2>4, <3>1
  <2> QED BY <2>2, <2>3, <2>4
<1> QED BY <1>7, <1>10, <1>11, <1>12, <1>13 DEF HandlerInv

-----------------------------------------------------------------------------
LEMMA InitHandlers == Init => HandlerInv
<1> SUFFICES ASSUME Init PROVE HandlerInv
  OBVIOUS
<1> USE DEF Init
<1>1. fixture \subseteq Resources /\ 0 \in 0..MaxFaults
  BY HandlersAssumption
<1>2. res \in [Resources -> States] /\ \A r \in Resources : res[r] \in {"live", "gone"}
  BY DEF States
<1>3. \A r \in Resources : PartsOf[r] \in SUBSET AllParts
  BY DEF AllParts
<1>4. /\ parts \in [Resources -> SUBSET AllParts]
      /\ \A r \in Resources : parts[r] \subseteq PartsOf[r] /\ (res[r] = "gone" => parts[r] = {})
  BY <1>3
<1>5. AccountInv
  BY <1>1, <1>2, <1>4 DEF AccountInv
<1>6. h \in [Sweeps -> Handlers] /\ \A s \in Sweeps : h[s].step = "idle" /\ h[s].left = {}
  BY IdleFacts
<1>7. \A s \in Sweeps : OwnCalls(s) /\ SaysTrue(s) /\ ~Busy(s)
  BY <1>6 DEF OwnCalls, SaysTrue, Busy
<1> QED BY <1>1, <1>5, <1>6, <1>7 DEF HandlerInv, Meet

LEMMA NextHandlers == HandlerInv /\ [Next]_vars => HandlerInv'
<1> SUFFICES ASSUME HandlerInv, [Next]_vars PROVE HandlerInv'
  OBVIOUS
<1>1. CASE UNCHANGED vars
  BY <1>1 DEF vars, HandlerInv, AccountInv, OwnCalls, SaysTrue, Meet, Busy
<1>2. ASSUME NEW s \in Sweeps, ZoneName(s) PROVE HandlerInv'
  <2>1. (~Gone(s)) \in BOOLEAN /\ faults' \in 0..MaxFaults
    BY <1>2 DEF ZoneName, HandlerInv
  <2> QED BY <1>2, <2>1, ZoneNameKeeps DEF ZoneName
<1>3. ASSUME NEW s \in Sweeps, Handler(s) PROVE HandlerInv'
  BY <1>2, <1>3, ListKeeps, ETagKeeps, WaitKeeps, DescribeKeyKeeps, ProbeKeeps, RemovePartKeeps,
     DisableKeeps, DeleteTargetKeeps, DeleteParentDelegationKeeps DEF Handler
<1>4. ASSUME NEW s \in Sweeps, Sweep(s) PROVE HandlerInv'
  BY <1>3, <1>4, EnumerateKeeps, DispatchKeeps, RecordKeeps DEF Sweep
<1> QED BY <1>1, <1>4, CallFailsKeeps, LostKeeps, OthersKeep, AwsKeeps DEF Next

LEMMA HandlersHold == Spec => []HandlerInv
<1>1. Init => HandlerInv
  BY InitHandlers
<1>2. HandlerInv /\ [Next]_vars => HandlerInv'
  BY NextHandlers
<1> QED BY <1>1, <1>2, PTL DEF Spec

\* Every variable keeps its type, a sweep in a handler has a target that exists, and it has parts
\* on its list exactly as long as it removes them (terratest_sweep.py, _dispatch_delete).
THEOREM TypeCorrect == Spec => []TypeOK
<1>1. HandlerInv => TypeOK
  <2> SUFFICES ASSUME HandlerInv PROVE TypeOK
    OBVIOUS
  <2>1. \A s \in Sweeps : h[s].step \in Steps /\ h[s].how \in Outcomes /\ h[s].mode \in {"delete", "check"}
    BY DEF HandlerInv, Handlers
  <2>2. fixture \subseteq Resources /\ todo \in [Sweeps -> SUBSET fixture]
    BY FixtureFacts DEF HandlerInv
  <2>3. todo \in [Sweeps -> SUBSET Resources]
    BY <2>2
  <2>4. delegated \subseteq Resources
    BY DEF HandlerInv, AccountInv
  <2> QED BY <2>1, <2>3, <2>4 DEF HandlerInv, AccountInv, OwnCalls, TypeOK, States
<1> QED BY <1>1, HandlersHold, PTL

\* Whatever fails, is lost or meets, a handler that answers deleted or scheduled has left no part
\* of its target and no delegation of a zone behind (terratest_sweep.py, the handlers' delete).
THEOREM NothingLeftBehind == Spec => []SuccessIsWhole
<1>1. HandlerInv => SuccessIsWhole
  BY DEF HandlerInv, SaysTrue, SuccessIsWhole, Answered, At, Target, KindAt
<1> QED BY <1>1, HandlersHold, PTL

\* A sweep that met no other takes a target for gone only when it is, and the check leaves out of
\* its count only what is past deletion or what an error of ECS hides (_is_benign_not_found,
\* is_live).
THEOREM GoneIsGone == Spec => []TakenForGoneIsGone
<1>1. HandlerInv => TakenForGoneIsGone
  BY DEF HandlerInv, SaysTrue, TakenForGoneIsGone, Answered, At, Target, Gone
<1> QED BY <1>1, HandlersHold, PTL

\* No sweep removes another zone's record from the shared parent zone, whose listing answers with
\* the next record when the zone's own is not there (_delete_parent_delegation).
THEOREM OthersDelegationsStay == Spec => DelegationsOfOthersStay
<1> DEFINE Step == \A r \in delegated \ delegated' : res[r] = "gone"
<1>1. HandlerInv /\ [Next]_vars => [Step]_vars
  <2> SUFFICES ASSUME HandlerInv, Next, delegated' # delegated PROVE Step
    BY DEF vars
  <2>1. \E s \in Sweeps : DeleteParentDelegation(s)
    <3>1. ASSUME NEW s \in Sweeps, Sweep(s), ~DeleteParentDelegation(s) PROVE delegated' = delegated
      BY <3>1 DEF Sweep, Handler, Enumerate, Dispatch, Record, ZoneName, ListParts, DescribeState,
         GetWebAcl, DescribeUserPool, GetDistributionConfig, Disable, Wait, RefreshETag, DescribeKey,
         RemovePart, DeleteTarget, Probe, account
    <3>2. ASSUME NEW s \in Sweeps, CallFails(s) \/ Lost(s) PROVE delegated' = delegated
      BY <3>2 DEF CallFails, Lost, account
    <3>3. ASSUME NEW r \in Resources, Others(r) \/ Aws(r) \/ Deindex(r) PROVE delegated' = delegated
      BY <3>3 DEF Others, Aws, Deindex
    <3> QED BY <3>1, <3>2, <3>3 DEF Next
  <2>2. PICK s \in Sweeps : DeleteParentDelegation(s)
    BY <2>1
  <2>3. delegated' = delegated \ {h[s].r}
    BY <2>2, DelegationRemoved
  <2>4. res[h[s].r] = "gone"
    BY <2>2 DEF DeleteParentDelegation, At, HandlerInv, OwnCalls
  <2> QED BY <2>3, <2>4
<1> QED BY <1>1, HandlersHold, PTL DEF Spec, DelegationsOfOthersStay
=============================================================================
