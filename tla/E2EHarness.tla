------------------------------ MODULE E2EHarness ------------------------------
(***************************************************************************)
(* The end-to-end gate of a deployment: the queryability check, then, for  *)
(* each mode, the load generator (scripts/otlp_e2e_loadgen.py) and the     *)
(* verifier (scripts/e2e_verify.py) with --cleanup, one after the other,   *)
(* as make e2e-all and terragrunt-apply.yml run them.  Around them the     *)
(* collector, CloudWatch Logs, Firehose, S3 and Athena work at their own   *)
(* pace: records may be late, lost, doubled, or end as an error object,    *)
(* and midnight may pass.                                                  *)
(*                                                                         *)
(* A record of a run is [run, req, pos, ev].  Run 0 stands for records     *)
(* without a run id, which only the conformance modes send.                *)
(***************************************************************************)
EXTENDS Naturals, FiniteSets, Sequences, SequencesExt

CONSTANTS
  Deployments,   \* the gates to run: their modes, one run id each, the deployed parts of
                 \* the stack, and whether the queryability check comes first
  Count,         \* --count, the records of a data mode
  EventTypes,    \* constants.E2E_EVENT_TYPES, a sequence
  Varieties,     \* constants.E2E_PAYLOAD_VARIETIES, a sequence
  SizeOf,        \* bytes of a payload of a variety
  Envelope,      \* bytes of an export request without records
  MaxBody,       \* constants.E2E_MAX_BODY_BYTES
  Structured,    \* event types of a structured mode
  Burst,         \* requests of rate-burst
  PollBudget,    \* polls poll_until makes before its deadline
  PageKeys,      \* keys of one listing page
  MaxDay,        \* midnights that may pass
  MaxCopies,     \* deliveries of one record by Firehose
  MaxFaults      \* faults of the services around the gate, all kinds together

ASSUME BoundsAssumption ==
  /\ {PollBudget, MaxDay, Count, Burst, MaxFaults} \subseteq Nat
  /\ {PageKeys, MaxCopies} \subseteq Nat \ {0}

\* constants.E2E_MODES
Modes == {"happy", "volume", "variety", "structured-events", "structured-metrics", "oversize",
          "bad-content-type", "malformed", "wrong-signal", "grpc-probe", "waf-trigger",
          "rate-burst"}

\* A gate has at least one run, and the load generator refuses an unknown mode.
ASSUME GatesAssumption ==
  \A d \in Deployments : d.gate \in Seq(Modes) /\ d.gate # <<>>

\* Event types are names; a data mode has one to give to its records.
ASSUME EventsAssumption ==
  /\ EventTypes \in Seq(STRING) /\ EventTypes # <<>>
  /\ Structured \in Seq(STRING)

VARIABLES
  gate, run, pc, stack,           \* the gate: its modes, the run, its step, the stack
  plans, answers, manifest,       \* the load generator
  polls, query, fails,            \* the verifier: polls left, Athena query, failed probes
  listed,                         \* keys behind the place the clean-up's listing has reached
  token,                          \* the listing has a page and goes on
  day, collector, cwl, stream, lake, errors, faults, \* the pipeline
  accepted, landed, passed, cleaned          \* history of the gate

harness == <<gate, run, pc, stack, plans, answers, manifest>>
verifier == <<polls, query, fails, listed, token>>
pipeline == <<day, collector, cwl, stream, lake, errors, faults>>
history == <<accepted, landed, passed, cleaned>>
vars == <<harness, verifier, pipeline, history>>

Ended == {"green", "red"}

Parts == {"log-group", "stream", "bucket", "kms", "table", "enum", "partitions",
          "workgroup", "cost-cap", "results-encrypted", "no-grpc", "embed-guards"}

NoManifest == [run |-> 0, day |-> 0, counts |-> <<>>, total |-> 0]

NoQuery == [state |-> "none", rows |-> <<>>]

(***************************************************************************)
(* The load generator's plan                                               *)
(***************************************************************************)
DataModes == {"happy", "volume", "variety"}

LandingPaths == {"logs", "metrics"}

Cycle(seq, i) == seq[((i - 1) % Len(seq)) + 1]

plan_events(mode) ==
  [i \in 1..Count |->
     [ev   |-> Cycle(EventTypes, i),
      size |-> SizeOf[IF mode = "variety" THEN Cycle(Varieties, i) ELSE "small"]]]

\* The length of the encoded export request that carries these records.
BodyBytes(specs) == FoldLeft(LAMBDA n, s : n + s.size, Envelope, specs)

Request(kind, path, specs, expect) ==
  [kind |-> kind, path |-> path, specs |-> specs, expect |-> expect]

Batch(specs) == Request("valid", "logs", specs, {200})

\* A record joins the request being filled, or opens the next one when it would not fit.
AddSpec(acc, spec) ==
  IF BodyBytes(Append(acc.current, spec)) > MaxBody /\ acc.current # <<>>
  THEN [plans |-> Append(acc.plans, Batch(acc.current)), current |-> <<spec>>]
  ELSE [acc EXCEPT !.current = Append(@, spec)]

\* The requests filled so far and the records of the one being filled.
Packed(specs) ==
  LET packed[n \in 0..Len(specs)] ==
        IF n = 0 THEN [plans |-> <<>>, current |-> <<>>]
        ELSE AddSpec(packed[n - 1], specs[n])
  IN packed[Len(specs)]

chunk_into_requests(specs) ==
  LET end == Packed(specs)
  IN IF end.current = <<>> THEN end.plans ELSE Append(end.plans, Batch(end.current))

StructuredSpecs == [i \in 1..Len(Structured) |-> [ev |-> Structured[i], size |-> SizeOf["small"]]]

build_structured_events_request == <<Request("valid", "logs", StructuredSpecs, {200})>>

build_structured_metrics_request == <<Request("valid", "metrics", StructuredSpecs, {200})>>

build_oversize_request == <<Request("oversize", "logs", <<>>, {413})>>

build_bad_content_type_request == <<Request("bad-content-type", "logs", <<>>, {415, 400})>>

build_malformed_request == <<Request("malformed", "logs", <<>>, {400})>>

build_wrong_signal_requests == <<Request("wrong-signal", "traces", <<>>, {404})>>

build_waf_trigger_request == <<Request("waf-trigger", "logs", <<>>, {403})>>

build_rate_burst_requests ==
  [i \in 1..Burst |-> Request("rate-burst", "logs", <<>>, {200, 403, 429})]

build_plans(mode) ==
  CASE mode \in DataModes           -> chunk_into_requests(plan_events(mode))
    [] mode = "structured-events"   -> build_structured_events_request
    [] mode = "structured-metrics"  -> build_structured_metrics_request
    [] mode = "oversize"            -> build_oversize_request
    [] mode = "bad-content-type"    -> build_bad_content_type_request
    [] mode = "malformed"           -> build_malformed_request
    [] mode = "wrong-signal"        -> build_wrong_signal_requests
    [] mode = "waf-trigger"         -> build_waf_trigger_request
    [] mode = "rate-burst"          -> build_rate_burst_requests
    [] mode = "grpc-probe"          -> <<>>

(***************************************************************************)
(* The edge and the receiver (external)                                    *)
(***************************************************************************)
\* What a sound edge answers, by kind of request.
Refusals(req) ==
  CASE req.kind = "valid"            -> IF BodyBytes(req.specs) > MaxBody THEN {413} ELSE {503}
    [] req.kind = "oversize"         -> {413}
    [] req.kind = "bad-content-type" -> {415}
    [] req.kind = "malformed"        -> {400}
    [] req.kind = "wrong-signal"     -> {404}
    [] req.kind \in {"waf-trigger", "rate-burst"} -> {403}

\* The records a request carries.  Only the plans of a data or a structured mode
\* embed the run id; the others send one record without it, or none.
Carried(i) ==
  LET req == plans[i] IN
    IF req.kind = "valid"
    THEN {[run |-> run, req |-> i, pos |-> p, ev |-> req.specs[p].ev] : p \in DOMAIN req.specs}
    ELSE IF req.kind \in {"malformed", "wrong-signal"} THEN {}
         ELSE {[run |-> 0, req |-> i, pos |-> 1, ev |-> req.kind]}

\* The answer of a sound edge that is not overloaded.
Proper(req) == IF req.kind = "valid" /\ BodyBytes(req.specs) <= MaxBody THEN 200
               ELSE CHOOSE s \in Refusals(req) : TRUE

\* The answers to a request and whether the receiver took it: a refusal, an
\* acceptance, or a transport failure (status 0) on either side of the acceptance.
Answers(req) ==
  {[status |-> s, taken |-> FALSE] : s \in Refusals(req) \cup {0}}
    \cup (IF req.kind = "valid" /\ BodyBytes(req.specs) > MaxBody THEN {}
          ELSE {[status |-> 200, taken |-> TRUE], [status |-> 0, taken |-> TRUE]})

(***************************************************************************)
(* Counting                                                                *)
(***************************************************************************)
\* The number of members of S for each event type in it.
CountsByEvent(S) ==
  [e \in {x.ev : x \in S} |-> Cardinality({x \in S : x.ev = e})]

\* The query without the run id.
CountQueryAnyRun(r) == CountsByEvent({o \in lake : o.tool = "e2e-smoke"})

\* SELECT event_type, count(*) WHERE tool = ? AND $.run_id = ?: every copy is a row.
CountQuery(r) == CountsByEvent({o \in lake : o.tool = "e2e-smoke" /\ o.run = r})

reconcile_counts(expected, found) ==
  \A e \in DOMAIN expected : e \in DOMAIN found /\ found[e] >= expected[e]

\* A listing under the tool's prefix, of every date or of one.
ToolObjects == {o \in lake : o.tool = "e2e-smoke"}

\* The prefix without the tool.
DatePartitionAnyTool(d) == {o \in lake : o.dt = d}

DatePartition(d) == {o \in ToolObjects : o.dt = d}

(***************************************************************************)
(* The pipeline (external)                                                 *)
(***************************************************************************)
\* A service fails once more.
Fault ==
  /\ faults < MaxFaults
  /\ faults' = faults + 1

\* The collector writes a record to the log group, whose subscription hands it to
\* Firehose: the dt of its object is the day it arrives there.
Export(rec) ==
  /\ rec \in collector
  /\ collector' = collector \ {rec}
  /\ cwl' = cwl \cup {rec}
  /\ stream' = stream \cup {[rec |-> rec, dt |-> day, copy |-> 1]}
  /\ UNCHANGED <<harness, verifier, history, day, lake, errors, faults>>

\* The exporter gives a record up.
Drop(rec) ==
  /\ rec \in collector
  /\ Fault
  /\ collector' = collector \ {rec}
  /\ UNCHANGED <<harness, verifier, history, day, cwl, stream, lake, errors>>

\* The clean-up is between two pages of the date.
BeingListed(d) == token /\ d = manifest.day

\* residue: it came when the listing of its date had begun or was over, or S3 refused to
\* delete it.
ObjectOf(s) ==
  [tool |-> "e2e-smoke", run |-> s.rec.run, req |-> s.rec.req, pos |-> s.rec.pos,
   ev |-> s.rec.ev, dt |-> s.dt, copy |-> s.copy,
   residue |-> s.dt \in cleaned \/ BeingListed(s.dt)]

\* Firehose writes what it buffered, under a key that may sort behind the place a listing
\* has reached; it may deliver a record once more.
Flush(s, again) ==
  /\ s \in stream
  /\ IF again THEN s.copy < MaxCopies /\ Fault ELSE UNCHANGED faults
  /\ stream' = (stream \ {s}) \cup (IF again THEN {[s EXCEPT !.copy = @ + 1]} ELSE {})
  /\ lake' = lake \cup {ObjectOf(s)}
  /\ landed' = landed \cup {[rec |-> s.rec, copy |-> s.copy]}
  /\ listed' \in {listed} \cup IF BeingListed(s.dt) THEN {listed \cup {ObjectOf(s)}} ELSE {}
  /\ UNCHANGED <<harness, polls, query, fails, token, day, collector, cwl, errors, accepted,
                 passed, cleaned>>

\* The transform fails and Firehose writes an error object instead.
FlushError(s) ==
  /\ s \in stream
  /\ Fault
  /\ stream' = stream \ {s}
  /\ errors' = errors \cup {[day |-> day, during |-> run]}
  /\ UNCHANGED <<harness, verifier, history, day, collector, cwl, lake>>

Midnight ==
  /\ day < MaxDay
  /\ day' = day + 1
  /\ UNCHANGED <<harness, verifier, history, collector, cwl, stream, lake, errors, faults>>

\* Athena runs the query that was started, at some moment before it settles.
AthenaSettles ==
  /\ query.state = "running"
  /\ pc \notin Ended
  /\ \/ query' = [state |-> "SUCCEEDED", rows |-> CountQuery(run)] /\ UNCHANGED faults
     \/ query' = [state |-> "FAILED", rows |-> <<>>] /\ Fault
  /\ UNCHANGED <<harness, history, polls, fails, listed, token, day, collector, cwl, stream, lake,
                 errors>>

\* Once the gate has ended nobody looks: the pipeline is followed up to there.
Pipeline ==
  /\ pc \notin Ended
  /\ \/ \E rec \in collector : Export(rec) \/ Drop(rec)
     \/ \E s \in stream : FlushError(s) \/ \E again \in BOOLEAN : Flush(s, again)
     \/ Midnight

(***************************************************************************)
(* The load generator                                                      *)
(***************************************************************************)
\* The next step of the gate with the probes that failed at this one.  Every step
\* starts with a fresh poll budget.
Goto(step, failed) ==
  /\ pc' = step
  /\ fails' = fails \cup failed
  /\ polls' = PollBudget

\* make stops at the first command that exits non-zero.
Exit1 ==
  /\ pc' = "red"
  /\ UNCHANGED <<polls, fails>>

\* run: started_at is read, then the requests are built.  The grpc-probe mode has no
\* request: it asks for a TCP listener and passes when there is none.
Start ==
  /\ pc = "start"
  /\ plans' = build_plans(gate[run])
  /\ answers' = <<>>
  /\ manifest' = [NoManifest EXCEPT !.run = run, !.day = day]
  /\ IF gate[run] = "grpc-probe" /\ "no-grpc" \notin stack THEN Exit1 ELSE Goto("post", {})
  /\ UNCHANGED <<gate, run, stack, query, listed, token, pipeline, history>>

\* _send_one and post: pool.map collects the results in the order of the plans; the
\* requests touch disjoint records, so their order does not matter.
Send ==
  /\ pc = "post"
  /\ Len(answers) < Len(plans)
  /\ LET i == Len(answers) + 1 IN
       \E a \in Answers(plans[i]) :
         /\ answers' = Append(answers, a.status)
         /\ collector' = IF a.taken THEN collector \cup Carried(i) ELSE collector
         /\ accepted' = IF a.status = 200 THEN accepted \cup Carried(i) ELSE accepted
         /\ IF a.status = Proper(plans[i]) THEN UNCHANGED faults ELSE Fault
  /\ UNCHANGED <<gate, run, pc, stack, plans, manifest, verifier, day, cwl, stream, lake,
                 errors, landed, passed, cleaned>>

\* _populate_manifest: the specs of the requests answered 200 on a landing path.
Counted ==
  LET ok == {i \in DOMAIN plans : answers[i] = 200 /\ plans[i].path \in LandingPaths}
  IN UNION {{[req |-> i, pos |-> p, ev |-> plans[i].specs[p].ev] : p \in DOMAIN plans[i].specs}
              : i \in ok}

RequestOk(i) == answers[i] \in plans[i].expect

\* The manifest is written whatever the requests returned; the exit code is 1 when
\* one of them deviates, and then make never starts the verifier.
WriteManifest ==
  /\ pc = "post"
  /\ Len(answers) = Len(plans)
  /\ manifest' = [manifest EXCEPT !.counts = CountsByEvent(Counted),
                                  !.total = Cardinality(Counted)]
  /\ IF \A i \in DOMAIN plans : RequestOk(i) THEN Goto("cwl", {}) ELSE Exit1
  /\ UNCHANGED <<gate, run, stack, plans, answers, query, listed, token, pipeline, history>>

(***************************************************************************)
(* The verifier                                                            *)
(***************************************************************************)
verifierStays == <<gate, run, stack, plans, answers, manifest, listed, token, pipeline, history>>

\* The deadline is never reached.
ExpiredNever == FALSE

\* remaining <= 0
Expired == polls = 0

\* poll_until: the predicate first, then the deadline.
PollAgain ==
  /\ ~Expired
  /\ polls' = IF polls = 0 THEN 0 ELSE polls - 1
  /\ UNCHANGED <<pc, fails>>

PollUntil(ready, next, timeout, failed) ==
  \/ ready /\ Goto(next, {})
  \/ ~ready /\ Expired /\ Goto(timeout, failed)
  \/ ~ready /\ PollAgain

\* Discovery: resources are found by listing, by name pattern or by schema.
discover_log_group == "log-group" \in stack

discover_firehose_stream == "stream" \in stack

discover_glue_table == "table" \in stack

discover_workgroup == "workgroup" \in stack

\* The destination the stream reports.
HasBucket == discover_firehose_stream /\ "bucket" \in stack

is_projected_partition == "enum" \in stack

\* _count_run_events follows every page; the run id is what it filters on.
CwlReceived ==
  LET n == Cardinality({rec \in cwl : rec.run = manifest.run})
  IN n >= manifest.total /\ n >= 1

check_cwl ==
  /\ pc = "cwl"
  /\ IF ~discover_log_group
     THEN Goto("firehose", {"cwl:log-group"})
     ELSE PollUntil(CwlReceived, "firehose", "firehose", {"cwl:received"})
  /\ UNCHANGED <<query, verifierStays>>

\* The delivery metrics are OK or INFO and never fail the run.
check_firehose ==
  /\ pc = "firehose"
  /\ IF ~discover_firehose_stream THEN Goto("glue", {"firehose:stream"}) ELSE Goto("s3", {})
  /\ UNCHANGED <<query, verifierStays>>

\* check_s3: any object under the tool's prefix will do, of this run or another.
check_s3 ==
  /\ pc = "s3"
  /\ IF ~HasBucket
     THEN Goto("glue", {"s3:bucket"})
     ELSE PollUntil(ToolObjects # {}, "s3:encryption", "glue", {"s3:objects"})
  /\ UNCHANGED <<query, verifierStays>>

\* str(LastModified) >= started_at compares "YYYY-MM-DD hh:mm" with "YYYY-MM-DDThh:mm":
\* on the same date the blank sorts before the T, so only a later date is fresh.
Fresh(e) == e.day > manifest.day

check_s3_objects ==
  /\ pc = "s3:encryption"
  /\ Goto("glue", (IF "kms" \in stack THEN {} ELSE {"s3:encryption"})
                    \cup (IF \E e \in errors : Fresh(e) THEN {"s3:errors"} ELSE {}))
  /\ UNCHANGED <<query, verifierStays>>

\* A projected table has no physical partition to wait for.
check_glue ==
  /\ pc = "glue"
  /\ CASE ~discover_glue_table -> Goto("embed", {"glue:table"})
       [] discover_glue_table /\ is_projected_partition -> Goto("athena", {})
       [] OTHER -> PollUntil("partitions" \in stack, "athena", "athena", {"glue:partitions"})
  /\ UNCHANGED <<query, verifierStays>>

StartQuery == query' = [state |-> "running", rows |-> <<>>]

\* check_athena up to the queryability guard.
check_athena ==
  /\ pc = "athena"
  /\ IF ~discover_workgroup
     THEN Goto("embed", {"athena:workgroup"}) /\ UNCHANGED query
     ELSE Goto("queryable", {"cost-cap", "results-encrypted"} \ stack) /\ StartQuery
  /\ UNCHANGED verifierStays

\* _run_athena_query: poll until the query settles; whatever is not SUCCEEDED fails.
Settled == query.state \in {"SUCCEEDED", "FAILED"}

QueryFailed ==
  \/ query.state = "FAILED"
  \/ query.state = "running" /\ Expired

AwaitQuery ==
  /\ ~Settled
  /\ PollAgain
  /\ UNCHANGED query

\* The guard's failure does not stop the reconciliation.
check_queryable ==
  /\ pc = "queryable"
  /\ \/ AwaitQuery
     \/ /\ QueryFailed \/ query.state = "SUCCEEDED"
        /\ LET failed == IF QueryFailed THEN {"athena:queryable"} ELSE {} IN
             IF DOMAIN manifest.counts = {}
             THEN Goto("embed", failed) /\ query' = NoQuery
             ELSE Goto("reconcile", failed) /\ StartQuery
  /\ UNCHANGED verifierStays

\* The counts are reconciled once: a run that is still in the buffer fails here.
check_reconcile ==
  /\ pc = "reconcile"
  /\ \/ AwaitQuery
     \/ /\ QueryFailed
        /\ Goto("embed", {"athena:query"})
        /\ query' = NoQuery
     \/ /\ query.state = "SUCCEEDED"
        /\ Goto("embed", IF reconcile_counts(manifest.counts, query.rows)
                         THEN {} ELSE {"athena:reconcile"})
        /\ query' = NoQuery
  /\ UNCHANGED verifierStays

\* _check_quicksight only observes; check_embed_lambda fails when the function lets a
\* bad token or a bad origin through.
check_embed_lambda ==
  /\ pc = "embed"
  /\ Goto("cleanup", IF "embed-guards" \in stack THEN {} ELSE {"embed:guards"})
  /\ UNCHANGED <<query, verifierStays>>

cleanupStays == <<gate, run, stack, plans, answers, manifest, query, day, collector, cwl,
                  stream, errors, accepted, landed, passed>>

\* _cleanup_run_objects without a destination.
CleanupImpossible ==
  /\ pc = "cleanup"
  /\ ~HasBucket
  /\ Goto("verdict", {"cleanup:objects"})
  /\ UNCHANGED <<cleanupStays, listed, token, lake, cleaned, faults>>

\* The listing stops at its first page.
DeleteFirstPageOnly ==
  /\ pc = "cleanup"
  /\ HasBucket
  /\ \E page \in SUBSET DatePartition(manifest.day) :
       /\ Cardinality(page) = IF Cardinality(DatePartition(manifest.day)) > PageKeys
                              THEN PageKeys ELSE Cardinality(DatePartition(manifest.day))
       /\ lake' = lake \ page
  /\ Goto("verdict", {})
  /\ cleaned' = cleaned \cup {manifest.day}
  /\ UNCHANGED <<cleanupStays, listed, token, faults>>

\* _delete_prefix: one page is listed, from the continuation token on, and deleted; the
\* last page has no token.  The per-key errors of a quiet delete_objects are in the
\* response, which is not read: a key may stay.
DeletePage ==
  /\ pc = "cleanup"
  /\ HasBucket
  /\ LET todo == DatePartition(manifest.day) \ listed IN
     \E page \in SUBSET todo : \E kept \in {k \in SUBSET page : Cardinality(k) <= 1} :
       /\ Cardinality(page) = IF Cardinality(todo) > PageKeys THEN PageKeys
                              ELSE Cardinality(todo)
       /\ lake' = (lake \ page) \cup {[o EXCEPT !.residue = TRUE] : o \in kept}
       /\ IF kept = {} THEN UNCHANGED faults ELSE Fault
       /\ token' = (page # todo)
       /\ IF page = todo
          THEN /\ Goto("verdict", {})
               /\ listed' = {}
               /\ cleaned' = cleaned \cup {manifest.day}
          ELSE /\ listed' = listed \cup {[o EXCEPT !.residue = TRUE] : o \in kept}
               /\ UNCHANGED <<pc, fails, polls, cleaned>>
  /\ UNCHANGED cleanupStays

\* run: the exit code, and the next command of the gate.
Verdict ==
  /\ pc = "verdict"
  /\ fails' = {}
  /\ polls' = PollBudget
  /\ IF fails # {}
     THEN pc' = "red" /\ UNCHANGED <<run, passed>>
     ELSE /\ passed' = passed \cup {run}
          /\ pc' = IF run = Len(gate) THEN "green" ELSE "start"
          /\ run' = IF run = Len(gate) THEN run ELSE run + 1
  /\ UNCHANGED <<gate, stack, plans, answers, manifest, query, listed, token, pipeline,
                 accepted, landed, cleaned>>

\* An API call raises, or the evidence cannot be written; nothing catches it, and what is
\* left of the clean-up does not run.
ApiError ==
  /\ pc \in {"guard", "cwl", "firehose", "s3", "s3:encryption", "glue", "athena", "queryable",
             "reconcile", "embed", "cleanup", "verdict"}
  /\ Fault
  /\ Exit1
  /\ UNCHANGED <<gate, run, stack, plans, answers, manifest, query, listed, token, day, collector,
                 cwl, stream, lake, errors, history>>

(***************************************************************************)
(* The queryability check, the first command of the gate                   *)
(***************************************************************************)
check_queryability ==
  /\ pc = "guard"
  /\ \/ /\ query = NoQuery
        /\ IF discover_glue_table /\ discover_workgroup
           THEN StartQuery /\ UNCHANGED <<pc, fails, polls>>
           ELSE Exit1 /\ UNCHANGED query
     \/ query.state = "running" /\ AwaitQuery
     \/ QueryFailed /\ Exit1 /\ query' = NoQuery
     \/ /\ query.state = "SUCCEEDED"
        /\ IF is_projected_partition THEN Goto("start", {}) ELSE Exit1
        /\ query' = NoQuery
  /\ UNCHANGED verifierStays

-----------------------------------------------------------------------------
ProductionRow ==
  [tool |-> "claude", run |-> 0, req |-> 0, pos |-> 0, ev |-> "production", dt |-> 0,
   copy |-> 1, residue |-> FALSE]

Init ==
  /\ \E d \in Deployments :
       /\ gate = d.gate
       /\ stack = d.stack
       /\ pc = IF d.guard THEN "guard" ELSE "start"
  /\ run = 1
  /\ plans = <<>>
  /\ answers = <<>>
  /\ manifest = NoManifest
  /\ polls = PollBudget
  /\ query = NoQuery
  /\ fails = {}
  /\ listed = {} /\ token = FALSE
  /\ day = 0
  /\ collector = {} /\ cwl = {} /\ stream = {} /\ errors = {}
  /\ lake = {ProductionRow}
  /\ faults = 0
  /\ accepted = {} /\ landed = {} /\ passed = {} /\ cleaned = {}

Harness ==
  \/ check_queryability
  \/ Start \/ Send \/ WriteManifest
  \/ check_cwl \/ check_firehose \/ check_s3 \/ check_s3_objects
  \/ check_glue \/ check_athena \/ check_queryable \/ check_reconcile
  \/ check_embed_lambda
  \/ CleanupImpossible \/ DeletePage
  \/ Verdict
  \/ ApiError

Next == Harness \/ AthenaSettles \/ Pipeline

\* The gate is a program that runs: it takes its next step.  Nothing is assumed of the
\* pipeline.
Spec == Init /\ [][Next]_vars /\ WF_vars(Harness)

(***************************************************************************)
(* Properties                                                              *)
(***************************************************************************)
\* A record without a run id is known by the mode that sent it.
Events == ToSet(EventTypes) \cup ToSet(Structured) \cup Modes

Records == [run : 0..Len(gate), req : Nat, pos : Nat, ev : Events]

\* Every variable holds a value of its kind.
TypeOK ==
  /\ run \in 1..Len(gate)
  /\ day \in 0..MaxDay
  /\ polls \in 0..PollBudget
  /\ Len(answers) <= Len(plans)
  /\ \A rec \in collector \cup cwl \cup accepted : rec \in Records
  /\ \A o \in lake : o.copy \in 1..MaxCopies /\ o.dt \in 0..day
  /\ query.state \in {"none", "running", "SUCCEEDED", "FAILED"}
  /\ passed \subseteq 1..Len(gate)

\* A run that passed lost nothing: every record the receiver acknowledged reached the
\* lake, unless Firehose doubled one of the run's records and the copy filled the gap
\* (reconcile_counts asks for at least the expected count).
GreenRunLostNothing ==
  \A r \in passed :
    \/ \E l \in landed : l.rec.run = r /\ l.copy > 1
    \/ \A rec \in accepted : rec.run = r => [rec |-> rec, copy |-> 1] \in landed

\* What the clean-up leaves under a date it cleaned arrived when the listing of that date
\* had begun, or was refused by S3: the paged deletion misses nothing that was there when
\* it began, although objects come in behind and before its token (_delete_prefix).
ResidueIsLate ==
  \A o \in ToolObjects : o.dt \in cleaned => o.residue

\* An object leaves the lake only when it is synthetic, of the date the run started on,
\* and of a run whose verification is over or is the one being cleaned up.
CleanupTouchesOwnData ==
  [][\A o \in lake : (~ \E p \in lake' : [p EXCEPT !.residue = o.residue] = o) =>
        /\ o.tool = "e2e-smoke"
        /\ o.dt = manifest.day
        /\ o.run \in passed \cup {0, run}]_vars

\* The gate ends: every wait of the verifier has a budget (poll_until).
GateEnds == <>(pc \in Ended)

\* No run passes its object check while an error object was written since it started:
\* "with no fresh errors/ objects" (e2e_verify.py). The code does not satisfy it: dates are
\* compared as text.
FreshErrorsFail ==
  [][(pc = "s3:encryption" /\ pc' = "glue" /\ \E e \in errors : e.during = run)
       => "s3:errors" \in fails']_vars
=============================================================================
