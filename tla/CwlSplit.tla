------------------------------ MODULE CwlSplit ------------------------------
(***************************************************************************)
(* The transform Lambda of the data lake (data-lake/lambda/cwl_split) and  *)
(* the delivery stream around it.  A CloudWatch Logs delivery is one       *)
(* compressed record with many log events; the Lambda reshapes every event *)
(* into rows, puts the rows back into the same stream and drops the        *)
(* original.  Rows come round a second time, pass through and reach raw/,  *)
(* or errors/ when they name no tool.                                      *)
(*                                                                         *)
(* A put may fail for some of its records, or raise although some landed;  *)
(* an invocation may be lost (timeout, crash) between any two calls and    *)
(* the stream then invokes the Lambda again with the same records.         *)
(***************************************************************************)
EXTENDS Integers, Sequences, FiniteSets, SequencesExt

CONSTANTS
  Messages,              \* log events: [id, tool, emf, otlp, service, metrics]
  Deliveries,            \* compressed records from the subscription
  Envelopes,             \* what the deliveries may hold: [kind, events] for each
  ServiceToolMap,        \* SERVICE_TOOL_MAP: service name -> tool
  PutRecordBatchMax,     \* _PUT_RECORD_BATCH_MAX
  ReingestMaxAttempts,   \* _REINGEST_MAX_ATTEMPTS
  StreamRetries,         \* bound: how often the stream tries something again
  MaxBatch               \* bound: records of one invocation

\* An absent key, a JSON null.
None == "none"

\* Metric names are told apart from the names of the other forms of a row.
ASSUME MessagesAssumption ==
  \A m \in Messages :
    /\ {"tool", "emf", "otlp", "service", "metrics"} \subseteq DOMAIN m
    /\ m.emf \in BOOLEAN /\ m.otlp \in BOOLEAN
    /\ IsFiniteSet(ToSet(m.metrics)) /\ ToSet(m.metrics) \cap {"original", "otlp"} = {}
\* A control message has no log events, and a log event is in one delivery once: its id.
ASSUME EnvelopeAssumption ==
  \A holding \in Envelopes, d \in Deliveries :
    /\ holding[d].kind \in {"data", "control", "malformed"}
    /\ holding[d].events \in Seq(Messages)
    /\ holding[d].kind = "control" => holding[d].events = <<>>
    /\ \A e \in Deliveries : \A i \in DOMAIN holding[d].events, j \in DOMAIN holding[e].events :
         holding[d].events[i] = holding[e].events[j] => d = e /\ i = j
ASSUME BudgetAssumption ==
  /\ PutRecordBatchMax \in Nat \ {0} /\ ReingestMaxAttempts \in Nat \ {0}
  /\ StreamRetries \in Nat /\ MaxBatch \in Nat \ {0}

-----------------------------------------------------------------------------
(***************************************************************************)
(* Reshaping.  A message is known by what the classifier tests: its        *)
(* top-level tool, whether it is an EMF event or a structured OTLP record, *)
(* its service and the metric names it declares (None: not a usable name). *)
(***************************************************************************)

\* The bytes as they came; a top-level tool is what the stream partitions by.
Original(m) == [msg |-> m, form |-> "original", tool |-> m.tool]

\* The row _reshape_claude builds from a structured record.
ClaudeRow(m) == [msg |-> m, form |-> "otlp", tool |-> ServiceToolMap[m.service]]

\* The row _reshape_emf builds for one metric.
MetricRow(m, name) == [msg |-> m, form |-> name, tool |-> ServiceToolMap[m.service]]

\* The distinct usable metric names: a dimension rollup declares a name twice.
MetricNames(m) == SetToSeq(ToSet(m.metrics) \ {None})

\* Mutant of IsEmf: a top-level tool no longer wins.
IsEmfDespiteTool(m) == m.emf

IsEmf(m) == m.tool = None /\ m.emf

IsStructured(m) == m.tool = None /\ ~m.emf /\ m.otlp

\* A KeyError out of _reshape_claude or _reshape_emf.
ReshapeRaises(m) == (IsEmf(m) \/ IsStructured(m)) /\ m.service \notin DOMAIN ServiceToolMap

\* _reshape_records, with the per-record isolation of the handler.
ReshapeRecords(m) ==
  IF ReshapeRaises(m) THEN <<Original(m)>>
  ELSE IF IsEmf(m) THEN [i \in DOMAIN MetricNames(m) |-> MetricRow(m, MetricNames(m)[i])]
  ELSE IF IsStructured(m) THEN <<ClaudeRow(m)>>
  ELSE <<Original(m)>>

Rows == UNION {ToSet(ReshapeRecords(m)) : m \in Messages}

Records == Deliveries \cup Rows

\* A compressed record is told by its first bytes (_is_gzip).
ASSUME RecordsAssumption == IsFiniteSet(Records) /\ Deliveries \cap Rows = {}

-----------------------------------------------------------------------------
VARIABLES
  envelope,    \* what each delivery holds
  where,       \* each delivery: buffered in the stream, in an invocation, or how it ended
  stream,      \* rows buffered in the stream, with their number of copies
  raw,         \* copies delivered to raw/
  errors,      \* copies delivered to errors/
  inv,         \* the invocation: its batch, the record at hand, its answers so far
  put,         \* _reingest: rows of the chunk still to put, start of the next one, attempt
  starts       \* history: how often a delivery was handed to the splitter

vars == <<envelope, where, stream, raw, errors, inv, put, starts>>

Idle  == [batch |-> <<>>, at |-> 0, out |-> <<>>, tries |-> 0]
NoPut == [pending |-> {}, next |-> 0, attempt |-> 0]

Results == {"Ok", "Dropped", "ProcessingFailed"}

TypeOK ==
  /\ envelope \in Envelopes
  /\ where \in [Deliveries -> {"buffered", "invoked", "dropped", "errors"}]
  /\ stream \in [Rows -> Nat]
  /\ raw \in [Rows -> Nat]
  /\ errors \in [Rows -> Nat]
  /\ inv \in [batch : Seq(Records), at : 0..(Len(inv.batch) + 1), out : Seq(Results),
              tries : 0..StreamRetries]
  /\ put \in [pending : SUBSET Nat, next : Nat, attempt : 0..(ReingestMaxAttempts - 1)]
  /\ Cardinality(put.pending) <= PutRecordBatchMax
  /\ starts \in [Deliveries -> Nat]

Init ==
  /\ envelope \in Envelopes
  /\ where = [d \in Deliveries |-> "buffered"]
  /\ stream = [r \in Rows |-> 0]
  /\ raw = [r \in Rows |-> 0]
  /\ errors = [r \in Rows |-> 0]
  /\ inv = Idle
  /\ put = NoPut
  /\ starts = [d \in Deliveries |-> 0]

-----------------------------------------------------------------------------
\* How many of the records at positions I of s are r.
Count(s, I, r) == Cardinality({i \in I : s[i] = r})

\* The stream invokes the Lambda with some of its records.
Invoke ==
  /\ inv = Idle
  /\ \E S \in SUBSET ({d \in Deliveries : where[d] = "buffered"} \cup {r \in Rows : stream[r] > 0}) :
       /\ Cardinality(S) \in 1..MaxBatch
       /\ \E batch \in SetToSeqs(S) : inv' = [Idle EXCEPT !.batch = batch, !.at = 1]
       /\ where' = [d \in Deliveries |-> IF d \in S THEN "invoked" ELSE where[d]]
       /\ stream' = [r \in Rows |-> IF r \in S THEN stream[r] - 1 ELSE stream[r]]
  /\ UNCHANGED <<raw, errors, put, starts, envelope>>

\* The record the handler's loop has reached.
AtRecord == inv.at \in DOMAIN inv.batch
Record == inv.batch[inv.at]

\* The handler answers for the record and goes on.
Answer(result) ==
  /\ inv' = [inv EXCEPT !.out = Append(@, result), !.at = @ + 1]
  /\ put' = NoPut

\* Not compressed: a row that comes round again.
PassThrough ==
  /\ AtRecord /\ put = NoPut
  /\ Record \in Rows
  /\ Answer("Ok")
  /\ UNCHANGED <<where, stream, raw, errors, starts, envelope>>

\* A subscription control message carries no log data.
DropControl ==
  /\ AtRecord /\ put = NoPut
  /\ Record \in Deliveries /\ envelope[Record].kind = "control"
  /\ Answer("Dropped")
  /\ UNCHANGED <<where, stream, raw, errors, starts, envelope>>

\* The events list of one delivery.
EventsOf(d) ==
  LET log == envelope[d].events
  IN  FlattenSeq([i \in DOMAIN log |-> ReshapeRecords(log[i])])

\* The next chunk, records[start : start + 500] of the rows of this record.
Chunk(start) ==
  LET rows == EventsOf(Record)
  IN  [pending |-> {i \in DOMAIN rows : start <= i /\ i < start + PutRecordBatchMax},
       next |-> start + PutRecordBatchMax, attempt |-> 0]

\* There are rows after the current chunk.
More == put.next <= Len(EventsOf(Record))

\* The log events are reshaped one by one; without any row nothing is put.
Split ==
  /\ AtRecord /\ put = NoPut
  /\ Record \in Deliveries /\ envelope[Record].kind = "data"
  /\ starts' = [starts EXCEPT ![Record] = @ + 1]
  /\ IF EventsOf(Record) = <<>> THEN Answer("Dropped")
     ELSE put' = Chunk(1) /\ UNCHANGED inv
  /\ UNCHANGED <<where, stream, raw, errors, envelope>>

\* The rows of the chunk that land in the stream.
Landed(I) == LET rows == EventsOf(Record) IN [r \in Rows |-> stream[r] + Count(rows, I, r)]

\* Mutant of Retried: the whole chunk is sent again.
RetriedWhole(failed) == put.pending

\* pending = [pending[i] for i, res in enumerate(results) if res.get("ErrorCode")]
Retried(failed) == failed

\* Mutant of PutRecordBatch: the last attempt does not raise.
PutRecordBatchForgiving(failed) ==
  /\ put.pending # {}
  /\ stream' = Landed(put.pending \ failed)
  /\ IF failed # {} /\ put.attempt < ReingestMaxAttempts - 1
     THEN put' = [put EXCEPT !.pending = Retried(failed), !.attempt = @ + 1] /\ UNCHANGED inv
     ELSE IF More THEN put' = Chunk(put.next) /\ UNCHANGED inv
     ELSE Answer("Dropped")
  /\ UNCHANGED <<where, raw, errors, starts, envelope>>

\* Mutant of PutRecordBatch: the attempts are never used up.
PutRecordBatchForEver(failed) ==
  /\ put.pending # {}
  /\ stream' = Landed(put.pending \ failed)
  /\ IF failed # {}
     THEN /\ put' = [put EXCEPT !.pending = Retried(failed),
                               !.attempt = (@ + 1) % ReingestMaxAttempts]
          /\ UNCHANGED inv
     ELSE IF More THEN put' = Chunk(put.next) /\ UNCHANGED inv
     ELSE Answer("Dropped")
  /\ UNCHANGED <<where, raw, errors, starts, envelope>>

\* One put_record_batch call of _reingest; failed are the rows with an
\* ErrorCode.  Only those are tried again, and the last attempt raises.
PutRecordBatch(failed) ==
  /\ put.pending # {}
  /\ stream' = Landed(put.pending \ failed)
  /\ IF failed # {}
     THEN IF put.attempt = ReingestMaxAttempts - 1 THEN Answer("ProcessingFailed")
          ELSE put' = [put EXCEPT !.pending = Retried(failed), !.attempt = @ + 1] /\ UNCHANGED inv
     ELSE IF More THEN put' = Chunk(put.next) /\ UNCHANGED inv
     ELSE Answer("Dropped")
  /\ UNCHANGED <<where, raw, errors, starts, envelope>>

\* The call raises, whatever of it landed: the record is reported failed.
PutRaises(landed) ==
  /\ put.pending # {}
  /\ stream' = Landed(landed)
  /\ Answer("ProcessingFailed")
  /\ UNCHANGED <<where, raw, errors, starts, envelope>>

\* The records of the batch that were answered with result.
AnsweredWith(result) == {inv.batch[i] : i \in {j \in DOMAIN inv.out : inv.out[j] = result}}

\* The handler returns.  An Ok row is partitioned by its tool; a Dropped record
\* is gone; a failed one is tried again or ends under errors/.
Return ==
  /\ inv # Idle /\ ~AtRecord
  /\ LET ok == AnsweredWith("Ok")
         Add(copies, S) == [r \in Rows |-> IF r \in S THEN copies[r] + 1 ELSE copies[r]]
     IN  /\ raw' = Add(raw, {r \in ok : r.tool # None})
         /\ errors' = Add(errors, {r \in ok : r.tool = None})
  /\ \E again \in SUBSET {d \in AnsweredWith("ProcessingFailed") : starts[d] <= StreamRetries} :
       where' = [d \in Deliveries |->
                   IF d \in AnsweredWith("Dropped") THEN "dropped"
                   ELSE IF d \in again THEN "buffered"
                   ELSE IF d \in AnsweredWith("ProcessingFailed") THEN "errors"
                   ELSE where[d]]
  /\ inv' = Idle
  /\ UNCHANGED <<stream, put, starts, envelope>>

\* Nothing of the invocation's answer arrives: the stream invokes again with
\* the same batch, or gives up and delivers all of it under errors/.
Abort ==
  \/ /\ inv.tries < StreamRetries
     /\ inv' = [inv EXCEPT !.at = 1, !.out = <<>>, !.tries = @ + 1]
     /\ UNCHANGED <<where, errors>>
  \/ /\ inv.tries = StreamRetries
     /\ inv' = Idle
     /\ where' = [d \in Deliveries |-> IF d \in ToSet(inv.batch) THEN "errors" ELSE where[d]]
     /\ errors' = [r \in Rows |-> IF r \in ToSet(inv.batch) THEN errors[r] + 1 ELSE errors[r]]

\* An envelope that does not decompress or parse raises out of the handler.
Malformed ==
  /\ AtRecord /\ put = NoPut
  /\ Record \in Deliveries /\ envelope[Record].kind = "malformed"
  /\ Abort
  /\ UNCHANGED <<stream, raw, put, starts, envelope>>

\* A timeout or a crash, wherever the handler is.
InvocationLost ==
  /\ inv # Idle
  /\ Abort
  /\ put' = NoPut
  /\ UNCHANGED <<stream, raw, starts, envelope>>

Lambda ==
  \/ PassThrough \/ DropControl \/ Split \/ Malformed \/ Return
  \/ \E failed \in SUBSET put.pending : PutRecordBatch(failed)

Next ==
  \/ Invoke
  \/ Lambda
  \/ \E landed \in SUBSET put.pending : PutRaises(landed)
  \/ InvocationLost

Spec == Init /\ [][Next]_vars

\* The stream keeps invoking while it holds records and the Lambda keeps running.
FairSpec == Spec /\ WF_vars(Invoke) /\ WF_vars(Lambda)

-----------------------------------------------------------------------------
(***************************************************************************)
(* Properties.                                                             *)
(***************************************************************************)

\* Where copies of a row are: buffered, in an invocation, delivered.
Copies(r) ==
  stream[r] + raw[r] + errors[r] + Count(inv.batch, DOMAIN inv.batch, r)

\* _reingest and the handler's answers: once a delivery is dropped, a row of
\* each of its events, and of each metric an event declares, is in the stream
\* or delivered, however the puts failed.
NoEventLost ==
  \A d \in Deliveries : where[d] = "dropped" =>
    \A i \in DOMAIN envelope[d].events :
      LET m == envelope[d].events[i]
          Kept(forms) == \E r \in Rows : r.msg = m /\ r.form \in forms /\ Copies(r) > 0
      IN  IF m.emf THEN \A name \in ToSet(m.metrics) \ {None} : Kept({name, "original"})
          ELSE Kept({"otlp", "original"})

\* One pass of the splitter puts a row at most once, retries included: rows are
\* counted twice only when the stream handed the delivery over twice.
NoRowTwicePerPass ==
  \A d \in Deliveries, r \in Rows :
    r.msg \in ToSet(envelope[d].events) => Copies(r) <= starts[d]

\* raw/ holds only rows whose tool is vouched for: a body-contract event as it
\* came, under its own tool, or a reshaped event under the tool its service is
\* registered for.
RawRowsAttributed ==
  \A r \in Rows : raw[r] > 0 =>
    \/ r.msg.tool # None /\ r.form = "original" /\ r.tool = r.msg.tool
    \/ /\ r.msg.tool = None /\ r.form # "original"
       /\ r.msg.service \in DOMAIN ServiceToolMap /\ r.tool = ServiceToolMap[r.msg.service]

\* Whatever fails, every delivery ends dropped or under errors/ and every row
\* delivered: the re-ingestion loop does not feed itself.
StreamDrains ==
  <>[](/\ inv = Idle
       /\ \A d \in Deliveries : where[d] \in {"dropped", "errors"}
       /\ \A r \in Rows : stream[r] = 0)
=============================================================================
