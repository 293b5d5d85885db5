----------------------------- MODULE MCCwlSplit -----------------------------
(***************************************************************************)
(* A delivery with the three kinds of events that are easily confused,     *)
(* beside a control message; one with two rows of one event, beside a      *)
(* record that does not decompress; one without any row, beside a healthy  *)
(* one.                                                                    *)
(***************************************************************************)
EXTENDS CwlSplit

CONSTANTS d1, d2     \* the deliveries

Msg(id, tool, emf, otlp, service, metrics) ==
  [id |-> id, tool |-> tool, emf |-> emf, otlp |-> otlp, service |-> service, metrics |-> metrics]

\* A metric declared again by a dimension rollup, and an entry without a name.
RollupEvent     == Msg(1, None, TRUE, FALSE, "claude-code", <<"tokens", None, "tokens">>)
\* A body-contract event with the fields of the other two kinds.
ToolEvent       == Msg(2, "example-cli", TRUE, TRUE, "claude-code", <<"tokens">>)
\* A structured record of a service that is not registered.
StrayEvent      == Msg(3, None, FALSE, TRUE, "stray", <<>>)
\* Two metrics in an event that also looks structured, and a registered record.
TwoMetricsEvent == Msg(4, None, TRUE, TRUE, "claude-code", <<"tokens", "cost">>)
RegisteredEvent == Msg(5, None, FALSE, TRUE, "claude-code", <<>>)
\* No usable name at all: the event yields no row.
NamelessEvent   == Msg(6, None, TRUE, FALSE, "claude-code", <<None>>)

Data(log) == [kind |-> "data", events |-> log]
Control   == [kind |-> "control", events |-> <<>>]
Garbled   == [kind |-> "malformed", events |-> <<>>]

MCMessages == {RollupEvent, ToolEvent, StrayEvent, TwoMetricsEvent, RegisteredEvent, NamelessEvent}

MCEnvelopes ==
  LET Holding(a, b) == [d \in Deliveries |-> IF d = d1 THEN a ELSE b]
  IN  {Holding(Data(<<RollupEvent, ToolEvent, StrayEvent>>), Control),
       Holding(Data(<<TwoMetricsEvent>>), Garbled),
       Holding(Data(<<NamelessEvent>>), Data(<<RegisteredEvent>>))}

MCServiceToolMap == [s \in {"claude-code"} |-> "claude-code"]
=============================================================================
