----------------------------------- MODULE MCLive -----------------------------------
(***************************************************************************)
(* Small instances of what carries frames onward while they are captured:  *)
(* the live sink, the hub's socket, the OTLP sink and the metrics.  area   *)
(* says which of them a behaviour is about; the others stay at rest.       *)
(***************************************************************************)
EXTENDS SocketSink, HubSocket, OtlpSink, Metrics

CONSTANTS h1, h2, h3, h4
VARIABLE area
liveVars == <<vars, hubsVars, otlpVars, metricsVars, area>>

MCHubs == {h1, h2, h3, h4}
MCIds  == {<<"c2s", 1>>, <<"s2c", 1>>}

LiveInit ==
  /\ Init /\ HubsInit /\ OtlpInit /\ MetricsInit
  /\ area \in {"socket", "hubs", "otlp", "metrics"}

LiveNext ==
  \/ area = "socket" /\ Next /\ UNCHANGED <<hubsVars, otlpVars, metricsVars, area>>
  \/ area = "hubs" /\ HubsNext /\ UNCHANGED <<vars, otlpVars, metricsVars, area>>
  \/ area = "otlp" /\ OtlpNext /\ UNCHANGED <<vars, hubsVars, metricsVars, area>>
  \/ area = "metrics" /\ MetricsNext /\ UNCHANGED <<vars, hubsVars, otlpVars, area>>

(* Each sink's goroutine runs, its timers fire and its Close goes on; each hub process runs.  The
   other end, hub or collector, owes nothing. *)
LiveSpec ==
  /\ LiveInit /\ [][LiveNext]_liveVars
  /\ WF_vars(area = "socket" /\ Goroutine) /\ WF_vars(area = "socket" /\ CloseReturn)
  /\ \A h \in Hubs : WF_hubsVars(area = "hubs" /\ HubStep(h))
  /\ WF_otlpVars(area = "otlp" /\ Runs) /\ WF_otlpVars(area = "otlp" /\ GraceEnds)
  /\ WF_otlpVars(area = "otlp" /\ CloserReturns) /\ WF_otlpVars(area = "otlp" /\ HalfASecond)

(* The live sink loses nothing unaccounted for and a hub sees what it sends in order, while a hub that
   serves is the one the socket path leads to. *)
LiveFeedExact ==
  CASE area = "socket" -> TypeOK /\ Accounted /\ InOrder
    [] area = "hubs"   -> HubsTypeOK /\ ReachableUntilCancelled
    [] OTHER -> TRUE

(* The counters are exact and what they are counted from is let go. *)
MetricsExact == CountsExact /\ HoldsOnlyOpen

(* The live feed comes back after what breaks it: the sink redials a hub that went away, a socket path
   its owner left behind is taken over, and a finished operation is sent or given up on whatever the
   collector answers (SocketSink.run, listen, sendOperations). *)
FeedRecovers == AlwaysRedials /\ StaleReclaimed /\ GoesOut
=============================================================================
