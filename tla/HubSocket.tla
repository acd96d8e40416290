-------------------------------- MODULE HubSocket --------------------------------
(***************************************************************************)
(* Several hub processes and the one socket path they share: listen and    *)
(* the shutdown of Run in internal/hub/hub.go, a system call at a time.    *)
(*                                                                         *)
(* The path names at most one socket file, known here by the hub that      *)
(* bound it.  Closing a listener of Go's net package unlinks the path it   *)
(* was bound to, whichever socket is there by then, and so does os.Remove. *)
(***************************************************************************)
EXTENDS Naturals, FiniteSets

CONSTANTS Hubs,       \* hub processes, each started at most once
          NoSocket,   \* the path does not exist
          Overlap     \* when a hub may be started: see Start

ASSUME HubSocketAssumption ==
  /\ IsFiniteSet(Hubs) /\ NoSocket \notin Hubs
  /\ Overlap \in {"fresh", "start", "stop"}

VARIABLES
  pc,             \* pc[h]: where hub h is
  path,           \* the hub whose socket the path names, or NoSocket
  open,           \* the hubs whose listener is open
  cancelledHubs  \* the hubs whose context was cancelled

hubsVars == <<pc, path, open, cancelledHubs>>

Starting == {"stat", "dial", "remove", "bind"}
Stopping == {"draining", "removing"}
Over     == {"refused", "failed", "ended", "crashed"}

HubsTypeOK ==
  /\ pc \in [Hubs -> {"off", "serve"} \cup Starting \cup Stopping \cup Over]
  /\ path \in Hubs \cup {NoSocket}
  /\ open = {h \in Hubs : pc[h] = "serve"}
  /\ cancelledHubs \subseteq Hubs

HubsInit ==
  /\ pc = [h \in Hubs |-> "off"]
  /\ path = NoSocket
  /\ open = {}
  /\ cancelledHubs = {}

Goto(h, l) == pc' = [pc EXCEPT ![h] = l]

IsStopping(g) == pc[g] \in Stopping \/ (pc[g] = "serve" /\ g \in cancelledHubs)

(* The user starts a hub.  Overlap "fresh" lets two hubs start at once only where
   no socket is, "start" anywhere, and "stop" also while another one stops. *)
Start(h) ==
  /\ pc[h] = "off"
  /\ Overlap # "start" =>
       LET others == {g \in Hubs : pc[g] \in Starting}
       IN  Cardinality(others) <= IF path = NoSocket THEN 1 ELSE 0
  /\ Overlap # "stop"  => \A g \in Hubs : ~IsStopping(g)
  /\ Goto(h, "stat")
  /\ UNCHANGED <<path, open, cancelledHubs>>

(* listen: is something at the path? *)
Stat(h) ==
  /\ pc[h] = "stat"
  /\ Goto(h, IF path = NoSocket THEN "bind" ELSE "dial")
  /\ UNCHANGED <<path, open, cancelledHubs>>

InUseNever  == FALSE

InUse == path \in open

(* If it can be dialled, a hub is alive: ErrHubRunning. *)
DialPath(h) ==
  /\ pc[h] = "dial"
  /\ Goto(h, IF InUse THEN "refused" ELSE "remove")
  /\ UNCHANGED <<path, open, cancelledHubs>>

(* stale, reclaim *)
RemoveStale(h) ==
  /\ pc[h] = "remove"
  /\ path' = NoSocket
  /\ Goto(h, "bind")
  /\ UNCHANGED <<open, cancelledHubs>>

Bind(h) ==
  /\ pc[h] = "bind"
  /\ path = NoSocket
  /\ path' = h
  /\ open' = open \cup {h}
  /\ Goto(h, "serve")
  /\ UNCHANGED cancelledHubs

(* The address is in use: Run returns the error. *)
BindFails(h) ==
  /\ pc[h] = "bind"
  /\ path # NoSocket
  /\ Goto(h, "failed")
  /\ UNCHANGED <<path, open, cancelledHubs>>

(* The context ends. *)
CancelHub(h) ==
  /\ pc[h] = "serve"
  /\ Overlap # "stop" => \A g \in Hubs : pc[g] \notin Starting
  /\ cancelledHubs' = cancelledHubs \cup {h}
  /\ UNCHANGED <<pc, path, open>>

OpenAfter(h) == open \ {h}

(* The goroutine of Run closes the listener, which unlinks the path. *)
CloseListener(h) ==
  /\ pc[h] = "serve" /\ h \in cancelledHubs
  /\ path' = NoSocket
  /\ open' = OpenAfter(h)
  /\ Goto(h, "draining")
  /\ UNCHANGED cancelledHubs

(* wg.Wait returned. *)
HandlersDrained(h) ==
  /\ pc[h] = "draining"
  /\ Goto(h, "removing")
  /\ UNCHANGED <<path, open, cancelledHubs>>

(* The deferred os.Remove of the path. *)
RemoveOwn(h) ==
  /\ pc[h] = "removing"
  /\ path' = NoSocket
  /\ Goto(h, "ended")
  /\ UNCHANGED <<open, cancelledHubs>>

(* A hub killed at any point leaves its socket behind. *)
Crash(h) ==
  /\ pc[h] \in Starting \cup Stopping \cup {"serve"}
  /\ open' = open \ {h}
  /\ Goto(h, "crashed")
  /\ UNCHANGED <<path, cancelledHubs>>

HubStep(h) == \/ Stat(h) \/ DialPath(h) \/ RemoveStale(h) \/ Bind(h) \/ BindFails(h)
              \/ CloseListener(h) \/ HandlersDrained(h) \/ RemoveOwn(h)

HubsNext == \E h \in Hubs :
          \/ Start(h) \/ CancelHub(h) \/ Crash(h)
          \/ Stat(h) \/ DialPath(h) \/ RemoveStale(h) \/ Bind(h) \/ BindFails(h)
          \/ CloseListener(h) \/ HandlersDrained(h) \/ RemoveOwn(h)

HubsSpec     == HubsInit /\ [][HubsNext]_hubsVars
HubsFairSpec == HubsSpec /\ \A h \in Hubs : WF_hubsVars(HubStep(h))

-----------------------------------------------------------------------------
Serving(h) == pc[h] = "serve" /\ h \notin cancelledHubs

(* A hub that serves is the one the path leads to, and so the one every shim
   finds: Run "accepts shim connections until ctx is cancelled".  At most one
   hub serves, then. *)
ReachableUntilCancelled == \A h \in Hubs : Serving(h) => path = h

(* listen reclaims a stale socket, "refusing to steal one from a live hub".  Does not
   hold of hubs that start at one stale socket at once (Overlap): see README. *)
NeverSteals ==
  [][\A h \in Hubs : pc[h] = "remove" /\ pc'[h] = "bind" => path \notin open]_hubsVars

(* A hub that is started serves in the end unless another one does or it is
   killed: a socket left by a dead hub stops nobody. *)
StaleReclaimed ==
  \A h \in Hubs :
    pc[h] = "stat" ~> pc[h] \in {"serve", "crashed"} \/ \E g \in Hubs : pc[g] = "serve"
=============================================================================
