-------------------------------- MODULE AsyncSink --------------------------------
(***************************************************************************)
(* The file sink of internal/proxy/sink.go: a bounded channel drained by   *)
(* one goroutine, any number of emitters, any number of callers of Close.  *)
(*                                                                         *)
(* An envelope is the number of the Emit call that carries it.  The        *)
(* RWMutex is modelled as sync.RWMutex works: a writer announces itself,   *)
(* from when on TryRLock fails, and owns the lock once the readers left.   *)
(***************************************************************************)
EXTENDS Integers, Sequences, FiniteSets

CONSTANTS Emitter,     \* goroutines calling Emit
          Closer,      \* goroutines calling Close
          Buffer,      \* capacity of s.ch
          MaxEmits     \* bound: Emit calls in one run

ASSUME AsyncSinkAssumption ==
  /\ Buffer \in Nat \ {0}
  /\ MaxEmits \in Nat
  /\ IsFiniteSet(Emitter) /\ IsFiniteSet(Closer)

None     == 0
Envelope == 1 .. MaxEmits

VARIABLES
  emitter,    \* emitter[e]: the envelope whose Emit holds the read lock, or None
  sawOpen,    \* the emitters that hold it and found the sink open
  closer,     \* closer[c]: where a caller of Close is
  writer,     \* s.mu as its writer sees it: "none", "pending" or "owns"
  closed,     \* s.closed
  quit,       \* s.quit is closed
  done,       \* s.done is closed
  ch,         \* s.ch
  loop,       \* where the sink's goroutine is
  encoding,   \* the envelope it is writing
  dropped,    \* s.dropped
  emits,      \* history: Emit calls so far
  written,    \* history: the envelopes written, in order
  failed      \* history: the envelopes whose write failed, in order

vars == <<emitter, sawOpen, closer, writer, closed, quit, done, ch, loop, encoding,
          dropped, emits, written, failed>>

TypeOK ==
  /\ emitter \in [Emitter -> Envelope \cup {None}]
  /\ sawOpen \subseteq Emitter
  /\ closer \in [Closer -> {"out", "once", "wait", "in", "returned"}]
  /\ writer \in {"none", "pending", "owns"}
  /\ closed \in BOOLEAN /\ quit \in BOOLEAN /\ done \in BOOLEAN
  /\ ch \in Seq(Envelope) /\ Len(ch) <= Buffer
  /\ loop \in {"select", "encode", "drain", "drainEncode", "done"}
  /\ encoding \in Envelope \cup {None}
  /\ dropped \in Nat
  /\ emits \in 0 .. MaxEmits
  /\ written \in Seq(Envelope)
  /\ failed \in Seq(Envelope)

Init ==
  /\ emitter = [e \in Emitter |-> None]
  /\ sawOpen = {}
  /\ closer = [c \in Closer |-> "out"]
  /\ writer = "none"
  /\ closed = FALSE /\ quit = FALSE /\ done = FALSE
  /\ ch = <<>>
  /\ loop = "select" /\ encoding = None
  /\ dropped = 0
  /\ emits = 0 /\ written = <<>> /\ failed = <<>>

-----------------------------------------------------------------------------
(* Emit: TryRLock succeeds. *)
EmitLocks(e) ==
  /\ emitter[e] = None
  /\ emits < MaxEmits
  /\ writer = "none"
  /\ emits' = emits + 1
  /\ emitter' = [emitter EXCEPT ![e] = emits + 1]
  /\ UNCHANGED <<sawOpen, closer, writer, closed, quit, done, ch, loop, encoding,
                 dropped, written, failed>>

(* Emit: TryRLock fails, which is only ever Close at work. *)
EmitRefused(e) ==
  /\ emitter[e] = None
  /\ emits < MaxEmits
  /\ writer # "none"
  /\ emits' = emits + 1
  /\ dropped' = dropped + 1
  /\ UNCHANGED <<emitter, sawOpen, closer, writer, closed, quit, done, ch, loop,
                 encoding, written, failed>>

(* Emit under the read lock reads s.closed: a closed sink drops. *)
EmitFindsClosed(e) ==
  /\ emitter[e] # None
  /\ closed /\ e \notin sawOpen
  /\ dropped' = dropped + 1
  /\ emitter' = [emitter EXCEPT ![e] = None]
  /\ UNCHANGED <<sawOpen, closer, writer, closed, quit, done, ch, loop,
                 encoding, emits, written, failed>>

EmitFindsOpen(e) ==
  /\ emitter[e] # None
  /\ ~closed /\ e \notin sawOpen
  /\ sawOpen' = sawOpen \cup {e}
  /\ UNCHANGED <<emitter, closer, writer, closed, quit, done, ch, loop,
                 encoding, dropped, emits, written, failed>>

(* Faulty variants: a full buffer is waited for; it loses the envelope without
   counting it; it is exceeded. *)
EmitBlocks(e) ==
  /\ e \in sawOpen
  /\ Len(ch) < Buffer
  /\ ch' = Append(ch, emitter[e])
  /\ sawOpen' = sawOpen \ {e}
  /\ emitter' = [emitter EXCEPT ![e] = None]
  /\ UNCHANGED <<closer, writer, closed, quit, done, loop, encoding, dropped,
                 emits, written, failed>>

(* Faulty variant: an envelope is dropped and not counted. *)
DropUncounted == dropped

DropCounted == dropped + 1
HasRoom     == Len(ch) < Buffer

(* The select that never waits: queue the envelope or count it, and unlock. *)
EmitSends(e) ==
  /\ e \in sawOpen
  /\ \/ HasRoom /\ ch' = Append(ch, emitter[e]) /\ UNCHANGED dropped
     \/ ~HasRoom /\ dropped' = DropCounted /\ UNCHANGED ch
  /\ sawOpen' = sawOpen \ {e}
  /\ emitter' = [emitter EXCEPT ![e] = None]
  /\ UNCHANGED <<closer, writer, closed, quit, done, loop, encoding, emits,
                 written, failed>>

-----------------------------------------------------------------------------
(* Close: the first caller runs the Once and asks for the write lock. *)
CloseFirst(c) ==
  /\ closer[c] = "out"
  /\ ~closed /\ writer = "none"
  /\ closer' = [closer EXCEPT ![c] = "once"]
  /\ writer' = "pending"
  /\ UNCHANGED <<emitter, sawOpen, closed, quit, done, ch, loop, encoding, dropped,
                 emits, written, failed>>

(* Faulty variant: Close does not pair with the emitters' lock. *)
NoReadersAlways == TRUE

NoReaders == \A e \in Emitter : emitter[e] = None

(* Lock returns once no emitter holds a read lock. *)
CloseLocks(c) ==
  /\ closer[c] = "once" /\ writer = "pending"
  /\ NoReaders
  /\ writer' = "owns"
  /\ closed' = TRUE /\ quit' = TRUE
  /\ UNCHANGED <<emitter, sawOpen, closer, done, ch, loop, encoding, dropped, emits,
                 written, failed>>

CloseUnlocks(c) ==
  /\ closer[c] = "once" /\ writer = "owns"
  /\ writer' = "none"
  /\ closer' = [closer EXCEPT ![c] = "wait"]
  /\ UNCHANGED <<emitter, sawOpen, closed, quit, done, ch, loop, encoding, dropped,
                 emits, written, failed>>

(* A later caller waits inside the Once for the first, then goes on. *)
CloseAgain(c) ==
  /\ closer[c] = "out"
  /\ closed /\ writer = "none"
  /\ closer' = [closer EXCEPT ![c] = "wait"]
  /\ UNCHANGED <<emitter, sawOpen, writer, closed, quit, done, ch, loop, encoding,
                 dropped, emits, written, failed>>

(* Close returns, after closing the underlying writer. *)
CloseReturns(c) ==
  /\ closer[c] = "wait"
  /\ done
  /\ closer' = [closer EXCEPT ![c] = "returned"]
  /\ UNCHANGED <<emitter, sawOpen, writer, closed, quit, done, ch, loop, encoding,
                 dropped, emits, written, failed>>

-----------------------------------------------------------------------------
(* The goroutine's select chooses either ready case. *)
LoopTakes ==
  /\ loop \in {"select", "drain"}
  /\ ch # <<>>
  /\ encoding' = Head(ch)
  /\ ch' = Tail(ch)
  /\ loop' = IF loop = "select" THEN "encode" ELSE "drainEncode"
  /\ UNCHANGED <<emitter, sawOpen, closer, writer, closed, quit, done, dropped, emits,
                 written, failed>>

LoopQuits ==
  /\ loop = "select"
  /\ quit
  /\ loop' = "drain"
  /\ UNCHANGED <<emitter, sawOpen, closer, writer, closed, quit, done, ch, encoding,
                 dropped, emits, written, failed>>

(* Encode returned; the error of a failed write is discarded. *)
LoopEncoded ==
  /\ loop \in {"encode", "drainEncode"}
  /\ \/ written' = Append(written, encoding) /\ UNCHANGED failed
     \/ failed' = Append(failed, encoding) /\ UNCHANGED written
  /\ encoding' = None
  /\ loop' = IF loop = "encode" THEN "select" ELSE "drain"
  /\ UNCHANGED <<emitter, sawOpen, closer, writer, closed, quit, done, ch, dropped, emits>>

LoopDone ==
  /\ loop = "drain"
  /\ ch = <<>>
  /\ loop' = "done"
  /\ done' = TRUE
  /\ UNCHANGED <<emitter, sawOpen, closer, writer, closed, quit, ch, encoding, dropped,
                 emits, written, failed>>

EmitStep(e)  == EmitFindsClosed(e) \/ EmitFindsOpen(e) \/ EmitSends(e)
CloseStep(c) == CloseLocks(c) \/ CloseUnlocks(c) \/ CloseAgain(c) \/ CloseReturns(c)
LoopStep     == LoopTakes \/ LoopQuits \/ LoopEncoded \/ LoopDone

Next ==
  \/ \E e \in Emitter : EmitLocks(e) \/ EmitRefused(e)
                        \/ EmitFindsClosed(e) \/ EmitFindsOpen(e) \/ EmitSends(e)
  \/ \E c \in Closer : CloseFirst(c) \/ CloseLocks(c) \/ CloseUnlocks(c)
                       \/ CloseAgain(c) \/ CloseReturns(c)
  \/ LoopTakes \/ LoopQuits \/ LoopEncoded \/ LoopDone

Spec == Init /\ [][Next]_vars

(* An Emit under way finishes whoever else is stuck. *)
EmitFairness == \A e \in Emitter : WF_vars(EmitStep(e))

(* The sink's goroutine runs, its writes return, and a Close under way goes on:
   assumed by CloseFlushes alone, since a write may block for ever. *)
LoopFairness == WF_vars(LoopStep) /\ \A c \in Closer : WF_vars(CloseStep(c))

FairSpec == Spec /\ EmitFairness

-----------------------------------------------------------------------------
InFlight == {e \in Emitter : emitter[e] # None}

(* Every Emit that returned is counted dropped, queued, being written, written
   or lost to a failed write, and exactly one of these: the figure "dropped N
   envelopes" is exact (Emit, Dropped). *)
ExactAccount ==
  emits = dropped + Len(ch) + Len(written) + Len(failed)
          + Cardinality(InFlight) + (IF encoding = None THEN 0 ELSE 1)

(* Once the goroutine is gone nothing is queued, and nothing gets queued: no
   late Emit leaves an envelope nobody reads and nobody counted (the comment on
   Emit). *)
NothingLeftBehind == done => ch = <<>>

(* Emit never waits for the writer, for the loop or for Close: it returns when
   only its own goroutine runs (the Sink contract). *)
EmitNeverWaits == \A e \in Emitter : emitter[e] # None ~> emitter[e] = None

(* If writes return, Close does, and everything that was queued has been handed
   to the writer (Close, run). *)
CloseFlushes ==
  LoopFairness =>
    /\ closed ~> \A c \in Closer : closer[c] \notin {"once", "wait"}
    /\ \A n \in Envelope : (\E i \in DOMAIN ch : ch[i] = n)
          ~> \/ \E i \in DOMAIN written : written[i] = n
             \/ \E i \in DOMAIN failed : failed[i] = n

(* No Emit waits for the writer, the loop or Close, and Close returns with everything queued handed to
   the writer (Emit, Close, run). *)
NobodyHangs == EmitNeverWaits /\ CloseFlushes
=============================================================================
