------------------------------ MODULE DeskProofs ------------------------------
(***************************************************************************)
(* The commands beside the capture, for any number of processes, any       *)
(* configurations, labels and logs, and the exports they write.            *)
(*                                                                         *)
(* That wrap and unwrap lose nothing is inductive with what a command      *)
(* holds while it works: what it is about to write tells the client the    *)
(* same as what it read (Ready), and what it read or compared with is      *)
(* still in its file, or a write it was told of came in between (Seen).    *)
(* Ready rests on what wrapping and unwrapping do to an entry, and on      *)
(* sameJSON: a backup that is restored instead says the same.              *)
(*                                                                         *)
(* That the first trust stands needs that whoever writes writes under a    *)
(* label there is; that prune spares today's logs, that no log is from the *)
(* future and that a day count fits a duration.  That an export is whole   *)
(* or absent needs what a run has of its temporary file at each step       *)
(* (TempFollows).                                                          *)
(***************************************************************************)
EXTENDS MCDesk, ExportTarget, SequenceTheorems, WellFoundedInduction, TLAPS

AtWork == {"stat", "backup", "compare", "recheck", "rename", "remove"}
Process ==
  [pc : {"idle", "done"} \cup AtWork, server : Servers \cup {""}, verb : {"", "wrap", "unwrap"},
   read : Document, new : Document, restored : BOOLEAN, code : 0 .. 2, overtaken : BOOLEAN, swapped : BOOLEAN]

WrapTypeOK == config \in Document /\ backup \in Document /\ proc \in [Commands -> Process] /\ edits \in Nat

(* What a command is about to write says what it read. *)
Ready(r) == r.pc \in AtWork => r.read.state = "ok" /\ r.new.state = "ok" /\ SaysTheSame(r.read, r.new)
Prepared == \A p \in Commands : Ready(proc[p])

(* What a command last looked at is still there, or it was told that somebody overtook it. *)
Seen(r, c, b) ==
  /\ r.pc \in {"stat", "backup"} => ~ r.restored
  /\ r.pc = "rename" => r.overtaken \/ c = r.read
  /\ r.pc = "remove" => r.restored /\ (r.overtaken \/ c = r.new)
  /\ r.pc \in {"recheck", "rename", "remove"} /\ r.restored => r.swapped \/ b = r.new
LastSeen == \A p \in Commands : Seen(proc[p], config, backup)

WrapInv == WrapTypeOK /\ Prepared /\ LastSeen

(* A command line is made of words. *)
LEMMA LineTyped == ASSUME NEW e \in Entry PROVE Arguments(e) \in Seq(Words) /\ Line(e) \in Seq(Words)
<1>1. Arguments(e) \in Seq(Words)
  BY DEF Entry, Arguments
<1>2. <<e.command>> \in Seq(Words)
  BY DEF Entry
<1> QED
  BY <1>1, <1>2 DEF Line

(* A set of numbers has a least one, which Min picks. *)
LEMMA LeastIs == ASSUME NEW S, S \subseteq Nat, S # {} PROVE Min(S) \in S /\ \A x \in S : Min(S) <= x
<1> DEFINE below == {p \in Nat \X Nat : p[1] < p[2]}
<1>1. IsWellFoundedOn(below, Nat)
  BY NatLessThanWellFounded DEF OpToRel
<1>2. PICK x \in S : \A y \in S : ~ (<<y, x>> \in below)
  <2> HIDE DEF below
  <2> QED
    BY <1>1, WFMin
<1>3. \A y \in S : y \in Nat /\ x \in Nat /\ ~(y < x)
  BY <1>2
<1>4. \E z \in S : \A y \in S : z <= y
  BY <1>3
<1> QED
  BY <1>4 DEF Min

(* Where the markers of a line are, and the first of them. *)
LEMMA MarkersAre ==
  ASSUME NEW s \in Seq(Words)
  PROVE  /\ Markers(s) \subseteq 1 .. Len(s)
         /\ \A i \in 1 .. Len(s) : s[i] = "--" => i \in Markers(s)
         /\ Markers(s) # {} => /\ Min(Markers(s)) \in Markers(s)
                               /\ \A i \in Markers(s) : Min(Markers(s)) <= i
<1>1. Markers(s) \subseteq 1 .. Len(s) /\ \A i \in 1 .. Len(s) : s[i] = "--" => i \in Markers(s)
  BY DEF Markers
<1>2. Markers(s) \subseteq Nat
  BY <1>1
<1> QED
  BY <1>1, <1>2, LeastIs

(* Behind a marker that comes first is all the rest. *)
LEMMA BehindMarker == ASSUME NEW s \in Seq(Words), s # <<>>, s[1] = "--" PROVE Behind(s) = SubSeq(s, 2, Len(s))
<1>1. 1 \in Markers(s)
  BY MarkersAre
<1>2. Min(Markers(s)) = 1
  BY <1>1, MarkersAre
<1> QED
  BY <1>1, <1>2 DEF Behind

(* What is behind a marker is a line of words. *)
LEMMA BehindTyped == ASSUME NEW s \in Seq(Words) PROVE Behind(s) \in Seq(Words)
<1>1. CASE Markers(s) = {}
  BY <1>1 DEF Behind
<1>2. CASE Markers(s) # {}
  <2>1. Min(Markers(s)) \in 1 .. Len(s)
    BY <1>2, MarkersAre
  <2>2. Behind(s) = SubSeq(s, Min(Markers(s)) + 1, Len(s))
    BY <1>2 DEF Behind
  <2>3. SubSeq(s, Min(Markers(s)) + 1, Len(s)) \in Seq(Words)
    BY <2>1
  <2> QED
    BY <2>2, <2>3
<1> QED
  BY <1>1, <1>2

(* An entry with another command line is an entry. *)
LEMMA Rewritten ==
  ASSUME NEW e \in Entry, NEW c \in Words, NEW v \in Seq(Words) \cup {NoArgs}
  PROVE  [e EXCEPT !.command = c, !.args = v, !.form = "sorted"] \in Entry
BY ZenonT(60) DEF Entry

(* Wrapping puts a wrapper in front of the line that was there. *)
LEMMA WrappedShows ==
  ASSUME NEW e \in Entry
  PROVE  Wrapped(e) \in Entry /\ SameServer(e, Wrapped(e))
<1> DEFINE a == Arguments(e)
           w == <<"--", e.command>> \o a
<1>1. a \in Seq(Words) /\ e.command \in Words /\ "--" \in Words
  BY LineTyped, WrapAssumption DEF Entry
<1>2. w \in Seq(Words) /\ w # <<>> /\ w[1] = "--" /\ Len(w) = Len(a) + 2
  BY <1>1
<1>3. SubSeq(w, 2, Len(w)) = <<e.command>> \o a
  BY <1>1, <1>2
<1>4. Behind(w) = Line(e)
  <2> HIDE DEF w
  <2> QED
    BY <1>2, <1>3, BehindMarker DEF Line
<1>5. w # NoArgs
  <2>1. NoArgs[1] = "no args key"
    BY DEF NoArgs
  <2>2. w[1] # "no args key"
    BY <1>2
  <2> QED
    BY <2>1, <2>2
<1>6. /\ Wrapped(e).args = w /\ Wrapped(e).command = "mcpsnoop" /\ Wrapped(e).name = e.name
      /\ Wrapped(e).env = e.env /\ Wrapped(e).form = "sorted"
  BY DEF Wrapped, Entry
<1>7. Wrapped(e) \in Entry
  <2>1. w \in Seq(Words) \cup {NoArgs} /\ "mcpsnoop" \in Words
    BY <1>2, WrapAssumption
  <2> QED
    BY <2>1, Rewritten DEF Wrapped
<1>8. Arguments(Wrapped(e)) = w
  BY <1>5, <1>6 DEF Arguments
<1> QED
  BY <1>4, <1>6, <1>7, <1>8 DEF SameServer, SameProgram, Shows, IsWrapped

(* Unwrapping leaves the line that was behind the wrapper. *)
LEMMA UnwrappedShows ==
  ASSUME NEW e \in Entry, IsWrapped(e.command), Behind(Arguments(e)) # <<>>
  PROVE  Unwrapped(e) \in Entry /\ SameServer(e, Unwrapped(e))
<1> DEFINE line == Behind(Arguments(e))
           u == Unwrapped(e)
<1>1. line \in Seq(Words) /\ line # <<>>
  BY LineTyped, BehindTyped
<1>2. Head(line) \in Words /\ Tail(line) \in Seq(Words) /\ line = <<Head(line)>> \o Tail(line)
  BY <1>1
<1>3. /\ u.command = Head(line) /\ u.args = (IF Len(line) > 1 THEN Tail(line) ELSE NoArgs)
      /\ u.name = e.name /\ u.env = e.env
  BY DEF Unwrapped, Entry
<1>4. u \in Entry
  <2> HIDE DEF line
  <2>1. (IF Len(line) > 1 THEN Tail(line) ELSE NoArgs) \in Seq(Words) \cup {NoArgs}
    BY <1>2
  <2> QED
    BY <1>2, <2>1 DEF Unwrapped, Entry, line
<1>5. Arguments(u) = Tail(line)
  <2> HIDE DEF line, u
  <2>1. CASE Len(line) > 1
    <3>1. Tail(line)[1] \in Words
      BY <1>1, <2>1
    <3>2. NoArgs[1] = "no args key" /\ Tail(line)[1] # "no args key"
      BY <3>1, WrapAssumption DEF NoArgs
    <3> QED
      BY <1>3, <2>1, <3>2 DEF Arguments
  <2>2. CASE ~ (Len(line) > 1)
    <3>1. Tail(line) = <<>>
      BY <1>1, <2>2
    <3> QED
      BY <1>3, <2>2, <3>1 DEF Arguments
  <2> QED
    BY <2>1, <2>2
<1>6. Line(u) = line
  <2> HIDE DEF line, u
  <2> QED
    BY <1>2, <1>3, <1>5 DEF Line
<1> QED
  BY <1>3, <1>4, <1>6 DEF SameServer, SameProgram, Shows

Whole == [state : {"ok"}, section : BOOLEAN, other : {1, 2}, servers : Seq(Entry)]

(* A document that can be read has servers. *)
LEMMA ReadableIsWhole == ASSUME NEW d \in Document, d.state = "ok" PROVE d \in Whole
BY DEF Document, Whole, None

(* A document in which one server's entry starts the same program as before says the same. *)
LEMMA SpliceSays ==
  ASSUME NEW d \in Document, Readable(d), NEW s, NEW i \in Places(d, s), NEW f \in Entry,
         SameServer(d.servers[i], f)
  PROVE  /\ Splice(d, s, f) \in Document /\ Splice(d, s, f).state = "ok"
         /\ SaysTheSame(d, Splice(d, s, f))
<1> DEFINE l == d.servers
           m == [j \in DOMAIN l |-> IF l[j].name = s THEN f ELSE l[j]]
           n == Splice(d, s, f)
<1>1. d \in Whole
  BY ReadableIsWhole DEF Readable
<1>2. l \in Seq(Entry) /\ m \in Seq(Entry) /\ DOMAIN m = DOMAIN l
  BY <1>1 DEF Whole
<1>3. n = [d EXCEPT !.servers = m]
  BY DEF Splice
<1>4. n \in Whole /\ n.servers = m /\ n.other = d.other
  <2> HIDE DEF m
  <2> QED
    BY <1>1, <1>2, <1>3 DEF Whole
<1>5. \A j \in DOMAIN l : SameServer(l[j], m[j])
  <2> SUFFICES ASSUME NEW j \in DOMAIN l PROVE SameServer(l[j], m[j])
    OBVIOUS
  <2>1. CASE l[j].name = s
    <3>1. j = i
      BY <2>1 DEF Readable, Unrepeated, Places
    <3> QED
      BY <2>1, <3>1
  <2>2. CASE l[j].name # s
    BY <2>2 DEF SameServer, SameProgram
  <2> QED
    BY <2>1, <2>2
<1>6. SaysTheSame(d, n)
  <2> HIDE DEF m, n
  <2>1. \A e \in Range(l) : \E g \in Range(m) : SameServer(e, g)
    BY <1>2, <1>5 DEF Range
  <2>2. \A g \in Range(m) : \E e \in Range(l) : SameServer(e, g)
    BY <1>2, <1>5 DEF Range
  <2> QED
    BY <1>4, <2>1, <2>2 DEF SaysTheSame
<1> QED
  BY <1>4, <1>6 DEF Document, Whole

(* What is the same JSON says the same. *)
LEMMA SameJSONSays ==
  ASSUME NEW a, NEW b \in Document, NEW c \in Document, SaysTheSame(a, b), b.state = "ok", SameJSON(c, b)
  PROVE  SaysTheSame(a, c) /\ c.state = "ok"
<1>1. b \in Whole /\ c \in Whole /\ b.other = c.other /\ Formless(b) = Formless(c)
  BY ReadableIsWhole DEF SameJSON
<1>2. Range(b.servers) \subseteq Entry /\ Range(c.servers) \subseteq Entry
  BY <1>1 DEF Range, Whole
<1>3. ASSUME NEW e \in Entry, NEW g \in Entry, [e EXCEPT !.form = "any"] = [g EXCEPT !.form = "any"]
      PROVE  \A x : (SameServer(x, e) <=> SameServer(x, g))
  <2> DEFINE h == [e EXCEPT !.form = "any"]
             k == [g EXCEPT !.form = "any"]
  <2>1. /\ h.name = e.name /\ h.env = e.env /\ h.command = e.command /\ h.args = e.args
        /\ k.name = g.name /\ k.env = g.env /\ k.command = g.command /\ k.args = g.args
    BY DEF Entry
  <2>2. e.name = g.name /\ e.env = g.env /\ e.command = g.command /\ e.args = g.args
    BY <1>3, <2>1
  <2> QED
    BY <2>2 DEF SameServer, SameProgram, Shows, Line, Arguments
<1>4. \A e \in Range(b.servers) : \E g \in Range(c.servers) : \A x : (SameServer(x, e) <=> SameServer(x, g))
  <2> SUFFICES ASSUME NEW e \in Range(b.servers) PROVE \E g \in Range(c.servers) : \A x : (SameServer(x, e) <=> SameServer(x, g))
    OBVIOUS
  <2>1. [e EXCEPT !.form = "any"] \in Formless(c)
    BY <1>1 DEF Formless
  <2>2. PICK g \in Range(c.servers) : [g EXCEPT !.form = "any"] = [e EXCEPT !.form = "any"]
    BY <2>1 DEF Formless
  <2> QED
    BY <1>2, <1>3, <2>2
<1>5. \A g \in Range(c.servers) : \E e \in Range(b.servers) : \A x : (SameServer(x, e) <=> SameServer(x, g))
  <2> SUFFICES ASSUME NEW g \in Range(c.servers) PROVE \E e \in Range(b.servers) : \A x : (SameServer(x, e) <=> SameServer(x, g))
    OBVIOUS
  <2>1. [g EXCEPT !.form = "any"] \in Formless(b)
    BY <1>1 DEF Formless
  <2>2. PICK e \in Range(b.servers) : [e EXCEPT !.form = "any"] = [g EXCEPT !.form = "any"]
    BY <2>1 DEF Formless
  <2> QED
    BY <1>2, <1>3, <2>2
<1> QED
  BY <1>1, <1>4, <1>5 DEF SaysTheSame, SameJSON

(* A command that ends is no longer held to anything. *)
LEMMA EndedIsFree ==
  ASSUME NEW code \in 0 .. 2 PROVE Ended(code) \in Process /\ Ended(code).pc = "done"
BY ZenonT(60) DEF Ended, Idle, Process, Document

(* A step of one command that leaves the two files alone. *)
LEMMA OneMoves ==
  ASSUME WrapInv, NEW p \in Commands, NEW r \in Process, Ready(r), Seen(r, config, backup),
         proc' = [proc EXCEPT ![p] = r], UNCHANGED <<config, backup, edits>>
  PROVE  WrapInv'
BY DEF WrapInv, WrapTypeOK, Prepared, LastSeen, Seen

(* A command that gives up leaves everything as it was. *)
LEMMA OneEnds ==
  ASSUME WrapInv, NEW p \in Commands, NEW code \in 0 .. 2, Exit(p, code), UNCHANGED <<config, backup, edits>>
  PROVE  WrapInv'
<1>1. Ready(Ended(code)) /\ Seen(Ended(code), config, backup)
  BY EndedIsFree DEF Ready, Seen, AtWork
<1> QED
  BY <1>1, EndedIsFree, OneMoves DEF Exit

(* What a command does with the entry it found. *)
LEMMA ReadsKeeps ==
  ASSUME WrapInv, NEW p \in Commands, NEW verb \in {"wrap", "unwrap"}, NEW s \in Servers,
         NEW pc \in {"stat", "compare"}, Readable(config), NEW i \in Places(config, s), NEW f \in Entry,
         SameServer(config.servers[i], f), Reads(p, verb, s, pc, Splice(config, s, f)),
         UNCHANGED <<config, backup, edits>>
  PROVE  WrapInv'
<1> DEFINE n == Splice(config, s, f)
           r == [pc |-> pc, server |-> s, verb |-> verb, read |-> config, new |-> n, restored |-> FALSE,
                 code |-> 0, overtaken |-> FALSE, swapped |-> FALSE]
<1>1. n \in Document /\ n.state = "ok" /\ SaysTheSame(config, n)
  BY SpliceSays DEF WrapInv, WrapTypeOK
<1> HIDE DEF n
<1>3. r \in Process
  <2>1. config \in Document
    BY DEF WrapInv, WrapTypeOK
  <2>2. pc \in AtWork
    BY DEF AtWork
  <2>3. verb \in {"", "wrap", "unwrap"}
    OBVIOUS
  <2>4. s \in Servers \cup {""}
    OBVIOUS
  <2>5. 0 \in 0 .. 2
    OBVIOUS
  <2> QED
    BY <1>1, <2>1, <2>2, <2>3, <2>4, <2>5, Zenon DEF Process
<1>4. Ready(r) /\ Seen(r, config, backup)
  BY <1>1 DEF Ready, Seen, Readable
<1>5. proc' = [proc EXCEPT ![p] = r]
  BY DEF Reads, n
<1> HIDE DEF r
<1> QED
  BY <1>3, <1>4, <1>5, OneMoves

(* A command that is not refused finds its server's entry in a document it can read. *)
LEMMA FoundIs ==
  ASSUME NEW d \in Document, NEW s, Refusal(d, s) = 0
  PROVE  /\ Readable(d) /\ (CHOOSE i \in Places(d, s) : TRUE) \in Places(d, s)
         /\ \A i \in Places(d, s) : d.servers[i] \in Entry
<1>1. Readable(d) /\ Places(d, s) # {}
  BY DEF Refusal
<1>2. d \in Whole
  BY <1>1, ReadableIsWhole DEF Readable
<1> QED
  BY <1>1, <1>2 DEF Places, Whole

(* The exit codes resolveTarget refuses with. *)
LEMMA RefusalIs == \A d, s : Refusal(d, s) \in 0 .. 2
BY DEF Refusal

(* Each action of a command keeps the invariant, one lemma for each (runWrap, runUnwrap, writeConfig). *)
LEMMA StartsWrapKeeps ==
  ASSUME WrapInv, NEW p \in Commands, NEW s \in Servers, NEW dryRun \in BOOLEAN, StartsWrap(p, s, dryRun)
  PROVE  WrapInv'
<1>0. config \in Document /\ UNCHANGED <<config, backup, edits>>
  BY DEF WrapInv, WrapTypeOK, StartsWrap
<1>1. CASE \E code \in 0 .. 2 : Exit(p, code)
  BY <1>0, <1>1, OneEnds
<1>2. CASE ~ \E code \in 0 .. 2 : Exit(p, code)
  <2> DEFINE i == CHOOSE i \in Places(config, s) : TRUE
             e == config.servers[i]
  <2>0. ~ Exit(p, 0) /\ ~ Exit(p, 1) /\ ~ Exit(p, 2)
    BY <1>2
  <2>1. Refusal(config, s) = 0
    BY <1>2, RefusalIs DEF StartsWrap
  <2>2. Readable(config) /\ i \in Places(config, s) /\ e \in Entry
    BY <1>0, <2>1, FoundIs
  <2>3. Reads(p, "wrap", s, "stat", Splice(config, s, Wrapped(e)))
    BY <2>0, <2>1 DEF StartsWrap
  <2>4. Wrapped(e) \in Entry /\ SameServer(e, Wrapped(e))
    BY <2>2, WrappedShows
  <2> HIDE DEF i
  <2> QED
    BY <1>0, <2>2, <2>3, <2>4, ReadsKeeps
<1> QED
  BY <1>1, <1>2

LEMMA StartsUnwrapKeeps ==
  ASSUME WrapInv, NEW p \in Commands, NEW s \in Servers, StartsUnwrap(p, s)
  PROVE  WrapInv'
<1>0. config \in Document /\ UNCHANGED <<config, backup, edits>>
  BY DEF WrapInv, WrapTypeOK, StartsUnwrap
<1>1. CASE \E code \in 0 .. 2 : Exit(p, code)
  BY <1>0, <1>1, OneEnds
<1>2. CASE ~ \E code \in 0 .. 2 : Exit(p, code)
  <2> DEFINE i == CHOOSE i \in Places(config, s) : TRUE
             e == config.servers[i]
  <2>0. ~ Exit(p, 0) /\ ~ Exit(p, 1) /\ ~ Exit(p, 2)
    BY <1>2
  <2>1. Refusal(config, s) = 0
    BY <1>2, RefusalIs DEF StartsUnwrap
  <2>2. Readable(config) /\ i \in Places(config, s) /\ e \in Entry
    BY <1>0, <2>1, FoundIs
  <2>3. /\ IsWrapped(e.command) /\ Behind(Arguments(e)) # <<>>
        /\ Reads(p, "unwrap", s, "compare", Splice(config, s, Unwrapped(e)))
    BY <2>0, <2>1 DEF StartsUnwrap
  <2>4. Unwrapped(e) \in Entry /\ SameServer(e, Unwrapped(e))
    BY <2>2, <2>3, UnwrappedShows
  <2> HIDE DEF i
  <2> QED
    BY <1>0, <2>2, <2>3, <2>4, ReadsKeeps
<1> QED
  BY <1>1, <1>2

LEMMA StatsKeeps == ASSUME WrapInv, NEW p \in Commands, StatsBackup(p) PROVE WrapInv'
<1> DEFINE x == proc[p]
<1>1. /\ x \in Process /\ Ready(x) /\ x.pc = "stat" /\ ~ x.restored
      /\ UNCHANGED <<config, backup, edits>>
  BY DEF WrapInv, WrapTypeOK, Prepared, LastSeen, Seen, StatsBackup
<1>2. ASSUME NEW pc \in {"backup", "recheck"}, proc' = [proc EXCEPT ![p].pc = pc] PROVE WrapInv'
  <2> DEFINE r == [x EXCEPT !.pc = pc]
  <2>1. /\ r \in Process /\ r.pc = pc /\ r.read = x.read /\ r.new = x.new
        /\ r.restored = x.restored
    BY <1>1 DEF Process, AtWork
  <2>2. proc' = [proc EXCEPT ![p] = r]
    BY <1>2
  <2> HIDE DEF r
  <2>3. Ready(r) /\ Seen(r, config, backup)
    BY <1>1, <1>2, <2>1 DEF Ready, Seen, AtWork
  <2> QED
    BY <1>1, <2>1, <2>2, <2>3, OneMoves
<1> QED
  BY <1>2 DEF StatsBackup

(* The record of a command that compared with the backup. *)
AsCompared(x, same, new) == [x EXCEPT !.pc = "recheck", !.restored = same, !.swapped = FALSE, !.new = new]
ComparedAs(y, x, same, new) ==
  y \in Process /\ y.pc = "recheck" /\ y.restored = same /\ y.new = new /\ y.read = x.read
LEMMA ComparedIs ==
  \A x \in Process, new \in Document :
    /\ ComparedAs(AsCompared(x, TRUE, new), x, TRUE, new)
    /\ ComparedAs(AsCompared(x, FALSE, new), x, FALSE, new)
BY ZenonT(60) DEF AsCompared, ComparedAs, Process, AtWork

LEMMA ComparesKeeps ==
  ASSUME WrapInv, NEW p \in Commands, NEW dryRun \in BOOLEAN, Compares(p, dryRun)
  PROVE  WrapInv'
<1> DEFINE x == proc[p]
<1>1. /\ x \in Process /\ Ready(x) /\ x.pc = "compare" /\ backup \in Document /\ x.new \in Document
      /\ UNCHANGED <<config, backup, edits>>
  BY DEF WrapInv, WrapTypeOK, Prepared, Compares, Process
<1>2. CASE dryRun
  BY <1>1, <1>2, OneEnds DEF Compares
<1>3. x.read.state = "ok" /\ x.new.state = "ok" /\ SaysTheSame(x.read, x.new)
  BY <1>1 DEF Ready, AtWork
<1>4. CASE ~ dryRun /\ backup # None /\ SameJSON(backup, x.new)
  <2> DEFINE r == AsCompared(x, TRUE, backup)
  <2>1. proc' = [proc EXCEPT ![p] = r]
    BY <1>4 DEF Compares, AsCompared
  <2>2. backup.state = "ok" /\ SaysTheSame(x.read, backup)
    BY <1>1, <1>3, <1>4, SameJSONSays
  <2>3. ComparedAs(r, x, TRUE, backup)
    BY <1>1, ComparedIs
  <2> HIDE DEF r
  <2>4. Ready(r) /\ Seen(r, config, backup)
    BY <1>3, <2>2, <2>3 DEF Ready, Seen, ComparedAs
  <2> QED
    BY <1>1, <2>1, <2>3, <2>4, OneMoves DEF ComparedAs
<1>5. CASE ~ dryRun /\ ~ (backup # None /\ SameJSON(backup, x.new))
  <2> DEFINE r == AsCompared(x, FALSE, x.new)
  <2>1. proc' = [proc EXCEPT ![p] = r]
    BY <1>5 DEF Compares, AsCompared
  <2>2. ComparedAs(r, x, FALSE, x.new)
    BY <1>1, ComparedIs
  <2> HIDE DEF r
  <2>3. Ready(r) /\ Seen(r, config, backup)
    BY <1>3, <2>2 DEF Ready, Seen, ComparedAs
  <2> QED
    BY <1>1, <2>1, <2>2, <2>3, OneMoves DEF ComparedAs
<1> QED
  BY <1>2, <1>4, <1>5

LEMMA RechecksKeeps == ASSUME WrapInv, NEW p \in Commands, Rechecks(p) PROVE WrapInv'
<1> DEFINE x == proc[p]
           r == [x EXCEPT !.pc = "rename", !.overtaken = FALSE]
<1>1. /\ x \in Process /\ Ready(x) /\ Seen(x, config, backup) /\ x.pc = "recheck"
      /\ UNCHANGED <<config, backup, edits>>
  BY DEF WrapInv, WrapTypeOK, Prepared, LastSeen, Rechecks
<1>2. CASE config = x.read
  <2>1. proc' = [proc EXCEPT ![p] = r]
    BY <1>2 DEF Rechecks
  <2>2. /\ r \in Process /\ r.pc = "rename" /\ r.read = x.read /\ r.new = x.new
        /\ r.restored = x.restored /\ r.swapped = x.swapped
    BY <1>1, ZenonT(60) DEF Process, AtWork
  <2> HIDE DEF r
  <2>3. Ready(r) /\ Seen(r, config, backup)
    BY <1>1, <1>2, <2>2 DEF Ready, Seen, AtWork
  <2> QED
    BY <1>1, <2>1, <2>2, <2>3, OneMoves
<1>3. CASE config # x.read
  BY <1>1, <1>3, OneEnds DEF Rechecks
<1> QED
  BY <1>2, <1>3

LEMMA FailsKeeps == ASSUME WrapInv, NEW p \in Commands, Fails(p) PROVE WrapInv'
BY OneEnds DEF Fails

(* What a command becomes that is told of a write of the configuration, or of the backup. *)
LEMMA OvertakenIs ==
  ASSUME NEW x \in Process
  PROVE  LET r == [x EXCEPT !.overtaken = TRUE]
         IN  /\ r \in Process /\ r.pc = x.pc /\ r.read = x.read /\ r.new = x.new
             /\ r.restored = x.restored /\ r.swapped = x.swapped /\ r.overtaken
BY DEF Process

LEMMA SwappedIs ==
  ASSUME NEW x \in Process
  PROVE  LET r == [x EXCEPT !.swapped = TRUE]
         IN  /\ r \in Process /\ r.pc = x.pc /\ r.read = x.read /\ r.new = x.new
             /\ r.restored = x.restored /\ r.overtaken = x.overtaken /\ r.swapped
BY DEF Process

(* It is no longer held to the configuration it read, or to the backup it compared with. *)
LEMMA OvertakenKeeps ==
  ASSUME NEW x \in Process, Ready(x), NEW c, NEW d, NEW b, Seen(x, c, b)
  PROVE  LET r == [x EXCEPT !.overtaken = TRUE] IN r \in Process /\ Ready(r) /\ Seen(r, d, b)
<1> DEFINE r == [x EXCEPT !.overtaken = TRUE]
<1>1. /\ r \in Process /\ r.pc = x.pc /\ r.read = x.read /\ r.new = x.new
      /\ r.restored = x.restored /\ r.swapped = x.swapped /\ r.overtaken
  BY OvertakenIs
<1> HIDE DEF r
<1> QED
  BY <1>1 DEF Ready, Seen, r

LEMMA SwappedKeeps ==
  ASSUME NEW x \in Process, Ready(x), NEW c, NEW d, NEW b, Seen(x, c, b)
  PROVE  LET r == [x EXCEPT !.swapped = TRUE] IN r \in Process /\ Ready(r) /\ Seen(r, c, d)
<1> DEFINE r == [x EXCEPT !.swapped = TRUE]
<1>1. /\ r \in Process /\ r.pc = x.pc /\ r.read = x.read /\ r.new = x.new
      /\ r.restored = x.restored /\ r.overtaken = x.overtaken /\ r.swapped
  BY SwappedIs
<1> HIDE DEF r
<1> QED
  BY <1>1 DEF Ready, Seen, r

(* A step of one command that writes the configuration, or of the client. *)
(* A write of the configuration, or of the backup, that each of the others is told of. *)
Fit(x, c, b)  == x \in Process /\ Ready(x) /\ Seen(x, c, b)
Overtaken(q)  == proc'[q] = [proc[q] EXCEPT !.overtaken = TRUE]
SwappedFor(q) == proc'[q] = [proc[q] EXCEPT !.swapped = TRUE]

(* The invariant, one command at a time. *)
LEMMA InvIs == WrapInv <=> /\ config \in Document /\ backup \in Document /\ edits \in Nat
                           /\ proc = [q \in Commands |-> proc[q]]
                           /\ \A q \in Commands : Fit(proc[q], config, backup)
BY DEF WrapInv, WrapTypeOK, Prepared, LastSeen, Fit

LEMMA ConfigMoves ==
  ASSUME WrapInv, config' \in Document, proc' = [q \in Commands |-> proc'[q]],
         \A q \in Commands : Overtaken(q) \/ Fit(proc'[q], config', backup'), edits' \in Nat, backup' = backup
  PROVE  WrapInv'
<1>1. backup \in Document /\ \A q \in Commands : Fit(proc[q], config, backup)
  BY InvIs
<1>2. \A q \in Commands : Fit(proc'[q], config', backup')
  <2> SUFFICES ASSUME NEW q \in Commands, Overtaken(q) PROVE Fit(proc'[q], config', backup')
    OBVIOUS
  <2>1. PICK x, c, d, b : x = proc[q] /\ c = config /\ d = config' /\ b = backup
    OBVIOUS
  <2>2. Fit([x EXCEPT !.overtaken = TRUE], d, b)
    BY <1>1, <2>1, OvertakenKeeps DEF Fit
  <2> QED
    BY <2>1, <2>2 DEF Overtaken
<1> QED
  BY <1>1, <1>2 DEF WrapInv, WrapTypeOK, Prepared, LastSeen, Fit

LEMMA BackupMoves ==
  ASSUME WrapInv, backup' \in Document, proc' = [q \in Commands |-> proc'[q]],
         \A q \in Commands : SwappedFor(q) \/ Fit(proc'[q], config', backup'), edits' \in Nat, config' = config
  PROVE  WrapInv'
<1>1. config \in Document /\ \A q \in Commands : Fit(proc[q], config, backup)
  BY InvIs
<1>2. \A q \in Commands : Fit(proc'[q], config', backup')
  <2> SUFFICES ASSUME NEW q \in Commands, SwappedFor(q) PROVE Fit(proc'[q], config', backup')
    OBVIOUS
  <2>1. PICK x, c, d, b : x = proc[q] /\ c = config /\ d = backup' /\ b = backup
    OBVIOUS
  <2>2. Fit([x EXCEPT !.swapped = TRUE], c, d)
    BY <1>1, <2>1, SwappedKeeps DEF Fit
  <2> QED
    BY <2>1, <2>2 DEF SwappedFor
<1> QED
  BY <1>1, <1>2 DEF WrapInv, WrapTypeOK, Prepared, LastSeen, Fit

(* So does the client, who may write either file at any moment. *)
LEMMA ClientKeeps == ASSUME WrapInv, ClientEdits \/ ClientDeletesBackup PROVE WrapInv'
<1>1. config \in Document /\ backup \in Document /\ edits \in Nat
  BY InvIs
<1>2. ASSUME NEW new \in Document, ClientWrites(new) PROVE WrapInv'
  <2>1. /\ \A q \in Commands : Overtaken(q)
        /\ proc' = [q \in Commands |-> proc'[q]] /\ edits' \in Nat /\ config' = new /\ backup' = backup
    BY <1>1, <1>2 DEF Overtaken, ClientWrites
  <2> QED
    BY <2>1, ConfigMoves
<1>3. CASE ClientDeletesBackup
  <2>1. /\ \A q \in Commands : SwappedFor(q)
        /\ proc' = [q \in Commands |-> proc'[q]] /\ edits' \in Nat /\ config' = config /\ backup' = None
    BY <1>1, <1>3 DEF SwappedFor, ClientDeletesBackup
  <2>2. None \in Document
    BY DEF Document
  <2> QED
    BY <2>1, <2>2, BackupMoves
<1>4. CASE ClientEdits
  <2>1. config \in Whole
    BY <1>1, <1>4, ReadableIsWhole DEF ClientEdits
  <2>2. \A v \in {1, 2} : [config EXCEPT !.other = v] \in Document
    BY <2>1 DEF Whole, Document
  <2>3. \A i \in DOMAIN config.servers :
          [config EXCEPT !.servers[i].env = 3 - @, !.servers[i].form = "user"] \in Document
    <3> SUFFICES ASSUME NEW i \in DOMAIN config.servers
                 PROVE  [config EXCEPT !.servers[i].env = 3 - @, !.servers[i].form = "user"] \in Document
      OBVIOUS
    <3> DEFINE l == config.servers
               e == [l[i] EXCEPT !.env = 3 - @, !.form = "user"]
    <3>1. l \in Seq(Entry) /\ l[i] \in Entry
      BY <2>1 DEF Whole
    <3>2. e \in Entry
      <4>1. l[i].env \in {1, 2} /\ 3 - l[i].env \in {1, 2}
        BY <3>1 DEF Entry
      <4> QED
        BY <3>1, <4>1, ZenonT(60) DEF Entry
    <3>3. [config EXCEPT !.servers[i].env = 3 - @, !.servers[i].form = "user"]
            = [config EXCEPT !.servers = [l EXCEPT ![i] = e]]
      BY <2>1, <3>1, ZenonT(60) DEF Whole, Entry
    <3> HIDE DEF e
    <3>4. [l EXCEPT ![i] = e] \in Seq(Entry)
      BY <3>1, <3>2
    <3> HIDE DEF l
    <3>5. \A m \in Seq(Entry) : [config EXCEPT !.servers = m] \in Document
      BY <2>1 DEF Whole, Document
    <3> QED
      BY <3>3, <3>4, <3>5
  <2> QED
    BY <1>2, <1>4, <2>2, <2>3 DEF ClientEdits
<1> QED
  BY <1>3, <1>4

(* The actions that write the two files. *)
LEMMA BacksUpKeeps == ASSUME WrapInv, NEW p \in Commands, BacksUp(p) PROVE WrapInv'
<1> DEFINE x == proc[p]
           r == [x EXCEPT !.pc = "recheck"]
<1>1. /\ Fit(x, config, backup) /\ x.pc = "backup" /\ x.read \in Document /\ edits \in Nat
      /\ proc = [q \in Commands |-> proc[q]]
  BY InvIs DEF Fit, BacksUp, Process
<1>2. r \in Process /\ r.pc = "recheck" /\ r.read = x.read /\ r.new = x.new /\ r.restored = x.restored
  BY <1>1 DEF Fit, Process, AtWork
<1>3. proc' = [q \in Commands |-> IF q = p THEN r ELSE [proc[q] EXCEPT !.swapped = TRUE]]
  BY <1>1 DEF BacksUp, Swaps
<1> HIDE DEF r
<1>4. Fit(r, config, backup')
  BY <1>1, <1>2 DEF Fit, Ready, Seen, AtWork
<1> QED
  BY <1>1, <1>3, <1>4, BackupMoves DEF SwappedFor, BacksUp

LEMMA RemovesKeeps == ASSUME WrapInv, NEW p \in Commands, Removes(p) PROVE WrapInv'
<1>1. proc = [q \in Commands |-> proc[q]] /\ edits \in Nat
  BY InvIs
<1>2. proc' = [q \in Commands |-> IF q = p THEN Ended(0) ELSE [proc[q] EXCEPT !.swapped = TRUE]]
  BY <1>1 DEF Removes, Swaps
<1>3. Fit(Ended(0), config', backup')
  BY EndedIsFree DEF Fit, Ready, Seen, AtWork
<1>4. None \in Document
  BY DEF Document
<1> QED
  BY <1>1, <1>2, <1>3, <1>4, BackupMoves DEF SwappedFor, Removes

LEMMA RenamesKeeps == ASSUME WrapInv, NEW p \in Commands, Renames(p) PROVE WrapInv'
<1> DEFINE x == proc[p]
           r == IF DropsBackup(p) THEN [x EXCEPT !.pc = "remove", !.overtaken = FALSE] ELSE Ended(0)
<1>1. /\ Fit(x, config, backup) /\ x.pc = "rename" /\ x.new \in Document /\ edits \in Nat
      /\ proc = [q \in Commands |-> proc[q]] /\ config' = x.new /\ backup' = backup /\ edits' = edits
  BY InvIs DEF Fit, Renames, Process
<1>2. proc' = [q \in Commands |-> IF q = p THEN r ELSE [proc[q] EXCEPT !.overtaken = TRUE]]
  BY <1>1 DEF Renames, Overtakes
<1>3. Fit(r, x.new, backup)
  <2>1. CASE DropsBackup(p)
    <3> DEFINE k == [x EXCEPT !.pc = "remove", !.overtaken = FALSE]
    <3>1. /\ k \in Process /\ k.pc = "remove" /\ k.read = x.read /\ k.new = x.new
          /\ k.restored = x.restored /\ k.swapped = x.swapped
      BY <1>1, ZenonT(60) DEF Fit, Process, AtWork
    <3> HIDE DEF k
    <3>2. Fit(k, x.new, backup)
      BY <1>1, <2>1, <3>1 DEF Fit, Ready, Seen, AtWork, DropsBackup
    <3> QED
      BY <2>1, <3>2 DEF k
  <2>2. CASE ~ DropsBackup(p)
    BY <2>2, EndedIsFree DEF Fit, Ready, Seen, AtWork
  <2> QED
    BY <2>1, <2>2
<1> HIDE DEF r
<1>4. \A q \in Commands : Overtaken(q) \/ Fit(proc'[q], config', backup')
  BY <1>1, <1>2, <1>3 DEF Overtaken
<1> QED
  BY <1>1, <1>2, <1>4, ConfigMoves

(* Nothing is under way at first. *)
LEMMA WrapStarts == ASSUME WrapInit \/ AtRest PROVE WrapInv
<1>1. None \in Document /\ config \in Document
  BY WrapAssumption DEF WrapInit, AtRest, Document
<1>2. Idle \in Process /\ Idle.pc = "idle"
  BY DEF Idle, Process, Document
<1>3. proc = [p \in Commands |-> Idle] /\ backup = None /\ edits = 0
  BY DEF WrapInit, AtRest
<1> QED
  BY <1>1, <1>2, <1>3 DEF WrapInv, WrapTypeOK, Prepared, LastSeen, Ready, Seen, AtWork

(* No step of the commands, or of the client, breaks the invariant. *)
LEMMA WrapStep == WrapInv /\ [WrapNext]_wrapVars => WrapInv'
<1> SUFFICES ASSUME WrapInv, [WrapNext]_wrapVars PROVE WrapInv'
  OBVIOUS
<1>1. ASSUME NEW p \in Commands, NEW s \in Servers, NEW dryRun \in BOOLEAN, StartsWrap(p, s, dryRun)
      PROVE  WrapInv'
  BY <1>1, StartsWrapKeeps
<1>2. ASSUME NEW p \in Commands, NEW s \in Servers, StartsUnwrap(p, s) PROVE WrapInv'
  BY <1>2, StartsUnwrapKeeps
<1>3. ASSUME NEW p \in Commands, NEW dryRun \in BOOLEAN, Compares(p, dryRun) PROVE WrapInv'
  BY <1>3, ComparesKeeps
<1>4. ASSUME NEW p \in Commands,
             StatsBackup(p) \/ BacksUp(p) \/ Rechecks(p) \/ Renames(p) \/ Removes(p) \/ Fails(p)
      PROVE  WrapInv'
  BY <1>4, StatsKeeps, BacksUpKeeps, RechecksKeeps, RenamesKeeps, RemovesKeeps, FailsKeeps
<1>5. CASE ClientEdits \/ ClientDeletesBackup
  BY <1>5, ClientKeeps
<1>6. CASE UNCHANGED wrapVars
  BY <1>6 DEF wrapVars, WrapInv, WrapTypeOK, Prepared, LastSeen
<1> QED
  BY <1>1, <1>2, <1>3, <1>4, <1>5, <1>6 DEF WrapNext

(* A step of the desk is a step of one of its machines. *)
LEMMA DeskStep ==
  [Next]_deskVars => [WrapNext]_wrapVars /\ [BaselineNext]_baselineVars /\ [LogsNext]_logVars
BY DEF Next, deskVars, wrapVars, baselineVars, logVars

(* No command loses an edit of the client or an argument of a server, and none removes the only copy
   of the file as its user wrote it, whatever runs beside it (wrap.go). *)
THEOREM ConfigIsSafe == Spec => ConfigSafe
<1>1. Init => WrapInv
  BY WrapStarts DEF Init
<1>2. WrapInv /\ [Next]_deskVars => WrapInv'
  BY WrapStep, DeskStep
<1>3. WrapInv =>
        [\A p \in Commands : Writes(p) /\ config' # config =>
           proc[p].overtaken \/ SaysTheSame(config, config')]_wrapVars
  BY InvIs DEF Writes, Fit, Ready, Seen, AtWork
<1>4. WrapInv =>
        [\A p \in Commands : proc[p].pc = "remove" /\ proc'[p].pc = "done" /\ backup # None /\ backup' = None
           => backup = config \/ proc[p].overtaken \/ proc[p].swapped]_wrapVars
  BY InvIs DEF Fit, Seen
<1>5. Spec => []WrapInv
  BY <1>1, <1>2, PTL DEF Spec
<1> QED
  BY <1>3, <1>4, <1>5, PTL DEF ConfigSafe, NothingLost, BackupLivesOn

-----------------------------------------------------------------------------
(* What a process is about to write is for a label there is. *)
Writing == {"observe", "accept", "reset", "link", "reload"}
Labelled(r) == {"pc", "capture"} \subseteq DOMAIN r /\ (r.pc \in Writing => r.capture.label \in Labels)
BaselineInv ==
  /\ DOMAIN file = Labels /\ file = [l \in Labels |-> file[l]] /\ trusted = file
  /\ DOMAIN observer = Observers /\ observer = [p \in Observers |-> observer[p]]
  /\ \A p \in Observers : Labelled(observer[p])

(* At first nobody observes anything. *)
LEMMA BaselineStarts == ASSUME BaselineInit \/ BaselinesAtRest PROVE BaselineInv
<1>1. Labelled(Waiting)
  BY DEF Labelled, Waiting, Writing
<1>2. file \in [Labels -> Stored \cup {NoFile}] /\ trusted = file /\ observer = [p \in Observers |-> Waiting]
  BY DEF BaselineInit, BaselinesAtRest
<1> QED
  BY <1>1, <1>2 DEF BaselineInv

(* A process that goes on to what it is labelled for. *)
LEMMA ProcessMoves ==
  ASSUME BaselineInv, NEW p \in Observers, NEW r, Labelled(r), observer' = [observer EXCEPT ![p] = r],
         UNCHANGED <<file, trusted>>
  PROVE  BaselineInv'
BY DEF BaselineInv

(* A process that ends is labelled for nothing. *)
LEMMA ProcessEnds ==
  ASSUME BaselineInv, NEW p \in Observers, NEW outcome, NEW report, NEW against,
         Ends(p, outcome, report, against)
  PROVE  /\ DOMAIN observer' = Observers /\ observer' = [q \in Observers |-> observer'[q]]
         /\ \A q \in Observers : Labelled(observer'[q])
BY DEF Ends, BaselineInv, Labelled, Writing

(* Every write of a baseline is one that trusted notes, and a link writes only where no file is. *)
LEMMA BaselineStep == BaselineInv /\ [BaselineNext]_baselineVars => BaselineInv'
<1> SUFFICES ASSUME BaselineInv, [BaselineNext]_baselineVars PROVE BaselineInv'
  OBVIOUS
<1>1. ASSUME NEW p \in Observers, NEW verb \in {"observe", "accept", "reset"}, NEW capture \in Captures,
             Begins(p, verb, capture)
      PROVE  BaselineInv'
  <2>1. CASE Refuses(verb, capture)
    BY <1>1, <2>1, ProcessEnds DEF Begins, BaselineInv
  <2>2. CASE ~ Refuses(verb, capture)
    <3> DEFINE r == [pc |-> verb, verb |-> verb, capture |-> capture, report |-> NoDrift,
                     outcome |-> "", against |-> NoFile]
    <3>1. capture.label \in Labels
      BY <2>2, BaselineAssumption DEF Refuses
    <3>2. Labelled(r)
      BY <3>1 DEF Labelled
    <3>3. observer' = [observer EXCEPT ![p] = r] /\ UNCHANGED <<file, trusted>>
      BY <1>1, <2>2 DEF Begins
    <3> HIDE DEF r
    <3> QED
      BY <3>2, <3>3, ProcessMoves
  <2> QED
    BY <2>1, <2>2
<1>2. ASSUME NEW p \in Observers, Looks(p) PROVE BaselineInv'
  <2> DEFINE l == observer[p].capture.label
  <2>1. UNCHANGED <<file, trusted>>
    BY <1>2 DEF Looks
  <2>2. CASE observer' = [observer EXCEPT ![p].pc = "link"]
    <3>1. PICK r : r = [observer[p] EXCEPT !.pc = "link"]
      OBVIOUS
    <3>2. l \in Labels /\ {"pc", "capture"} \subseteq DOMAIN observer[p]
      BY <1>2 DEF Looks, BaselineInv, Labelled, Writing
    <3>3. Labelled(r)
      BY <3>1, <3>2 DEF Labelled
    <3>4. observer' = [observer EXCEPT ![p] = r]
      BY <2>2, <3>1
    <3> QED
      BY <2>1, <3>3, <3>4, ProcessMoves
  <2>3. ASSUME NEW outcome, NEW report, NEW against, Ends(p, outcome, report, against) PROVE BaselineInv'
    BY <2>1, <2>3, ProcessEnds DEF BaselineInv
  <2>4. PICK e, c, f : e = LoadError(l) /\ c = CompareWith(p, file[l]) /\ f = file[l]
    OBVIOUS
  <2>5. observer' = [observer EXCEPT ![p].pc = "link"] \/ Ends(p, e, NoDrift, NoFile) \/ Ends(p, "compared", c, f)
    BY <1>2, <2>4 DEF Looks
  <2> QED
    BY <2>2, <2>3, <2>5
<1>3. ASSUME NEW p \in Observers, Links(p) PROVE BaselineInv'
  <2> DEFINE l == observer[p].capture.label
  <2>1. l \in Labels
    BY <1>3 DEF Links, BaselineInv, Labelled, Writing
  <2>2. CASE LinkFree(l)
    <3>1. /\ file' = [file EXCEPT ![l] = Snapshot(observer[p].capture)]
          /\ trusted' = file' /\ Ends(p, "created", NoDrift, NoFile)
      BY <1>3, <2>1, <2>2 DEF Links, LinkFree, BaselineInv
    <3> QED
      BY <2>1, <3>1, ProcessEnds DEF BaselineInv
  <2>3. CASE ~ LinkFree(l)
    BY <1>3, <2>1, <2>3 DEF Links, BaselineInv, Labelled, Writing
  <2> QED
    BY <2>2, <2>3
<1>4. ASSUME NEW p \in Observers, Accepts(p) PROVE BaselineInv'
  BY <1>4, ProcessEnds DEF Accepts, BaselineInv
<1>5. ASSUME NEW p \in Observers, Resets(p) PROVE BaselineInv'
  BY <1>5, ProcessEnds DEF Resets, BaselineInv
<1>6. ASSUME NEW p \in Observers, Continues(p) PROVE BaselineInv'
  BY <1>6, BaselineStarts DEF Continues, Waiting, BaselineInv, Labelled, Writing
<1>7. CASE UNCHANGED baselineVars
  BY <1>7 DEF baselineVars, BaselineInv
<1> QED
  BY <1>1, <1>2, <1>3, <1>4, <1>5, <1>6, <1>7 DEF BaselineNext

(* What an operator trusted stands until the operator says otherwise, however many processes observe
   the label for the first time at once (writeNew). *)
THEOREM TrustStands == Spec => []FirstTrustStands
<1>1. Init => BaselineInv
  BY BaselineStarts DEF Init
<1>2. BaselineInv /\ [Next]_deskVars => BaselineInv'
  BY BaselineStep, DeskStep
<1>3. BaselineInv => FirstTrustStands
  BY DEF BaselineInv, FirstTrustStands
<1> QED
  BY <1>1, <1>2, <1>3, PTL DEF Spec

-----------------------------------------------------------------------------
(* Logs were written in the past, at some day. *)
Logs == UNION {[N -> [at : Nat, size : Nat]] : N \in SUBSET LogNames}
LogsInv == now \in Nat /\ logs \in Logs

(* No log is from the future. *)
LEMMA LogsStep == LogsInv /\ [LogsNext]_logVars => LogsInv'
<1> SUFFICES ASSUME LogsInv, [LogsNext]_logVars PROVE LogsInv'
  OBVIOUS
<1>1. CASE UNCHANGED <<logs, now>>
  BY <1>1 DEF LogsInv
<1>2. ASSUME NEW n \in LogNames, RemovesLog(n) \/ LogVanishes(n) PROVE LogsInv'
  <2>1. logs' = [m \in DOMAIN logs \ {n} |-> logs[m]] /\ now' = now
    BY <1>2 DEF RemovesLog, LogVanishes
  <2>2. logs' \in [DOMAIN logs \ {n} -> [at : Nat, size : Nat]] /\ DOMAIN logs \ {n} \in SUBSET LogNames
    BY <2>1 DEF LogsInv, Logs
  <2> QED
    BY <2>1, <2>2 DEF LogsInv, Logs
<1>3. ASSUME NEW n \in LogNames, ShimWrites(n) PROVE LogsInv'
  <2>1. /\ logs' = [m \in DOMAIN logs \cup {n} |-> IF m = n THEN [at |-> now, size |-> 2] ELSE logs[m]]
        /\ now' = now
    BY <1>3 DEF ShimWrites
  <2>2. logs' \in [DOMAIN logs \cup {n} -> [at : Nat, size : Nat]] /\ DOMAIN logs \cup {n} \in SUBSET LogNames
    BY <2>1 DEF LogsInv, Logs
  <2> QED
    BY <2>1, <2>2 DEF LogsInv, Logs
<1>4. CASE DayPasses
  BY <1>4 DEF DayPasses, LogsInv
<1> QED
  BY <1>1, <1>2, <1>3, <1>4 DEF LogsNext, logVars, Lists, Answers, Walks

(* Whatever age is asked for, prune lists no log of today, because an age is refused that a duration
   cannot hold (parseAge). *)
THEOREM PruneIsSparing == Spec => PruneSparesToday
<1>1. Init => LogsInv
  <2> SUFFICES ASSUME Init PROVE LogsInv
    OBVIOUS
  <2>1. CASE LogsInit
    BY <2>1 DEF LogsInit, LogsInv, Logs
  <2>2. CASE LogsAtRest
    <3>1. {} \in SUBSET LogNames /\ logs \in [{} -> [at : Nat, size : Nat]] /\ now = 1
      BY <2>2 DEF LogsAtRest
    <3> QED
      BY <3>1 DEF LogsInv, Logs
  <2> QED
    BY <2>1, <2>2 DEF Init
<1>2. LogsInv /\ [Next]_deskVars => LogsInv'
  BY LogsStep, DeskStep
<1>3. LogsInv /\ [LogsNext]_logVars =>
        [prune.pc = "start" /\ prune'.pc = "prompt" => \A n \in prune'.victims : logs[n].at < now]_logVars
  <2> SUFFICES ASSUME LogsInv, LogsNext, prune.pc = "start", prune'.pc = "prompt"
               PROVE  \A n \in prune'.victims : logs[n].at < now
    OBVIOUS
  <2>1. PICK days \in Ages : Lists(days)
    BY DEF LogsNext, Answers, RemovesLog, ShimWrites, LogVanishes, Walks, DayPasses
  <2>2. days > 0 /\ days <= MaxDays /\ days \in Int
    BY <2>1, LogsAssumption DEF Lists, ParseAge, Unstarted
  <2> DEFINE cutoff == now - Wrap64(days)
             old == {n \in DOMAIN logs : logs[n].at < cutoff}
  <2>3. cutoff \in Int /\ cutoff < now
    BY <2>2, LogsAssumption DEF Wrap64, LogsInv
  <2>4. prune'.victims = old
    BY <2>1, <2>2 DEF Lists, ParseAge
  <2>5. \A n \in DOMAIN logs : logs[n].at \in Nat
    BY DEF LogsInv, Logs
  <2> QED
    BY <2>3, <2>4, <2>5 DEF LogsInv
<1> QED
  BY <1>1, <1>2, <1>3, DeskStep, PTL DEF Spec, PruneSparesToday

-----------------------------------------------------------------------------
ExportTypeOK ==
  /\ dest \in [kind : {"file", "none", "device"}, by : Exporters \cup {NoExporter, Several}, whole : BOOLEAN]
  /\ stage \in [Exporters -> Stages] /\ temp \in [Exporters -> {"none", "partial", "whole"}]

(* What a run has of a temporary file follows from how far it is, where it may have one at all. *)
TempFollows ==
  \A p \in Exporters :
    /\ stage[p] \in {"start", "part", "done", "failed"} \/ dest.kind = "device" => temp[p] = "none"
    /\ dirOpen /\ dest.kind # "device" =>
         /\ stage[p] \in {"opened", "writing"} => temp[p] = "partial"
         /\ stage[p] = "written" => temp[p] = "whole"
         /\ stage[p] # "part"

(* A device that was written to is somebody's. *)
DeviceTaken == dest.kind = "device" => \A p \in Exporters : stage[p] \in {"part", "written", "done"} => dest.by # NoExporter

ExportInv == ExportTypeOK /\ TempFollows /\ DeviceTaken /\ ExportsAreWhole

LEMMA ExportStep == ExportInv /\ [ExportNext]_exportVars => ExportInv'
<1> SUFFICES ASSUME ExportInv, [ExportNext]_exportVars PROVE ExportInv'
  OBVIOUS
<1> USE ExportAssumption DEF Several, NoExporter
<1>1. CASE UNCHANGED exportVars
  BY <1>1 DEF exportVars, ExportInv, ExportTypeOK, TempFollows, DeviceTaken, ExportsAreWhole
<1>2. ASSUME NEW p \in Exporters, RefusesSource(p) PROVE ExportInv'
  BY <1>2 DEF RefusesSource, Goes, ExportInv, ExportTypeOK, Stages, TempFollows, DeviceTaken, ExportsAreWhole
<1>3. ASSUME NEW p \in Exporters, OpensTarget(p) PROVE ExportInv'
  <2> USE <1>3 DEF OpensTarget, Goes, ExportInv, ExportTypeOK, Stages, TempFollows, DeviceTaken, ExportsAreWhole
  <2>1. CASE dest.kind = "device"
    BY <2>1
  <2>2. CASE dest.kind # "device" /\ dirOpen
    BY <2>2
  <2>3. CASE dest.kind # "device" /\ ~ dirOpen
    <3>1. dest'.kind = dest.kind /\ dest' \in [kind : {"file", "none", "device"}, by : Exporters \cup {NoExporter, Several}, whole : BOOLEAN]
      BY <2>3
    <3> QED
      BY <2>3, <3>1
  <2> QED
    BY <2>1, <2>2, <2>3
<1>4. ASSUME NEW p \in Exporters, Renders(p) PROVE ExportInv'
  BY <1>4 DEF Renders, Goes, ExportInv, ExportTypeOK, Stages, TempFollows, DeviceTaken, ExportsAreWhole
<1>5. ASSUME NEW p \in Exporters, WritesAll(p) PROVE ExportInv'
  <2> USE <1>5 DEF WritesAll, InPlace, Goes, ExportInv, ExportTypeOK, Stages, TempFollows, DeviceTaken, ExportsAreWhole
  <2>1. CASE stage[p] = "part"
    <3>1. /\ dest' = [dest EXCEPT !.by = IF dest.by = p THEN p ELSE Several, !.whole = dest.by = p]
          /\ temp' = temp /\ stage' = [stage EXCEPT ![p] = "written"] /\ temp[p] = "none" /\ dirOpen' = dirOpen
      BY <2>1
    <3>2. dest'.kind = dest.kind /\ dest'.by \in {p, Several} /\ ExportTypeOK'
      BY <3>1
    <3>3. dirOpen => dest.kind = "device"
      BY <2>1
    <3> QED
      BY <3>1, <3>2, <3>3
  <2>2. CASE stage[p] # "part"
    BY <2>2
  <2> QED
    BY <2>1, <2>2
<1>9. ASSUME NEW p \in Exporters, WritesPart(p) PROVE ExportInv'
  <2> USE <1>9 DEF WritesPart, InPlace, Goes, ExportInv, ExportTypeOK, Stages, TempFollows, DeviceTaken, ExportsAreWhole
  <2>1. /\ dest' = [dest EXCEPT !.by = IF dest.kind = "device" \/ dest.by = p THEN p ELSE Several, !.whole = FALSE]
        /\ temp' = temp /\ stage' = [stage EXCEPT ![p] = "part"] /\ temp[p] = "none" /\ dirOpen' = dirOpen
    OBVIOUS
  <2>2. dest'.kind = dest.kind /\ dest'.by \in {p, Several} /\ ExportTypeOK'
    BY <2>1
  <2>3. dirOpen => dest.kind = "device"
    OBVIOUS
  <2> QED
    BY <2>1, <2>2, <2>3
<1>6. ASSUME NEW p \in Exporters, Commits(p) PROVE ExportInv'
  <2> USE <1>6 DEF Commits, InPlace, Goes, ExportInv, ExportTypeOK, Stages, TempFollows, DeviceTaken, ExportsAreWhole
  <2>1. CASE temp[p] = "none"
    BY <2>1
  <2>2. CASE temp[p] # "none"
    <3>1. dest' = [kind |-> "file", by |-> p, whole |-> temp[p] = "whole"] /\ dest.kind # "device"
      BY <2>2
    <3>2. dirOpen => temp[p] = "whole"
      BY <3>1
    <3>3. dirOpen' = dirOpen /\ temp' = [temp EXCEPT ![p] = "none"] /\ stage' = [stage EXCEPT ![p] = "done"]
      BY <2>2
    <3>4. ExportTypeOK'
      BY <3>1, <3>3
    <3>5. TempFollows' /\ DeviceTaken'
      BY <3>1, <3>3
    <3>6. ExportsAreWhole'
      BY <3>1, <3>2, <3>3
    <3> QED
      BY <3>4, <3>5, <3>6
  <2> QED
    BY <2>1, <2>2
<1>7. ASSUME NEW p \in Exporters, Aborts(p) PROVE ExportInv'
  BY <1>7 DEF Aborts, Goes, ExportInv, ExportTypeOK, Stages, TempFollows, DeviceTaken, ExportsAreWhole
<1>8. ASSUME NEW p \in Exporters, Killed(p) PROVE ExportInv'
  BY <1>8 DEF Killed, Goes, ExportInv, ExportTypeOK, Stages, TempFollows, DeviceTaken, ExportsAreWhole
<1> QED
  BY <1>1, <1>2, <1>3, <1>4, <1>5, <1>6, <1>7, <1>8, <1>9 DEF ExportNext

(* Where the directory allows a temporary file, a path that is no device holds at every moment a whole export or what
   was there before, however many runs write to it, fail or are killed; a run that ended by itself left
   no temporary file, and one that succeeded is not lost (exportTarget, commit, abort). *)
THEOREM ExportsStayWhole == ExportSpec => []ExportsAreWhole
<1>1. ExportInit => ExportInv
  <2> SUFFICES ASSUME ExportInit PROVE ExportInv
    OBVIOUS
  <2>1. dest.by = NoExporter /\ dest.whole = TRUE /\ ExportTypeOK
    BY DEF ExportInit, ExportTypeOK, Stages
  <2>2. \A p \in Exporters : stage[p] = "start" /\ temp[p] = "none"
    BY DEF ExportInit
  <2> QED
    BY <2>1, <2>2, ExportAssumption DEF Several, NoExporter, ExportInv, TempFollows, DeviceTaken, ExportsAreWhole
<1>2. ExportInv => ExportsAreWhole
  BY DEF ExportInv
<1> QED
  BY <1>1, <1>2, ExportStep, PTL DEF ExportSpec
===============================================================================
