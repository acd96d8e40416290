----------------------------- MODULE ReplayProofs -----------------------------
(***************************************************************************)
(* One call replayed, against a server that says what it likes; the HTTP   *)
(* side of a session replay, for any recording and any interleaving of its *)
(* posts; and at the end the replays started from the terminal interface.  *)
(*                                                                         *)
(* That the answer shown is the one to the call needs which lines can wait *)
(* for the server at each place (Waiting), that it is asked at most once   *)
(* and that every answer still to be read is the one it gave               *)
(* (AnsweredOnce), and that the handshake and the revision of the request  *)
(* go together (HandshakeFirst).                                           *)
(*                                                                         *)
(* That each request is settled once needs where a request that was posted *)
(* can be: in flight, answered, closed or missing, in one of them unless   *)
(* it was waited for in vain (OnePlaceEach).  That all posts agree on the  *)
(* session needs that one answer to initialize assigned it, before any     *)
(* post that must carry it set its headers (OneSession).                   *)
(*                                                                         *)
(* That a replay panel shows the answer to what it would send again needs  *)
(* that at most one run has the newest token and carries that request.     *)
(***************************************************************************)
EXTENDS MCReplay, ReplayDesk, FiniteSetTheorems, SequenceTheorems, TLAPS

(* The lines there are, and the only request there is of each kind. *)
Lines    == [kind : {"initialize", "initialized", "request", "answer", "note", "asks"}, id : 0 .. 2,
             says : Sayings \cup {"", "described", "bare"}]
Headings == [name : {"none", "tool", "other"}, mirror : {"none", "kept", "redacted"}, described : BOOLEAN]
Greet    == Line("initialize", 1, "")
Begin    == Line("initialized", 0, "")
Ask      == Line("request", 2, IF shot.stateless /\ Described(shot.request) THEN "described" ELSE "bare")
Stated   == ReplayHeaders(shot.request)
Stdio    == shot.request.via = "stdio"
Places   == {"start", "initialize", "initialized", "ask", "answer", "post", "teardown", "over"}

AskedLines == {<<>>} \cup {<<line>> : line \in Lines \cup Headings}

ShotTypeOK ==
  /\ shot \in [request : Requests, doing : Places, stateless : BOOLEAN, got : Sayings \cup {NoAnswer}, failed : BOOLEAN]
  /\ stdout \in Seq(Lines)
  /\ peer \in [speaks : {"legacy", "modern"}, up : BOOLEAN, shaken : BOOLEAN,
               asked : AskedLines,
               answer : Sayings \cup {NoAnswer}, talk : Int]

(* What waits for the server is one of few things. *)
Waiting ==
  /\ Stdio => stdin \in {<<>>, <<Greet>>, <<Begin>>, <<Begin, Ask>>, <<Ask>>}
  /\ ~ Stdio => stdin \in {<<>>, <<Stated>>}

(* Nothing is returned before the end, nothing runs before the start or after the end. *)
Bounded ==
  /\ shot.got # NoAnswer \/ shot.failed => shot.doing \in {"teardown", "over"}
  /\ shot.got # NoAnswer => ~ shot.failed
  /\ shot.doing = "start" => stdin = <<>> /\ stdout = <<>> /\ ~ peer.shaken
  /\ shot.doing \in {"start", "over"} => ~ peer.up
  /\ shot.doing \in {"start", "initialize", "initialized", "ask"} => peer.asked = <<>>
  /\ shot.doing \in {"initialize", "initialized", "ask", "answer"} => Stdio
  /\ shot.doing = "post" => ~ Stdio

(* The server is asked once, and what it is heard to answer is what it answered. *)
Answered(line) ==
  line.kind = "answer" =>
    /\ Stdio /\ line.id = 1 => /\ stdin # <<Greet>>
                               /\ line.says = IF peer.speaks = "legacy" THEN "result" ELSE "error"
    /\ ~ Stdio \/ line.id = 2 => peer.asked # <<>> /\ line.says = peer.answer
AnsweredOnce ==
  /\ stdin # <<>> => peer.asked = <<>>
  /\ \A i \in DOMAIN stdout : Answered(stdout[i])
  /\ shot.got # NoAnswer => peer.asked # <<>> /\ shot.got = peer.answer

(* Over stdio, the handshake comes before the request or not at all. *)
Suits(line) ==
  IF peer.speaks = "legacy" THEN line.says = "bare"
  ELSE shot.request.object => line.says = "described"
HandshakeFirst ==
  Stdio =>
    /\ peer.shaken => peer.speaks = "legacy" /\ ~ shot.stateless
    /\ stdin \in {<<Begin>>, <<Begin, Ask>>} => peer.speaks = "legacy" /\ ~ shot.stateless /\ ~ peer.shaken
    /\ stdin = <<Ask>> => (shot.stateless <=> peer.speaks = "modern") /\ (peer.shaken <=> peer.speaks = "legacy")
    /\ shot.doing = "initialize" => stdin \in {<<>>, <<Greet>>} /\ ~ peer.shaken
    /\ shot.doing = "initialized" => stdin = <<>> /\ ~ peer.shaken /\ peer.speaks = "legacy" /\ ~ shot.stateless
    /\ shot.doing = "ask" => /\ stdin \in {<<>>, <<Begin>>} /\ (shot.stateless <=> peer.speaks = "modern")
                             /\ (peer.speaks = "legacy" /\ stdin = <<>>) => peer.shaken
    /\ peer.asked # <<>> => peer.shaken = (peer.speaks = "legacy") /\ Suits(peer.asked[1])

(* Over HTTP, what is posted is the one request, and a value that redaction took is not. *)
PostedAsIs ==
  ~ Stdio => /\ peer.asked \in {<<>>, <<Stated>>}
             /\ stdin # <<>> \/ peer.asked # <<>> => ~ Scrubbed(shot.request)

ShotInv == ShotTypeOK /\ Waiting /\ Bounded /\ AnsweredOnce /\ HandshakeFirst /\ PostedAsIs

LEMMA LinesApart ==
  /\ Greet \in Lines /\ Begin \in Lines /\ Ask \in Lines
  /\ Greet.kind = "initialize" /\ Begin.kind = "initialized" /\ Ask.kind = "request"
  /\ <<Greet>> # <<Begin>> /\ <<Greet>> # <<Ask>> /\ <<Begin>> # <<Ask>>
<1>1. Greet \in Lines /\ Begin \in Lines /\ Ask \in Lines
  BY DEF Greet, Begin, Ask, Lines, Line, Sayings
<1>2. Greet.kind = "initialize" /\ Begin.kind = "initialized" /\ Ask.kind = "request"
  BY DEF Greet, Begin, Ask, Line
<1>3. \A a, b : <<a>> = <<b>> => a = b
  OBVIOUS
<1> QED
  BY <1>1, <1>2, <1>3

LEMMA OneOrTwo ==
  ASSUME NEW a, NEW b
  PROVE  /\ Head(<<a>>) = a /\ Tail(<<a>>) = <<>> /\ <<a>> # <<>> /\ <<a>>[1] = a
         /\ Head(<<a, b>>) = a /\ Tail(<<a, b>>) = <<b>> /\ <<a, b>> # <<>> /\ <<a>> # <<a, b>> /\ <<b>> # <<a, b>>
         /\ <<>> \o <<b>> = <<b>> /\ <<a>> \o <<b>> = <<a, b>>
<1> DEFINE E == {a, b}
<1>1. <<>> \o <<b>> = <<b>>
  BY ConcatEmptySeq, <<b>> \in Seq(E)
<1>2. <<a>> \in Seq(E) /\ <<a, b>> \in Seq(E)
  OBVIOUS
<1>3. Append(<<a>>, b) = <<a, b>>
  <2>1. Append(<<a>>, b) \in Seq(E) /\ Len(Append(<<a>>, b)) = 2
    BY <1>2
  <2>2. \A i \in 1 .. 2 : Append(<<a>>, b)[i] = <<a, b>>[i]
    BY <1>2
  <2> QED
    BY <1>2, <2>1, <2>2, SeqEqual
<1>4. <<a>> \o <<b>> = <<a, b>>
  BY <1>2, <1>3, AppendIsConcat
<1> QED
  BY <1>1, <1>4

LEMMA HeadIsRead ==
  ASSUME stdout \in Seq(Lines), stdout # <<>>
  PROVE  /\ Head(stdout) \in Lines /\ 1 \in DOMAIN stdout /\ Head(stdout) = stdout[1]
         /\ Tail(stdout) \in Seq(Lines)
         /\ \A i \in DOMAIN Tail(stdout) : \E j \in DOMAIN stdout : Tail(stdout)[i] = stdout[j]
<1>1. Head(stdout) \in Lines /\ Tail(stdout) \in Seq(Lines) /\ Head(stdout) = stdout[1] /\ Len(Tail(stdout)) = Len(stdout) - 1
      /\ Len(stdout) \in Nat \ {0}
  OBVIOUS
<1>2. DOMAIN stdout = 1 .. Len(stdout) /\ DOMAIN Tail(stdout) = 1 .. Len(stdout) - 1
  BY <1>1
<1>3. \A i \in 1 .. Len(stdout) - 1 : i + 1 \in DOMAIN stdout /\ Tail(stdout)[i] = stdout[i + 1]
  BY <1>1, <1>2
<1> QED
  BY <1>1, <1>2, <1>3

LEMMA LineIsSaid ==
  ASSUME stdout \in Seq(Lines), NEW line \in Lines
  PROVE  /\ Append(stdout, line) \in Seq(Lines)
         /\ \A i \in DOMAIN Append(stdout, line) :
              Append(stdout, line)[i] = line \/ \E j \in DOMAIN stdout : Append(stdout, line)[i] = stdout[j]
<1>1. Append(stdout, line) \in Seq(Lines) /\ Len(Append(stdout, line)) = Len(stdout) + 1 /\ Len(stdout) \in Nat
  OBVIOUS
<1>2. DOMAIN stdout = 1 .. Len(stdout) /\ DOMAIN Append(stdout, line) = 1 .. Len(stdout) + 1
  BY <1>1
<1>3. \A i \in 1 .. Len(stdout) + 1 : Append(stdout, line)[i] = IF i = Len(stdout) + 1 THEN line ELSE stdout[i]
  BY <1>1
<1> QED
  BY <1>1, <1>2, <1>3

LEMMA PostIsHeading == ShotTypeOK => Stated \in Headings
<1> SUFFICES ASSUME ShotTypeOK PROVE Stated \in Headings
  OBVIOUS
<1>1. shot.request \in Requests
  BY DEF ShotTypeOK
<1> QED
  BY <1>1 DEF Stated, ReplayHeaders, Requests, Headings, McpName, Described

(* A step that writes nothing and is told nothing can only end the replay. *)
LEMMA QuietStep ==
  ASSUME ShotInv, ShotTypeOK', stdin' = stdin,
         \A i \in DOMAIN stdout' : stdout'[i].kind = "answer" => \E j \in DOMAIN stdout : stdout'[i] = stdout[j],
         shot'.request = shot.request, shot'.stateless = shot.stateless, shot'.got = shot.got,
         shot'.doing # "start" \/ (shot.doing = "start" /\ stdout' = stdout),
         shot'.doing = shot.doing \/ shot'.doing \in {"teardown", "over"},
         shot.doing \in {"teardown", "over"} => shot'.doing \in {"teardown", "over"} /\ shot'.failed = shot.failed,
         shot'.failed => shot'.doing \in {"teardown", "over"},
         shot'.doing \in {"start", "over"} => ~ peer'.up,
         peer'.speaks = peer.speaks, peer'.shaken = peer.shaken, peer'.asked = peer.asked, peer'.answer = peer.answer
  PROVE  ShotInv'
<1>1. Ask' = Ask /\ Stated' = Stated /\ (Stdio' <=> Stdio)
  BY DEF Ask, Stated, Stdio
<1>2. Waiting' /\ PostedAsIs'
  BY <1>1 DEF ShotInv, Waiting, PostedAsIs
<1>3. Bounded'
  BY <1>1 DEF ShotInv, Bounded
<1>4. AnsweredOnce'
  <2>1. ASSUME NEW i \in DOMAIN stdout' PROVE Answered(stdout[i])'
    BY <1>1 DEF ShotInv, AnsweredOnce, Answered
  <2> QED
    BY <2>1 DEF ShotInv, AnsweredOnce
<1>5. HandshakeFirst'
  BY <1>1 DEF ShotInv, HandshakeFirst, Suits
<1> QED
  BY <1>2, <1>3, <1>4, <1>5 DEF ShotInv

(* What the replay does without writing or learning anything. *)
LEMMA QuietActions ==
  ASSUME ShotInv,
         \/ shot.doing = "initialize" /\ PassesOver(1)
         \/ shot.doing = "answer" /\ PassesOver(2)
         \/ ReadsEOF \/ TimeIsUp \/ TearsDown \/ RefusesRedacted \/ StreamEnds \/ ClosesBody \/ Stops
  PROVE  ShotInv'
<1> USE DEF ShotInv, ShotTypeOK, Places
<1>1. CASE shot.doing = "initialize" /\ PassesOver(1)
  <2> USE <1>1 DEF PassesOver
  <2>0. stdout # <<>> /\ stdout' = Tail(stdout) /\ shot' = shot /\ stdin' = stdin /\ peer' = peer
    OBVIOUS
  <2>1. stdout' \in Seq(Lines) /\ \A i \in DOMAIN stdout' : \E j \in DOMAIN stdout : stdout'[i] = stdout[j]
    BY <2>0, HeadIsRead
  <2>2. ShotTypeOK'
    BY <2>0, <2>1
  <2> QED
    BY <2>0, <2>1, <2>2, QuietStep DEF Bounded
<1>2. CASE shot.doing = "answer" /\ PassesOver(2)
  <2> USE <1>2 DEF PassesOver
  <2>0. stdout # <<>> /\ stdout' = Tail(stdout) /\ shot' = shot /\ stdin' = stdin /\ peer' = peer
    OBVIOUS
  <2>1. stdout' \in Seq(Lines) /\ \A i \in DOMAIN stdout' : \E j \in DOMAIN stdout : stdout'[i] = stdout[j]
    BY <2>0, HeadIsRead
  <2>2. ShotTypeOK'
    BY <2>0, <2>1
  <2> QED
    BY <2>0, <2>1, <2>2, QuietStep DEF Bounded
<1>3. CASE ReadsEOF
  <2>1. ShotTypeOK'
    BY <1>3 DEF ReadsEOF, Fails
  <2> QED
    BY <1>3, <2>1, QuietStep DEF ReadsEOF, Fails, Bounded
<1>4. CASE TimeIsUp
  <2>1. ShotTypeOK'
    BY <1>4 DEF TimeIsUp, KillsServer
  <2> QED
    BY <1>4, <2>1, QuietStep DEF TimeIsUp, KillsServer, Bounded
<1>5. CASE TearsDown
  <2>1. ShotTypeOK'
    BY <1>5 DEF TearsDown, KillsServer, Now
  <2> QED
    BY <1>5, <2>1, QuietStep DEF TearsDown, KillsServer, Now, Bounded
<1>6. CASE RefusesRedacted
  <2>1. ShotTypeOK'
    BY <1>6 DEF RefusesRedacted, Now
  <2> QED
    BY <1>6, <2>1, QuietStep DEF RefusesRedacted, Now, Bounded
<1>7. CASE StreamEnds
  <2>1. ShotTypeOK'
    BY <1>7 DEF StreamEnds, Now, Fails
  <2> QED
    BY <1>7, <2>1, QuietStep DEF StreamEnds, Now, Fails, Bounded
<1>8. CASE ClosesBody
  <2>1. ShotTypeOK'
    BY <1>8 DEF ClosesBody, Now
  <2> QED
    BY <1>8, <2>1, QuietStep DEF ClosesBody, Now, Bounded
<1>9. CASE Stops
  <2>1. ShotTypeOK'
    BY <1>9 DEF Stops, KillsServer
  <2> QED
    BY <1>9, <2>1, QuietStep DEF Stops, KillsServer, Bounded
<1> QED
  BY <1>1, <1>2, <1>3, <1>4, <1>5, <1>6, <1>7, <1>8, <1>9

LEMMA TalkingKeeps == ASSUME ShotInv, Talks PROVE ShotInv'
<1> DEFINE note == Line("note", 0, "")
           asksOne == Line("asks", 1, "")
           asksTwo == Line("asks", 2, "")
<1>1. \/ stdout' = Append(stdout, note) \/ stdout' = Append(stdout, asksOne) \/ stdout' = Append(stdout, asksTwo)
  BY DEF Talks, PeerSays
<1>2. /\ note \in Lines /\ note.kind = "note"
      /\ asksOne \in Lines /\ asksOne.kind = "asks"
      /\ asksTwo \in Lines /\ asksTwo.kind = "asks"
  BY DEF Line, Lines
<1> HIDE DEF note, asksOne, asksTwo
<1>3. PICK line \in Lines : line.kind # "answer" /\ stdout' = Append(stdout, line)
  BY <1>1, <1>2
<1>4. stdout \in Seq(Lines)
  BY DEF ShotInv, ShotTypeOK
<1>5. stdout' \in Seq(Lines) /\ \A i \in DOMAIN stdout' : stdout'[i] = line \/ \E j \in DOMAIN stdout : stdout'[i] = stdout[j]
  BY <1>3, <1>4, LineIsSaid
<1>6. shot' = shot /\ stdin' = stdin /\ peer.up /\ peer' = [peer EXCEPT !.talk = peer.talk + 1]
  BY DEF Talks
<1>7. peer.talk + 1 \in Int
  BY DEF ShotInv, ShotTypeOK
<1>8. ShotTypeOK'
  BY <1>5, <1>6, <1>7 DEF ShotInv, ShotTypeOK
<1> QED
  BY <1>3, <1>5, <1>6, <1>8, QuietStep DEF ShotInv, ShotTypeOK, Bounded

LEMMA WaitingLines ==
  /\ <<Greet>> # <<Begin, Ask>> /\ <<Begin>> # <<Begin, Ask>> /\ <<Ask>> # <<Begin, Ask>>
  /\ <<Greet>> # <<>> /\ <<Begin>> # <<>> /\ <<Ask>> # <<>> /\ <<Begin, Ask>> # <<>> /\ <<Stated>> # <<>>
  /\ Head(<<Greet>>) = Greet /\ Head(<<Begin>>) = Begin /\ Head(<<Ask>>) = Ask /\ Head(<<Begin, Ask>>) = Begin
  /\ Tail(<<Greet>>) = <<>> /\ Tail(<<Begin>>) = <<>> /\ Tail(<<Ask>>) = <<>> /\ Tail(<<Begin, Ask>>) = <<Ask>>
  /\ Head(<<Stated>>) = Stated /\ Tail(<<Stated>>) = <<>>
  /\ <<>> \o <<Greet>> = <<Greet>> /\ <<>> \o <<Begin>> = <<Begin>> /\ <<>> \o <<Ask>> = <<Ask>>
  /\ <<Begin>> \o <<Ask>> = <<Begin, Ask>>
<1>1. <<Begin>> # <<Begin, Ask>> /\ <<Ask>> # <<Begin, Ask>> /\ Len(<<Greet>>) = 1 /\ Len(<<Begin, Ask>>) = 2
  BY OneOrTwo
<1> QED
  BY <1>1, OneOrTwo

LEMMA StartingKeeps == ASSUME ShotInv, StartsServer PROVE ShotInv'
<1>1. Stdio /\ shot.doing = "start" /\ stdin = <<>> /\ stdout = <<>> /\ stdout' = stdout /\ peer.asked = <<>> /\ ~ peer.shaken
      /\ ~ peer.up /\ shot.got = NoAnswer /\ ~ shot.failed
  BY DEF StartsServer, Now, Stdio, ShotInv, Bounded
<1>2. CASE shot'.doing = "initialize"
  <2>1. peer' = [peer EXCEPT !.up = TRUE] /\ stdin' = <<>> \o <<Greet>> /\ shot' = [shot EXCEPT !.doing = "initialize"]
    BY <1>1, <1>2 DEF StartsServer, Writes, Greet, ShotInv, ShotTypeOK
  <2>2. stdin' = <<Greet>>
    BY <2>1, WaitingLines
  <2>3. ShotTypeOK'
    BY <1>1, <2>1 DEF ShotInv, ShotTypeOK, Places
  <2>4. Stdio' /\ shot'.got = NoAnswer /\ ~ shot'.failed /\ peer'.asked = <<>> /\ ~ peer'.shaken /\ shot'.doing = "initialize"
    BY <1>1, <2>1 DEF ShotInv, ShotTypeOK, Stdio
  <2>5. Greet' = Greet /\ Begin' = Begin /\ Ask' = Ask
    BY <2>1 DEF Greet, Begin, Ask, ShotInv, ShotTypeOK
  <2>6. Waiting' /\ Bounded' /\ PostedAsIs'
    BY <2>2, <2>4, <2>5 DEF Waiting, Bounded, PostedAsIs
  <2>7. AnsweredOnce'
    BY <1>1, <2>4 DEF AnsweredOnce
  <2>8. HandshakeFirst'
    BY <2>2, <2>4, <2>5, LinesApart, WaitingLines DEF HandshakeFirst
  <2> QED
    BY <2>3, <2>6, <2>7, <2>8 DEF ShotInv
<1>3. CASE shot'.doing # "initialize"
  <2>1. shot' = [shot EXCEPT !.failed = TRUE, !.doing = "over"] /\ stdin' = stdin /\ peer' = peer
    BY <1>1, <1>3 DEF StartsServer, ShotInv, ShotTypeOK
  <2>2. ShotTypeOK'
    BY <1>1, <2>1 DEF ShotInv, ShotTypeOK, Places
  <2> QED
    BY <1>1, <2>1, <2>2, QuietStep DEF ShotInv, ShotTypeOK
<1> QED
  BY <1>2, <1>3

(* Not understanding the answer ends the replay; an error to initialize says the server is modern. *)
LEMMA LearningKeeps == ASSUME ShotInv, LearnsRevision PROVE ShotInv'
<1>1. /\ Stdio /\ shot.doing = "initialize" /\ stdout # <<>> /\ stdout \in Seq(Lines) /\ stdout' = Tail(stdout)
      /\ IsOurs(Head(stdout), 1) /\ stdin' = stdin /\ peer' = peer
      /\ shot.got = NoAnswer /\ ~ shot.failed /\ peer.asked = <<>> /\ stdin \in {<<>>, <<Greet>>} /\ ~ peer.shaken
  BY DEF LearnsRevision, Now, Stdio, ShotInv, ShotTypeOK, Bounded, HandshakeFirst
<1>2. /\ Head(stdout) \in Lines /\ 1 \in DOMAIN stdout /\ Head(stdout) = stdout[1] /\ stdout' \in Seq(Lines)
      /\ \A i \in DOMAIN stdout' : \E j \in DOMAIN stdout : stdout'[i] = stdout[j]
  BY <1>1, HeadIsRead
<1>3. stdin = <<>> /\ Head(stdout).says = IF peer.speaks = "legacy" THEN "result" ELSE "error"
  BY <1>1, <1>2 DEF IsOurs, ShotInv, AnsweredOnce, Answered
<1>4. peer.speaks = "legacy" \/ (peer.speaks = "modern" /\ peer.speaks # "legacy")
  BY DEF ShotInv, ShotTypeOK
<1>5. shot' = [shot EXCEPT !.stateless = (peer.speaks = "modern"), !.doing = IF peer.speaks = "modern" THEN "ask" ELSE "initialized"]
  BY <1>3, <1>4 DEF LearnsRevision
<1>6. ShotTypeOK'
  BY <1>1, <1>2, <1>5 DEF ShotInv, ShotTypeOK, Places
<1>7. /\ shot'.doing = IF peer.speaks = "modern" THEN "ask" ELSE "initialized"
      /\ shot'.stateless = (peer.speaks = "modern")
      /\ shot'.got = NoAnswer /\ ~ shot'.failed /\ Stdio' /\ stdin' = <<>> /\ peer'.asked = <<>> /\ peer' = peer
  BY <1>1, <1>3, <1>5 DEF ShotInv, ShotTypeOK, Stdio
<1>8. Waiting' /\ Bounded' /\ PostedAsIs'
  BY <1>7 DEF Waiting, Bounded, PostedAsIs
<1>9. AnsweredOnce'
  <2>1. ASSUME NEW i \in DOMAIN stdout' PROVE Answered(stdout[i])'
    BY <1>1, <1>2, <1>3, <1>7 DEF ShotInv, AnsweredOnce, Answered
  <2> QED
    BY <1>7, <2>1 DEF AnsweredOnce
<1>10. HandshakeFirst'
  <2>1. <<Greet>> # <<>> /\ <<Begin>> # <<>> /\ <<Begin, Ask'>> # <<>> /\ <<Ask'>> # <<>>
    BY OneOrTwo
  <2> QED
    BY <1>1, <1>4, <1>7, <2>1 DEF HandshakeFirst
<1> QED
  BY <1>6, <1>8, <1>9, <1>10 DEF ShotInv

LEMMA InitializedKeeps == ASSUME ShotInv, SaysInitialized PROVE ShotInv'
<1>1. /\ Stdio /\ shot.doing = "initialized" /\ stdin = <<>> /\ stdout' = stdout /\ peer' = peer
      /\ shot.got = NoAnswer /\ ~ shot.failed /\ peer.asked = <<>> /\ ~ peer.shaken
      /\ peer.speaks = "legacy" /\ ~ shot.stateless
  BY DEF SaysInitialized, Now, Stdio, ShotInv, ShotTypeOK, Bounded, HandshakeFirst
<1>2. CASE peer.up
  <2>1. shot' = [shot EXCEPT !.doing = "ask"] /\ stdin' = <<>> \o <<Begin>>
    BY <1>1, <1>2 DEF SaysInitialized, Writes, Begin
  <2>2. stdin' = <<Begin>> /\ <<Begin>> # <<Greet>> /\ <<Begin>> # <<>>
    BY <2>1, WaitingLines, LinesApart
  <2>3. ShotTypeOK'
    BY <1>1, <2>1 DEF ShotInv, ShotTypeOK, Places
  <2>4. /\ Stdio' /\ shot'.got = NoAnswer /\ ~ shot'.failed /\ shot'.doing = "ask" /\ ~ shot'.stateless
        /\ Begin' = Begin /\ Greet' = Greet /\ Ask' = Ask
    BY <1>1, <2>1 DEF ShotInv, ShotTypeOK, Stdio, Begin, Greet, Ask
  <2>5. Waiting' /\ Bounded' /\ PostedAsIs'
    BY <1>1, <2>2, <2>4 DEF Waiting, Bounded, PostedAsIs
  <2>6. AnsweredOnce'
    <3>1. ASSUME NEW i \in DOMAIN stdout PROVE Answered(stdout[i])'
      BY <1>1, <2>2, <2>4 DEF ShotInv, AnsweredOnce, Answered
    <3> QED
      BY <1>1, <2>4, <3>1 DEF AnsweredOnce
  <2>7. HandshakeFirst'
    BY <1>1, <2>2, <2>4, LinesApart, WaitingLines DEF HandshakeFirst
  <2> QED
    BY <2>3, <2>5, <2>6, <2>7 DEF ShotInv
<1>3. CASE ~ peer.up
  <2>1. shot' = [shot EXCEPT !.failed = TRUE, !.doing = "teardown"] /\ stdin' = stdin
    BY <1>3 DEF SaysInitialized, Fails
  <2>2. ShotTypeOK'
    BY <1>1, <2>1 DEF ShotInv, ShotTypeOK, Places
  <2> QED
    BY <1>1, <2>1, <2>2, QuietStep DEF ShotInv, ShotTypeOK
<1> QED
  BY <1>2, <1>3

LEMMA AskingKeeps == ASSUME ShotInv, AsksOnce PROVE ShotInv'
<1>1. /\ Stdio /\ shot.doing = "ask" /\ stdin \in {<<>>, <<Begin>>} /\ stdout' = stdout /\ peer' = peer
      /\ shot.got = NoAnswer /\ ~ shot.failed /\ peer.asked = <<>>
      /\ (shot.stateless <=> peer.speaks = "modern") /\ (peer.speaks = "legacy" /\ stdin = <<>> => peer.shaken)
  BY DEF AsksOnce, Now, Stdio, ShotInv, ShotTypeOK, Bounded, HandshakeFirst
<1>2. CASE peer.up
  <2>1. shot' = [shot EXCEPT !.doing = "answer"] /\ stdin' = stdin \o <<Ask>>
    BY <1>1, <1>2 DEF AsksOnce, Writes, Ask
  <2>2. (stdin = <<>> /\ stdin' = <<Ask>>) \/ (stdin = <<Begin>> /\ stdin' = <<Begin, Ask>>)
    BY <1>1, <2>1, WaitingLines
  <2>3. ShotTypeOK'
    BY <1>1, <2>1 DEF ShotInv, ShotTypeOK, Places
  <2>4. /\ Stdio' /\ shot'.got = NoAnswer /\ ~ shot'.failed /\ shot'.doing = "answer" /\ shot'.stateless = shot.stateless
        /\ Begin' = Begin /\ Greet' = Greet /\ Ask' = Ask
    BY <1>1, <2>1 DEF ShotInv, ShotTypeOK, Stdio, Begin, Greet, Ask
  <2>5. Waiting' /\ Bounded' /\ PostedAsIs'
    BY <1>1, <2>2, <2>4 DEF Waiting, Bounded, PostedAsIs
  <2>6. AnsweredOnce'
    <3>1. ASSUME NEW i \in DOMAIN stdout PROVE Answered(stdout[i])'
      BY <1>1, <2>2, <2>4, LinesApart, WaitingLines DEF ShotInv, AnsweredOnce, Answered
    <3> QED
      BY <1>1, <2>4, <3>1 DEF AnsweredOnce
  <2>7. HandshakeFirst'
    BY <1>1, <2>2, <2>4, LinesApart, WaitingLines DEF ShotInv, ShotTypeOK, HandshakeFirst
  <2> QED
    BY <2>3, <2>5, <2>6, <2>7 DEF ShotInv
<1>3. CASE ~ peer.up
  <2>1. shot' = [shot EXCEPT !.failed = TRUE, !.doing = "teardown"] /\ stdin' = stdin
    BY <1>3 DEF AsksOnce, Fails
  <2>2. ShotTypeOK'
    BY <1>1, <2>1 DEF ShotInv, ShotTypeOK, Places
  <2> QED
    BY <1>1, <2>1, <2>2, QuietStep DEF ShotInv, ShotTypeOK
<1> QED
  BY <1>2, <1>3

(* What is taken for the answer is the answer, whoever asks with the same id in between. *)
LEMMA TakingKeeps ==
  ASSUME ShotInv, TakesAnswer \/ ReadsStream
  PROVE  ShotInv'
<1>1. /\ stdout # <<>> /\ stdout \in Seq(Lines) /\ stdout' = Tail(stdout) /\ stdin' = stdin /\ peer' = peer
      /\ shot.doing \in {"answer", "post"} /\ shot.got = NoAnswer /\ ~ shot.failed
      /\ shot.doing = "answer" => Stdio /\ IsOurs(Head(stdout), 2)
      /\ shot.doing = "post" => ~ Stdio
  BY DEF TakesAnswer, ReadsStream, Now, ShotInv, ShotTypeOK, Bounded
<1>2. /\ Head(stdout) \in Lines /\ 1 \in DOMAIN stdout /\ Head(stdout) = stdout[1] /\ stdout' \in Seq(Lines)
      /\ \A i \in DOMAIN stdout' : \E j \in DOMAIN stdout : stdout'[i] = stdout[j]
  BY <1>1, HeadIsRead
<1>3. ASSUME shot' = [shot EXCEPT !.got = Head(stdout).says, !.doing = "teardown"], Head(stdout).kind = "answer"
      PROVE  ShotInv'
  <2>1. peer.asked # <<>> /\ Head(stdout).says = peer.answer
    BY <1>1, <1>2, <1>3 DEF IsOurs, ShotInv, AnsweredOnce, Answered
  <2>2. ShotTypeOK'
    BY <1>1, <1>2, <1>3, <2>1 DEF ShotInv, ShotTypeOK, Places
  <2>3. /\ (Stdio' <=> Stdio) /\ shot'.got = peer.answer /\ ~ shot'.failed /\ shot'.doing = "teardown"
        /\ Ask' = Ask /\ Stated' = Stated /\ shot'.stateless = shot.stateless /\ shot'.request = shot.request
    BY <1>1, <1>3, <2>1 DEF ShotInv, ShotTypeOK, Stdio, Ask, Stated
  <2>4. Waiting' /\ Bounded' /\ PostedAsIs'
    BY <1>1, <2>1, <2>3 DEF ShotInv, Waiting, Bounded, PostedAsIs
  <2>5. AnsweredOnce'
    <3>1. ASSUME NEW i \in DOMAIN stdout' PROVE Answered(stdout[i])'
      BY <1>1, <1>2, <2>3 DEF ShotInv, AnsweredOnce, Answered
    <3> QED
      BY <1>1, <2>1, <2>3, <3>1 DEF ShotInv, AnsweredOnce
  <2>6. HandshakeFirst'
    BY <1>1, <2>3 DEF ShotInv, HandshakeFirst, Suits
  <2> QED
    BY <2>2, <2>4, <2>5, <2>6 DEF ShotInv
<1>4. CASE shot' = shot
  <2>1. ShotTypeOK'
    BY <1>1, <1>2, <1>4 DEF ShotInv, ShotTypeOK
  <2> QED
    BY <1>1, <1>2, <1>4, <2>1, QuietStep
<1>5. CASE shot' = [shot EXCEPT !.failed = TRUE, !.doing = "teardown"]
  <2>1. ShotTypeOK'
    BY <1>1, <1>2, <1>5 DEF ShotInv, ShotTypeOK, Places
  <2> QED
    BY <1>1, <1>2, <1>5, <2>1, QuietStep DEF ShotInv, ShotTypeOK
<1>6. CASE TakesAnswer
  BY <1>3, <1>5, <1>6 DEF TakesAnswer, IsOurs, Fails
<1>7. CASE ReadsStream
  BY <1>3, <1>4, <1>7 DEF ReadsStream, IsRPCResponse
<1> QED
  BY <1>6, <1>7

LEMMA PostingKeeps == ASSUME ShotInv, Posts PROVE ShotInv'
<1>1. /\ ~ Stdio /\ shot.doing = "start" /\ stdin = <<>> /\ stdout = <<>> /\ stdout' = stdout /\ peer.asked = <<>>
      /\ ~ peer.shaken /\ shot.got = NoAnswer /\ ~ shot.failed /\ ~ Scrubbed(shot.request)
      /\ stdin' = <<Stated>> /\ peer' = [peer EXCEPT !.up = TRUE] /\ shot' = [shot EXCEPT !.doing = "post"]
  BY DEF Posts, Now, Stdio, Stated, ShotInv, Bounded
<1>2. ShotTypeOK'
  BY <1>1 DEF ShotInv, ShotTypeOK, Places
<1>3. /\ ~ Stdio' /\ shot'.got = NoAnswer /\ ~ shot'.failed /\ shot'.doing = "post" /\ peer'.asked = <<>>
      /\ Stated' = Stated /\ shot'.request = shot.request
  BY <1>1 DEF ShotInv, ShotTypeOK, Stdio, Stated
<1>4. Waiting' /\ Bounded' /\ PostedAsIs' /\ AnsweredOnce' /\ HandshakeFirst'
  BY <1>1, <1>3 DEF Waiting, Bounded, PostedAsIs, AnsweredOnce, HandshakeFirst
<1> QED
  BY <1>2, <1>4 DEF ShotInv

LEMMA FailedPostKeeps == ASSUME ShotInv, PostFails PROVE ShotInv'
<1>1. /\ ~ Stdio /\ shot.doing = "post" /\ stdin' = <<>> /\ stdout' = stdout /\ shot.got = NoAnswer
      /\ peer' = [peer EXCEPT !.up = FALSE] /\ shot' = [shot EXCEPT !.failed = TRUE, !.doing = "teardown"]
  BY DEF PostFails, Now, Fails, ShotInv, Bounded
<1>2. ShotTypeOK'
  BY <1>1 DEF ShotInv, ShotTypeOK, Places
<1>3. /\ ~ Stdio' /\ shot'.got = NoAnswer /\ shot'.doing = "teardown" /\ peer'.asked = peer.asked /\ peer'.answer = peer.answer
      /\ Stated' = Stated /\ shot'.request = shot.request
  BY <1>1 DEF ShotInv, ShotTypeOK, Stdio, Stated
<1>4. Waiting' /\ Bounded' /\ PostedAsIs' /\ HandshakeFirst'
  BY <1>1, <1>3 DEF ShotInv, Waiting, Bounded, PostedAsIs, HandshakeFirst
<1>5. AnsweredOnce'
  <2>1. ASSUME NEW i \in DOMAIN stdout PROVE Answered(stdout[i])'
    BY <1>1, <1>3 DEF ShotInv, AnsweredOnce, Answered
  <2> QED
    BY <1>1, <1>3, <2>1 DEF AnsweredOnce
<1> QED
  BY <1>2, <1>4, <1>5 DEF ShotInv

LEMMA WelcomeKeeps == ASSUME ShotInv, AnswersInitialize PROVE ShotInv'
<1> DEFINE line == Line("answer", 1, IF peer.speaks = "legacy" THEN "result" ELSE "error")
<1>1. /\ Stdio /\ stdin # <<>> /\ Head(stdin).kind = "initialize" /\ stdout' = Append(stdout, line)
      /\ stdin' = Tail(stdin) /\ shot' = shot /\ peer' = peer /\ peer.up /\ stdout \in Seq(Lines)
  BY DEF AnswersInitialize, PeerSays, Stdio, ShotInv, ShotTypeOK
<1>2. line \in Lines /\ line.kind = "answer" /\ line.id = 1 /\ line.says = IF peer.speaks = "legacy" THEN "result" ELSE "error"
  BY DEF Line, Lines, Sayings
<1> HIDE DEF line
<1>3. stdin = <<Greet>> /\ stdin' = <<>>
  BY <1>1, LinesApart, WaitingLines DEF ShotInv, Waiting
<1>4. stdout' \in Seq(Lines) /\ \A i \in DOMAIN stdout' : stdout'[i] = line \/ \E j \in DOMAIN stdout : stdout'[i] = stdout[j]
  BY <1>1, <1>2, LineIsSaid
<1>5. ShotTypeOK'
  BY <1>1, <1>4 DEF ShotInv, ShotTypeOK
<1>6. Stdio' /\ peer.asked = <<>> /\ <<>> # <<Greet>> /\ shot.doing # "start"
  BY <1>1, <1>3, WaitingLines DEF Stdio, ShotInv, AnsweredOnce, Bounded
<1>7. Waiting' /\ Bounded' /\ PostedAsIs'
  BY <1>1, <1>3, <1>6 DEF ShotInv, Waiting, Bounded, PostedAsIs
<1>8. AnsweredOnce'
  <2>1. ASSUME NEW i \in DOMAIN stdout' PROVE Answered(stdout[i])'
    BY <1>1, <1>2, <1>3, <1>4, <1>6 DEF ShotInv, AnsweredOnce, Answered
  <2> QED
    BY <1>1, <1>3, <2>1 DEF ShotInv, AnsweredOnce
<1>9. HandshakeFirst'
  BY <1>1, <1>3, <1>6, LinesApart, WaitingLines DEF ShotInv, HandshakeFirst
<1> QED
  BY <1>5, <1>7, <1>8, <1>9 DEF ShotInv

LEMMA HearingKeeps == ASSUME ShotInv, HearsInitialized PROVE ShotInv'
<1>1. /\ Stdio /\ stdin # <<>> /\ Head(stdin).kind = "initialized" /\ stdin' = Tail(stdin)
      /\ peer' = [peer EXCEPT !.shaken = TRUE] /\ shot' = shot /\ stdout' = stdout /\ peer.up
  BY DEF HearsInitialized, Stdio
<1>2. (stdin = <<Begin>> /\ stdin' = <<>>) \/ (stdin = <<Begin, Ask>> /\ stdin' = <<Ask>>)
  BY <1>1, LinesApart, WaitingLines DEF ShotInv, Waiting
<1>3. peer.speaks = "legacy" /\ ~ shot.stateless /\ ~ peer.shaken /\ peer.asked = <<>>
  BY <1>1, <1>2 DEF ShotInv, HandshakeFirst, AnsweredOnce
<1>4. ShotTypeOK'
  BY <1>1 DEF ShotInv, ShotTypeOK
<1>5. /\ Stdio' /\ peer'.speaks = "legacy" /\ peer'.shaken /\ peer'.asked = <<>> /\ peer'.answer = peer.answer /\ peer'.up
      /\ Ask' = Ask /\ Begin' = Begin /\ Greet' = Greet
  BY <1>1, <1>3 DEF ShotInv, ShotTypeOK, Stdio, Ask, Begin, Greet
<1>6. shot.doing \notin {"start", "initialize", "initialized", "over"}
  BY <1>1, <1>2, LinesApart, WaitingLines DEF ShotInv, Bounded, HandshakeFirst
<1>7. Waiting' /\ Bounded' /\ PostedAsIs'
  BY <1>1, <1>2, <1>5, <1>6 DEF ShotInv, Waiting, Bounded, PostedAsIs
<1>8. AnsweredOnce'
  <2>1. ASSUME NEW i \in DOMAIN stdout PROVE Answered(stdout[i])'
    BY <1>1, <1>2, <1>3, <1>5, LinesApart, WaitingLines DEF ShotInv, AnsweredOnce, Answered
  <2> QED
    BY <1>1, <1>3, <1>5, <2>1 DEF ShotInv, AnsweredOnce
<1>9. HandshakeFirst'
  BY <1>1, <1>2, <1>3, <1>5, <1>6, LinesApart, WaitingLines DEF ShotInv, HandshakeFirst
<1> QED
  BY <1>4, <1>7, <1>8, <1>9 DEF ShotInv

(* The request is answered once, and nothing else was asked before. *)
LEMMA AnsweringKeeps == ASSUME ShotInv, AnswersRequest PROVE ShotInv'
<1>1. PICK says \in Sayings :
        /\ peer' = [peer EXCEPT !.asked = <<Head(stdin)>>, !.answer = says]
        /\ stdout' = Append(stdout, Line("answer", IF Stdio THEN 2 ELSE 1, says))
  BY DEF AnswersRequest, PeerSays, Stdio
<1> DEFINE line == Line("answer", IF Stdio THEN 2 ELSE 1, says)
<1>2. line \in Lines /\ line.kind = "answer" /\ (Stdio => line.id = 2) /\ line.says = says
  <2>1. line = [kind |-> "answer", id |-> IF Stdio THEN 2 ELSE 1, says |-> says]
    BY DEF Line
  <2>2. (IF Stdio THEN 2 ELSE 1) \in 0 .. 2
    OBVIOUS
  <2> HIDE DEF line
  <2> QED
    BY <2>1, <2>2 DEF Lines
<1>3. stdout' = Append(stdout, line)
  BY <1>1
<1> HIDE DEF line
<1>4. /\ stdin # <<>> /\ (Stdio => Head(stdin).kind = "request") /\ stdin' = Tail(stdin) /\ shot' = shot /\ peer.up
      /\ stdout \in Seq(Lines) /\ peer.asked = <<>> /\ shot.got = NoAnswer
  BY DEF AnswersRequest, Stdio, ShotInv, ShotTypeOK, AnsweredOnce
<1>5. (Stdio /\ stdin = <<Ask>> /\ Head(stdin) = Ask) \/ (~ Stdio /\ stdin = <<Stated>> /\ Head(stdin) = Stated)
  BY <1>4, LinesApart, WaitingLines DEF ShotInv, Waiting
<1>6. stdin' = <<>>
  BY <1>4, <1>5, WaitingLines
<1>7. stdout' \in Seq(Lines) /\ \A i \in DOMAIN stdout' : stdout'[i] = line \/ \E j \in DOMAIN stdout : stdout'[i] = stdout[j]
  BY <1>2, <1>3, <1>4, LineIsSaid
<1>8. ShotTypeOK'
  <2>1. Head(stdin) \in Lines \cup Headings
    BY <1>5, LinesApart, PostIsHeading DEF ShotInv
  <2>2. <<Head(stdin)>> \in AskedLines
    BY <2>1 DEF AskedLines
  <2> QED
    BY <1>1, <1>4, <1>7, <2>2 DEF ShotInv, ShotTypeOK
<1>9. /\ (Stdio' <=> Stdio) /\ Ask' = Ask /\ Stated' = Stated /\ peer'.speaks = peer.speaks /\ peer'.shaken = peer.shaken
      /\ peer'.asked = <<Head(stdin)>> /\ peer'.answer = says /\ peer'.up = peer.up
  BY <1>1, <1>4 DEF ShotInv, ShotTypeOK, Stdio, Ask, Stated
<1>10. peer'.asked # <<>> /\ peer'.asked[1] = Head(stdin) /\ <<>> # <<Greet>> /\ <<>> # <<Begin>> /\ <<>> # <<Begin, Ask>> /\ <<>> # <<Ask>>
  BY <1>9, OneOrTwo, WaitingLines
<1>11. shot.doing \notin {"start", "initialize", "initialized", "ask", "over"}
  BY <1>4, <1>5, LinesApart, WaitingLines DEF ShotInv, Bounded, HandshakeFirst
<1>12. Waiting' /\ Bounded'
  BY <1>4, <1>6, <1>9, <1>11 DEF ShotInv, Waiting, Bounded
<1>13. PostedAsIs'
  BY <1>4, <1>5, <1>9 DEF ShotInv, PostedAsIs
<1>14. AnsweredOnce'
  <2>1. ASSUME NEW i \in DOMAIN stdout' PROVE Answered(stdout[i])'
    <3>1. CASE stdout'[i] = line
      BY <3>1, <1>2, <1>9, <1>10 DEF Answered
    <3>2. ASSUME NEW j \in DOMAIN stdout, stdout'[i] = stdout[j] PROVE Answered(stdout[i])'
      <4>1. stdout[j].kind = "answer" => Stdio /\ stdout[j].id # 2 /\ (stdout[j].id = 1 => stdout[j].says = IF peer.speaks = "legacy" THEN "result" ELSE "error")
        BY <1>4 DEF ShotInv, AnsweredOnce, Answered
      <4> QED
        BY <3>2, <4>1, <1>6, <1>9, <1>10 DEF Answered
    <3> QED
      BY <1>7, <3>1, <3>2
  <2> QED
    BY <1>4, <1>6, <2>1 DEF AnsweredOnce
<1>15. HandshakeFirst'
  <2>1. Stdio => Suits(Ask) /\ (peer.shaken <=> peer.speaks = "legacy")
    BY <1>5 DEF ShotInv, ShotTypeOK, HandshakeFirst, Suits, Ask, Line, Described
  <2>2. Stdio => Suits(peer.asked[1])' /\ (peer'.shaken = (peer'.speaks = "legacy"))
    BY <1>4, <1>5, <1>9, <1>10, <2>1 DEF Suits, ShotInv, ShotTypeOK
  <2> QED
    BY <1>4, <1>6, <1>9, <1>10, <1>11, <2>2 DEF ShotInv, HandshakeFirst
<1> QED
  BY <1>8, <1>12, <1>13, <1>14, <1>15 DEF ShotInv

LEMMA ShotStep == ShotInv /\ [ShotNext]_shotVars => ShotInv'
<1> SUFFICES ASSUME ShotInv, [ShotNext]_shotVars PROVE ShotInv'
  OBVIOUS
<1>1. CASE UNCHANGED shotVars
  <2>1. shot' = shot /\ stdin' = stdin /\ stdout' = stdout /\ peer' = peer
    BY <1>1 DEF shotVars
  <2>2. ShotTypeOK'
    BY <2>1 DEF ShotInv, ShotTypeOK
  <2> QED
    BY <2>1, <2>2, QuietStep DEF ShotInv, Bounded
<1>2. CASE ReplaysOnce
  BY <1>2, StartingKeeps, QuietActions, LearningKeeps, InitializedKeeps, AskingKeeps, TakingKeeps, PostingKeeps, FailedPostKeeps
     DEF ReplaysOnce, ReadsOn, Now
<1>3. CASE AnswersInitialize \/ HearsInitialized \/ AnswersRequest \/ Talks \/ Stops
  BY <1>3, WelcomeKeeps, HearingKeeps, AnsweringKeeps, TalkingKeeps, QuietActions
<1> QED
  BY <1>1, <1>2, <1>3 DEF ShotNext

LEMMA ShotStarts == ShotInit => ShotInv
<1> SUFFICES ASSUME ShotInit PROVE ShotInv
  OBVIOUS
<1>1. PICK r \in Requests :
        shot = [request |-> r, doing |-> "start", stateless |-> FALSE, got |-> NoAnswer, failed |-> FALSE]
  BY DEF ShotInit
<1>2. /\ stdin = <<>> /\ stdout = <<>> /\ ~ peer.up /\ ~ peer.shaken /\ peer.asked = <<>> /\ peer.answer = NoAnswer
      /\ shot.doing = "start" /\ shot.got = NoAnswer /\ ~ shot.failed /\ ~ shot.stateless
  BY <1>1 DEF ShotInit
<1>3. ShotTypeOK
  <2>1. <<>> \in AskedLines /\ <<>> \in Seq(Lines) /\ "start" \in Places /\ 0 \in Int
    BY DEF AskedLines, Places
  <2>2. peer \in [speaks : {"legacy", "modern"}, up : {FALSE}, shaken : {FALSE}, asked : {<<>>}, answer : {NoAnswer}, talk : {0}]
    BY DEF ShotInit
  <2> QED
    BY <1>1, <1>2, <2>1, <2>2 DEF ShotTypeOK
<1> QED
  BY <1>2, <1>3, WaitingLines DEF ShotInv, Waiting, Bounded, AnsweredOnce, HandshakeFirst, PostedAsIs

(* What a replay of one call shows is the answer the server gave to that call, whatever else it said, and
   the call went out as the server's revision asks: after the handshake or without it, over HTTP under the
   headers of what is posted now (Replay, ReplayHTTP, startSession, replayHeaders). *)
THEOREM ReplayShowsTheAnswer == ShotSpec => []ShownIsTheAnswer
<1>1. ShotInv => ShownIsTheAnswer
  <2> SUFFICES ASSUME ShotInv PROVE ShownIsTheAnswer
    OBVIOUS
  <2>1. shot.got # NoAnswer => shot.got = peer.answer /\ ~ shot.failed
    BY DEF ShotInv, Bounded, AnsweredOnce
  <2>2. ASSUME peer.asked # <<>>, Stdio
        PROVE  IF peer.speaks = "legacy" THEN peer.shaken /\ peer.asked[1].says = "bare"
               ELSE ~ peer.shaken /\ (shot.request.object => peer.asked[1].says = "described")
    BY <2>2 DEF ShotInv, ShotTypeOK, HandshakeFirst, Suits
  <2>3. ASSUME peer.asked # <<>>, ~ Stdio
        PROVE  /\ shot.request.named # "none" => peer.asked[1].name = shot.request.named
               /\ peer.asked[1].mirror # "redacted" /\ (shot.request.edited => peer.asked[1].mirror = "none")
    <3>1. peer.asked[1] = Stated /\ ~ Scrubbed(shot.request)
      BY <2>3, OneOrTwo DEF ShotInv, PostedAsIs
    <3> QED
      BY <3>1 DEF Stated, ReplayHeaders, McpName, Scrubbed
  <2> QED
    BY <2>1, <2>2, <2>3 DEF ShownIsTheAnswer, Stdio
<1> QED
  BY <1>1, ShotStarts, ShotStep, PTL DEF ShotSpec

(* When Replay has returned, the server it started does not run (teardown). *)
THEOREM NoServerIsLeft == ShotSpec => []LeavesNoServer
<1>1. ShotInv => LeavesNoServer
  BY DEF ShotInv, Bounded, LeavesNoServer, Now
<1> QED
  BY <1>1, ShotStarts, ShotStep, PTL DEF ShotSpec

-----------------------------------------------------------------------------
Revisions == STRING \cup {"", "2025", "2026"}
AnyFrame  == [k : STRING \cup {"listen"}, id : Nat, version : Revisions, modern : BOOLEAN, recorded : BOOLEAN,
             waits : SUBSET Nat]
Steps    == {"new", "sent", "open", "answered", "done"}
AnyPost  == [frame : AnyFrame, at : Steps, session : Nat, version : Revisions, status : {"", "ok", "refused"},
             closed : BOOLEAN, due : BOOLEAN]
SideSteps == {"start", "run", "stop", "join", "delete", "stopServer", "over"}

SideTypeOK ==
  /\ side \in [script : Scripts, doing : SideSteps, sessionID : Nat, version : Revisions, listening : BOOLEAN,
               streams : SUBSET Nat, holding : BOOLEAN, aborted : BOOLEAN]
  /\ posts \in Seq(AnyPost)
  /\ eng \in [next : Nat, inflight : SUBSET Nat, answered : SUBSET Nat, closed : SUBSET Nat, waited : SUBSET Nat,
              missing : Seq(Nat), negotiated : Revisions]
  /\ host \in [own : BOOLEAN, up : BOOLEAN, listens : BOOLEAN, session : Nat, ended : SUBSET Nat]

(* A request is posted once, and what was posted is behind the engine. *)
Requesting(p) == posts[p].frame.k = "request"
Sent    == {posts[p].frame.id : p \in {q \in DOMAIN posts : Requesting(q)}}
PostedOnce ==
  /\ eng.next \in Nat \ {0}
  /\ \A p \in DOMAIN posts : Requesting(p) => \E i \in DOMAIN Frames : i < eng.next /\ Frames[i] = posts[p].frame
  /\ \A p, q \in DOMAIN posts : Requesting(p) /\ Requesting(q) /\ posts[p].frame.id = posts[q].frame.id => p = q

(* Each request that was posted is in flight, answered, closed or missing, and in one place only but
   for what was waited for in vain; and only what the recording has an answer to is waited for, at the
   latest when all was sent. *)
Missing == ToSet(eng.missing) \ {0}
OnePlaceEach ==
  /\ IsFiniteSet(eng.inflight)
  /\ Sent = eng.inflight \cup eng.answered \cup eng.closed \cup Missing
  /\ eng.inflight \cap eng.answered = {} /\ eng.inflight \cap eng.closed = {} /\ eng.answered \cap eng.closed = {}
  /\ Missing \cap (eng.inflight \cup eng.answered \cup eng.closed) \subseteq eng.waited
  /\ eng.waited \subseteq Missing \cap Expected
  /\ \A i, j \in DOMAIN eng.missing :
       eng.missing[i] = eng.missing[j] /\ eng.missing[i] \notin eng.waited \cup {0} => i = j
  /\ side.doing \notin {"start", "run"} => eng.inflight \cap Expected \subseteq eng.waited

(* What is missing and was not waited for had a POST that came to its end. *)
FailuresEnded ==
  \A p \in DOMAIN posts : Requesting(p) /\ posts[p].frame.id \in Missing \ eng.waited => posts[p].at = "done"

(* The session was assigned by the one answer to initialize, and nothing assigns another after that. *)
OneSession ==
  /\ side.sessionID = host.session
  /\ 1 \in eng.answered => \E p \in DOMAIN posts : Requesting(p) /\ posts[p].frame.id = 1 /\ posts[p].at \in {"answered", "done"}
  /\ host.session # NoSession =>
       \E p \in DOMAIN posts : Initializes(posts[p].frame) /\ posts[p].status = "ok" /\ posts[p].at \notin {"new", "sent"}
  /\ 1 \in eng.answered /\ host.session # NoSession => eng.negotiated # ""
  /\ \A p \in DOMAIN posts : posts[p].due => 1 \in eng.answered

Ending ==
  /\ side.doing = "start" => posts = <<>>
  /\ side.doing \in {"delete", "stopServer", "over"} => \A p \in DOMAIN posts : posts[p].at = "done"

SideInv == SideTypeOK /\ PostedOnce /\ OnePlaceEach /\ FailuresEnded /\ OneSession /\ Ending /\ SessionKept /\ LeavesNothing

-----------------------------------------------------------------------------
(* What changes of the sequence of posts. *)
LEMMA PostsAre ==
  ASSUME SideTypeOK
  PROVE  /\ DOMAIN posts = 1 .. Len(posts) /\ Len(posts) \in Nat
         /\ \A p \in DOMAIN posts : posts[p] \in AnyPost
<1>1. posts \in Seq(AnyPost)
  BY DEF SideTypeOK
<1> QED
  BY <1>1

LEMMA PostAdded ==
  ASSUME SideTypeOK, NEW post \in AnyPost, posts' = Append(posts, post)
  PROVE  /\ posts' \in Seq(AnyPost) /\ DOMAIN posts' = DOMAIN posts \cup {Len(posts) + 1} /\ Len(posts) + 1 \notin DOMAIN posts
         /\ \A p \in DOMAIN posts : posts'[p] = posts[p]
         /\ posts'[Len(posts) + 1] = post
<1>1. posts \in Seq(AnyPost) /\ DOMAIN posts = 1 .. Len(posts) /\ Len(posts) \in Nat
  BY PostsAre DEF SideTypeOK
<1>2. posts' \in Seq(AnyPost) /\ Len(posts') = Len(posts) + 1 /\ DOMAIN posts' = 1 .. Len(posts) + 1
  BY <1>1
<1>3. \A p \in 1 .. Len(posts) + 1 : posts'[p] = IF p = Len(posts) + 1 THEN post ELSE posts[p]
  BY <1>1
<1> QED
  BY <1>1, <1>2, <1>3

LEMMA PostMoved ==
  ASSUME SideTypeOK, NEW p \in DOMAIN posts, NEW post \in AnyPost, posts' = [posts EXCEPT ![p] = post]
  PROVE  /\ posts' \in Seq(AnyPost) /\ DOMAIN posts' = DOMAIN posts /\ posts'[p] = post
         /\ \A q \in DOMAIN posts : q # p => posts'[q] = posts[q]
<1>1. posts \in Seq(AnyPost) /\ p \in 1 .. Len(posts)
  BY PostsAre DEF SideTypeOK
<1> QED
  BY <1>1

LEMMA PostsChanged ==
  ASSUME SideTypeOK, NEW changed, \A p \in DOMAIN posts : changed[p] \in AnyPost, posts' = [p \in DOMAIN posts |-> changed[p]]
  PROVE  posts' \in Seq(AnyPost) /\ DOMAIN posts' = DOMAIN posts /\ \A p \in DOMAIN posts : posts'[p] = changed[p]
<1>1. DOMAIN posts = 1 .. Len(posts) /\ Len(posts) \in Nat
  BY PostsAre
<1> QED
  BY <1>1

-----------------------------------------------------------------------------
(* Posts that stay what they are keep the order, and what was sent. *)
LEMMA StillPostedOnce ==
  ASSUME SideInv, side'.script = side.script, eng'.next \in {eng.next, eng.next + 1}, DOMAIN posts' = DOMAIN posts,
         \A p \in DOMAIN posts : posts'[p].frame = posts[p].frame
  PROVE  PostedOnce' /\ Sent' = Sent
<1>1. eng.next \in Nat /\ eng.next # 0
  BY DEF SideInv, SideTypeOK, PostedOnce
<1>2. eng'.next \in Nat \ {0} /\ \A i \in DOMAIN Frames : i < eng.next => i < eng'.next
  <2>1. \A i \in DOMAIN Frames : i \in Nat
    BY SideAssumption DEF Frames, SideInv, SideTypeOK
  <2> QED
    BY <1>1, <2>1
<1>3. Frames' = Frames
  BY DEF Frames
<1>4. PostedOnce'
  BY <1>2, <1>3 DEF SideInv, PostedOnce, Requesting
<1>5. Sent' = Sent
  BY DEF Sent, Requesting
<1> QED
  BY <1>4, <1>5

(* A note that is posted is not a request. *)
LEMMA NotePostedOnce ==
  ASSUME SideInv, side'.script = side.script, eng'.next \in {eng.next, eng.next + 1}, NEW n, n \notin DOMAIN posts,
         DOMAIN posts' = DOMAIN posts \cup {n}, \A p \in DOMAIN posts : posts'[p] = posts[p], posts'[n].frame.k # "request"
  PROVE  PostedOnce' /\ Sent' = Sent
<1>1. eng.next \in Nat /\ eng.next # 0
  BY DEF SideInv, SideTypeOK, PostedOnce
<1>2. eng'.next \in Nat \ {0} /\ \A i \in DOMAIN Frames : i < eng.next => i < eng'.next
  <2>1. \A i \in DOMAIN Frames : i \in Nat
    BY SideAssumption DEF Frames, SideInv, SideTypeOK
  <2> QED
    BY <1>1, <2>1
<1>3. Frames' = Frames
  BY DEF Frames
<1>4. PostedOnce'
  BY <1>2, <1>3 DEF SideInv, PostedOnce, Requesting
<1>5. Sent' = Sent
  BY DEF Sent, Requesting
<1> QED
  BY <1>4, <1>5

(* Of what was sent, one that is in flight is settled. *)
LEMMA OneSettled ==
  ASSUME SideInv, Sent' = Sent, NEW id \in eng.inflight, eng'.inflight = eng.inflight \ {id}, eng'.waited = eng.waited,
         eng'.missing = eng.missing, side'.doing = side.doing, side'.script = side.script,
         \/ eng'.answered = eng.answered \cup {id} /\ eng'.closed = eng.closed
         \/ eng'.answered = eng.answered /\ eng'.closed = eng.closed \cup {id}
  PROVE  OnePlaceEach'
<1>1. IsFiniteSet(eng'.inflight)
  BY FS_Subset DEF SideInv, OnePlaceEach
<1>2. Missing' = Missing /\ Expected' = Expected
  BY DEF Missing, Expected, Frames
<1> QED
  BY <1>1, <1>2 DEF SideInv, OnePlaceEach

LEMMA MissingAdded ==
  ASSUME SideTypeOK, NEW id \in Nat, eng'.missing = Append(eng.missing, id)
  PROVE  /\ eng'.missing \in Seq(Nat) /\ Missing' = Missing \cup ({id} \ {0})
         /\ DOMAIN eng'.missing = DOMAIN eng.missing \cup {Len(eng.missing) + 1}
         /\ Len(eng.missing) + 1 \notin DOMAIN eng.missing /\ eng'.missing[Len(eng.missing) + 1] = id
         /\ \A i \in DOMAIN eng.missing : eng'.missing[i] = eng.missing[i]
<1>1. eng.missing \in Seq(Nat) /\ DOMAIN eng.missing = 1 .. Len(eng.missing) /\ Len(eng.missing) \in Nat
  BY DEF SideTypeOK
<1>2. eng'.missing \in Seq(Nat) /\ DOMAIN eng'.missing = 1 .. Len(eng.missing) + 1
  BY <1>1
<1>3. \A i \in 1 .. Len(eng.missing) + 1 : eng'.missing[i] = IF i = Len(eng.missing) + 1 THEN id ELSE eng.missing[i]
  BY <1>1
<1>4. ToSet(eng'.missing) = ToSet(eng.missing) \cup {id}
  <2>1. DOMAIN eng'.missing = DOMAIN eng.missing \cup {Len(eng.missing) + 1}
    BY <1>1, <1>2
  <2> QED
    BY <1>1, <1>3, <2>1 DEF ToSet
<1> QED
  BY <1>1, <1>2, <1>3, <1>4 DEF Missing

(* One in flight is reported missing, and is settled, or stays in flight though it was waited for. *)
LEMMA OneMissing ==
  ASSUME SideInv, Sent' = Sent, NEW id \in eng.inflight, eng'.missing = Append(eng.missing, id),
         \/ eng'.inflight = eng.inflight \ {id} /\ eng'.waited = eng.waited
         \/ eng'.inflight = eng.inflight /\ eng'.waited = eng.waited \cup {id} /\ side.doing = "run" /\ id \in Expected,
         eng'.answered = eng.answered, eng'.closed = eng.closed, side'.doing = side.doing, side'.script = side.script
  PROVE  OnePlaceEach'
<1>1. id \in Nat /\ id # 0
  <2>1. id \in Sent
    BY DEF SideInv, OnePlaceEach
  <2>2. PICK p \in DOMAIN posts : Requesting(p) /\ posts[p].frame.id = id
    BY <2>1 DEF Sent
  <2>3. PICK i \in DOMAIN Frames : Frames[i] = posts[p].frame
    BY <2>2 DEF SideInv, PostedOnce
  <2>4. Frames[i].k = "request" /\ Frames[i].id = id
    BY <2>2, <2>3 DEF Requesting
  <2> QED
    BY <2>4, SideAssumption DEF Frames, SideInv, SideTypeOK
<1>2. /\ Missing' = Missing \cup {id}
      /\ DOMAIN eng'.missing = DOMAIN eng.missing \cup {Len(eng.missing) + 1}
      /\ eng'.missing[Len(eng.missing) + 1] = id
      /\ \A i \in DOMAIN eng.missing : eng'.missing[i] = eng.missing[i]
  BY <1>1, MissingAdded DEF SideInv
<1>3. IsFiniteSet(eng'.inflight)
  BY FS_Subset DEF SideInv, OnePlaceEach
<1>4. \A i, j \in DOMAIN eng'.missing :
        eng'.missing[i] = eng'.missing[j] /\ eng'.missing[i] \notin eng'.waited \cup {0} => i = j
  <2>1. \A i \in DOMAIN eng.missing : eng.missing[i] # 0 => eng.missing[i] \in Missing
    BY DEF Missing, ToSet
  <2>2. id \in Missing => id \in eng.waited
    BY DEF SideInv, OnePlaceEach
  <2>3. \A i, j \in DOMAIN eng.missing :
          eng.missing[i] = eng.missing[j] /\ eng.missing[i] \notin eng.waited \cup {0} => i = j
    BY DEF SideInv, OnePlaceEach
  <2> QED
    BY <1>1, <1>2, <2>1, <2>2, <2>3
<1>5. Expected' = Expected
  BY DEF Expected, Frames
<1> QED
  BY <1>2, <1>3, <1>4, <1>5 DEF SideInv, OnePlaceEach

(* A note that failed is reported as such. *)
LEMMA NoteMissing ==
  ASSUME SideInv, Sent' = Sent, eng'.missing = Append(eng.missing, 0), eng'.inflight = eng.inflight, eng'.waited = eng.waited,
         eng'.answered = eng.answered, eng'.closed = eng.closed, side'.doing = side.doing, side'.script = side.script
  PROVE  OnePlaceEach'
<1>1. /\ Missing' = Missing
      /\ DOMAIN eng'.missing = DOMAIN eng.missing \cup {Len(eng.missing) + 1}
      /\ eng'.missing[Len(eng.missing) + 1] = 0
      /\ \A i \in DOMAIN eng.missing : eng'.missing[i] = eng.missing[i]
  BY MissingAdded DEF SideInv
<1>2. Expected' = Expected
  BY DEF Expected, Frames
<1> QED
  BY <1>1, <1>2 DEF SideInv, OnePlaceEach

LEMMA SamePlaces ==
  ASSUME SideInv, Sent' = Sent, eng'.missing = eng.missing, eng'.inflight = eng.inflight, eng'.waited = eng.waited,
         eng'.answered = eng.answered, eng'.closed = eng.closed, side'.script = side.script,
         side'.doing \notin {"start", "run"} => side.doing \notin {"start", "run"} \/ eng.inflight = {}
  PROVE  OnePlaceEach'
<1>1. Missing' = Missing /\ Expected' = Expected
  BY DEF Missing, Expected, Frames
<1> QED
  BY <1>1 DEF SideInv, OnePlaceEach

(* Nothing but the failure of a POST makes a request missing that was not waited for. *)
LEMMA FailuresStay ==
  ASSUME SideInv, Missing' \ eng'.waited \subseteq Missing \ eng.waited,
         \A p \in DOMAIN posts : /\ p \in DOMAIN posts' /\ posts'[p].frame = posts[p].frame
                                 /\ posts[p].at = "done" => posts'[p].at = "done",
         \A p \in DOMAIN posts' \ DOMAIN posts : posts'[p].frame.k = "request" => posts'[p].frame.id \notin Missing
  PROVE  FailuresEnded'
<1>1. FailuresEnded
  BY DEF SideInv
<1> SUFFICES ASSUME NEW p \in DOMAIN posts', posts'[p].frame.k = "request", posts'[p].frame.id \in Missing' \ eng'.waited
             PROVE  posts'[p].at = "done"
  BY DEF FailuresEnded, Requesting
<1>2. posts'[p].frame.id \in Missing \ eng.waited
  OBVIOUS
<1>3. p \in DOMAIN posts
  BY <1>2
<1>4. posts[p].frame.k = "request" /\ posts[p].frame.id \in Missing \ eng.waited
  BY <1>2, <1>3
<1>5. posts[p].at = "done"
  BY <1>1, <1>3, <1>4 DEF FailuresEnded, Requesting
<1> QED
  BY <1>3, <1>5

(* While nobody answers and nobody sets headers, the session is what it was. *)
LEMMA SessionStays ==
  ASSUME SideInv, side'.sessionID = side.sessionID, host'.session = host.session,
         eng'.answered = eng.answered, eng'.negotiated = eng.negotiated,
         \A p \in DOMAIN posts :
           /\ p \in DOMAIN posts'
           /\ posts'[p].frame = posts[p].frame /\ posts'[p].session = posts[p].session /\ posts'[p].version = posts[p].version
           /\ posts'[p].status = posts[p].status /\ posts'[p].due = posts[p].due
           /\ posts[p].at \in {"answered", "done"} => posts'[p].at \in {"answered", "done"}
           /\ posts[p].at \notin {"new", "sent"} => posts'[p].at \notin {"new", "sent"},
         \A p \in DOMAIN posts' \ DOMAIN posts : ~ posts'[p].due
  PROVE  OneSession' /\ SessionKept'
<1>0. \A p \in DOMAIN posts : (Requesting(p)' <=> Requesting(p)) /\ (Initializes(posts[p].frame)' <=> Initializes(posts[p].frame))
  BY DEF Requesting, Initializes
<1>1. OneSession'
  <2>1. (1 \in eng.answered => \E p \in DOMAIN posts : Requesting(p) /\ posts[p].frame.id = 1 /\ posts[p].at \in {"answered", "done"})'
    BY <1>0 DEF SideInv, OneSession
  <2>2. (host.session # NoSession =>
           \E p \in DOMAIN posts : Initializes(posts[p].frame) /\ posts[p].status = "ok" /\ posts[p].at \notin {"new", "sent"})'
    <3> SUFFICES ASSUME host.session # NoSession
                 PROVE  (\E p \in DOMAIN posts : Initializes(posts[p].frame) /\ posts[p].status = "ok" /\ posts[p].at \notin {"new", "sent"})'
      BY DEF NoSession
    <3>1. PICK p \in DOMAIN posts : Initializes(posts[p].frame) /\ posts[p].status = "ok" /\ posts[p].at \notin {"new", "sent"}
      BY DEF SideInv, OneSession
    <3> QED
      BY <1>0, <3>1
  <2>3. \A p \in DOMAIN posts' : posts'[p].due => 1 \in eng'.answered
    BY DEF SideInv, OneSession
  <2> QED
    BY <2>1, <2>2, <2>3 DEF SideInv, OneSession, NoSession
<1>2. SessionKept'
  <2> SUFFICES ASSUME NEW p \in DOMAIN posts', posts'[p].due, ~ Initializes(posts[p].frame)'
               PROVE  /\ posts'[p].session = host'.session
                      /\ host'.session # NoSession /\ posts'[p].frame.k # "listen" => posts'[p].version # ""
    BY DEF SessionKept, NoSession
  <2>1. p \in DOMAIN posts /\ posts[p].due /\ ~ Initializes(posts[p].frame)
    BY <1>0
  <2>2. SessionKept
    BY DEF SideInv
  <2>3. /\ posts'[p].session = posts[p].session /\ posts'[p].frame = posts[p].frame /\ posts'[p].version = posts[p].version
        /\ host'.session = host.session
    BY <2>1
  <2> QED
    BY <2>1, <2>2, <2>3 DEF SessionKept
<1> QED
  BY <1>1, <1>2

-----------------------------------------------------------------------------
(* Nothing is owed to the end while the replay runs, or while a post is not done. *)
LEMMA StillGoing == ASSUME side'.doing \in {"run", "stop", "join"} PROVE Ending' /\ LeavesNothing'
BY DEF Ending, LeavesNothing, Doing

LEMMA NotOver ==
  ASSUME SideInv, NEW p \in DOMAIN posts, posts[p].at # "done"
  PROVE  side.doing \in {"run", "stop", "join"}
<1>1. posts # <<>>
  OBVIOUS
<1> QED
  BY <1>1 DEF SideInv, SideTypeOK, SideSteps, Ending

(* Steps of the replay and the server that touch no post and no account. *)
LEMMA QuietSide ==
  ASSUME SideInv, posts' = posts, eng' = eng, side'.script = side.script, side'.sessionID = side.sessionID,
         host'.session = host.session
  PROVE  PostedOnce' /\ Sent' = Sent /\ OneSession' /\ SessionKept' /\ FailuresEnded'
<1>1. eng'.next \in {eng.next, eng.next + 1}
  OBVIOUS
<1>2. PostedOnce' /\ Sent' = Sent
  BY <1>1, StillPostedOnce
<1>3. OneSession' /\ SessionKept'
  BY SessionStays
<1>4. FailuresEnded'
  BY DEF FailuresEnded, Missing, Requesting, SideInv
<1> QED
  BY <1>2, <1>3, <1>4

LEMMA NothingYet ==
  ASSUME SideInv, side.doing = "start"
  PROVE  eng.inflight = {} /\ host.session = NoSession /\ posts = <<>>
<1>1. DOMAIN posts = {} /\ posts = <<>>
  BY DEF SideInv, Ending
<1>2. Sent = {}
  BY <1>1 DEF Sent
<1> QED
  BY <1>1, <1>2 DEF SideInv, OnePlaceEach, OneSession

LEMMA StartAndEndKeep ==
  ASSUME SideInv,
         \/ StartsSide \/ StartFails \/ NothingListens \/ HostListens \/ HostExits \/ Interrupted \/ StreamsJoined \/ EndsSession \/ StopsServer
  PROVE  SideInv'
<1>1. CASE StartsSide
  <2>1. side' = [side EXCEPT !.doing = "run"] /\ UNCHANGED <<posts, eng, host>>
    BY <1>1 DEF StartsSide, Goes
  <2>2. SideTypeOK' /\ side'.doing = "run"
    BY <2>1 DEF SideInv, SideTypeOK, SideSteps
  <2>3. side'.script = side.script /\ side'.sessionID = side.sessionID
    BY <2>1 DEF SideInv, SideTypeOK
  <2>4. PostedOnce' /\ Sent' = Sent /\ OneSession' /\ SessionKept' /\ FailuresEnded'
    BY <2>1, <2>3, QuietSide
  <2>5. OnePlaceEach'
    BY <2>1, <2>2, <2>4, SamePlaces
  <2> QED
    BY <2>2, <2>4, <2>5, StillGoing DEF SideInv
<1>2. CASE NothingListens
  <2>1. side' = [side EXCEPT !.doing = "stopServer"] /\ UNCHANGED <<posts, eng, host>> /\ side.doing = "start"
    BY <1>2 DEF NothingListens, Goes, Doing
  <2>2. SideTypeOK' /\ side'.doing = "stopServer"
    BY <2>1 DEF SideInv, SideTypeOK, SideSteps
  <2>3. side'.script = side.script /\ side'.sessionID = side.sessionID
    BY <2>1 DEF SideInv, SideTypeOK
  <2>4. PostedOnce' /\ Sent' = Sent /\ OneSession' /\ SessionKept' /\ FailuresEnded'
    BY <2>1, <2>3, QuietSide
  <2>5. OnePlaceEach' /\ Ending' /\ LeavesNothing'
    BY <2>1, <2>2, <2>4, NothingYet, SamePlaces DEF Ending, LeavesNothing, Doing, NoSession
  <2> QED
    BY <2>2, <2>4, <2>5 DEF SideInv
<1>3. CASE HostListens
  <2>1. host' = [host EXCEPT !.listens = TRUE] /\ UNCHANGED <<side, posts, eng>>
    BY <1>3 DEF HostListens
  <2>2. SideTypeOK' /\ host'.session = host.session /\ host'.up = host.up /\ host'.own = host.own /\ host'.ended = host.ended
    BY <2>1 DEF SideInv, SideTypeOK
  <2>3. PostedOnce' /\ Sent' = Sent /\ OneSession' /\ SessionKept' /\ FailuresEnded'
    BY <2>1, <2>2, QuietSide
  <2>4. OnePlaceEach' /\ Ending' /\ LeavesNothing'
    BY <2>1, <2>2, <2>3, SamePlaces DEF SideInv, Ending, LeavesNothing, Doing, NoSession
  <2> QED
    BY <2>2, <2>3, <2>4 DEF SideInv
<1>4. CASE HostExits \/ Interrupted
  <2>1. host' = [host EXCEPT !.up = FALSE] /\ UNCHANGED <<side, posts, eng>>
    BY <1>4 DEF HostExits, Interrupted
  <2>2. SideTypeOK' /\ host'.session = host.session /\ ~ host'.up
    BY <2>1 DEF SideInv, SideTypeOK
  <2>3. PostedOnce' /\ Sent' = Sent /\ OneSession' /\ SessionKept' /\ FailuresEnded'
    BY <2>1, <2>2, QuietSide
  <2>4. OnePlaceEach' /\ Ending' /\ LeavesNothing'
    BY <2>1, <2>2, <2>3, SamePlaces DEF SideInv, Ending, LeavesNothing, Doing
  <2> QED
    BY <2>2, <2>3, <2>4 DEF SideInv
<1>5. CASE StreamsJoined
  <2>1. /\ side' = [side EXCEPT !.doing = "delete"] /\ UNCHANGED <<posts, eng, host>>
        /\ side.doing = "join" /\ \A p \in DOMAIN posts : posts[p].at = "done"
    BY <1>5 DEF StreamsJoined, Goes, Doing
  <2>2. SideTypeOK' /\ side'.doing = "delete"
    BY <2>1 DEF SideInv, SideTypeOK, SideSteps
  <2>3. side'.script = side.script /\ side'.sessionID = side.sessionID
    BY <2>1 DEF SideInv, SideTypeOK
  <2>4. PostedOnce' /\ Sent' = Sent /\ OneSession' /\ SessionKept' /\ FailuresEnded'
    BY <2>1, <2>3, QuietSide
  <2>5. OnePlaceEach' /\ Ending' /\ LeavesNothing'
    BY <2>1, <2>2, <2>4, SamePlaces DEF Ending, LeavesNothing, Doing
  <2> QED
    BY <2>2, <2>4, <2>5 DEF SideInv
<1>6. CASE EndsSession
  <2>1. /\ side' = [side EXCEPT !.doing = "stopServer"] /\ UNCHANGED <<posts, eng>> /\ side.doing = "delete"
        /\ host' = IF side.sessionID # NoSession /\ host.up THEN [host EXCEPT !.ended = host.ended \cup {side.sessionID}] ELSE host
    BY <1>6 DEF EndsSession, Goes, Doing
  <2>2. SideTypeOK' /\ side'.doing = "stopServer"
    BY <2>1 DEF SideInv, SideTypeOK, SideSteps
  <2>3. /\ side'.script = side.script /\ side'.sessionID = side.sessionID
        /\ host'.session = host.session /\ host'.up = host.up
        /\ side.sessionID # NoSession /\ host.up => side.sessionID \in host'.ended
    BY <2>1 DEF SideInv, SideTypeOK
  <2>4. PostedOnce' /\ Sent' = Sent /\ OneSession' /\ SessionKept' /\ FailuresEnded'
    BY <2>1, <2>3, QuietSide
  <2>5. OnePlaceEach' /\ Ending'
    BY <2>1, <2>2, <2>4, SamePlaces DEF SideInv, Ending
  <2>6. LeavesNothing'
    BY <2>1, <2>2, <2>3 DEF SideInv, OneSession, LeavesNothing, Doing, NoSession
  <2> QED
    BY <2>2, <2>4, <2>5, <2>6 DEF SideInv
<1>7. CASE StopsServer
  <2>1. /\ side' = [side EXCEPT !.doing = "over"] /\ UNCHANGED <<posts, eng>> /\ side.doing = "stopServer"
        /\ host' = IF host.own THEN [host EXCEPT !.up = FALSE] ELSE host
    BY <1>7 DEF StopsServer, Goes, Doing
  <2>2. SideTypeOK' /\ side'.doing = "over"
    BY <2>1 DEF SideInv, SideTypeOK, SideSteps
  <2>3. /\ side'.script = side.script /\ side'.sessionID = side.sessionID
        /\ host'.session = host.session /\ host'.own = host.own /\ (host.own => ~ host'.up)
    BY <2>1 DEF SideInv, SideTypeOK
  <2>4. PostedOnce' /\ Sent' = Sent /\ OneSession' /\ SessionKept' /\ FailuresEnded'
    BY <2>1, <2>3, QuietSide
  <2>5. OnePlaceEach' /\ Ending'
    BY <2>1, <2>2, <2>4, SamePlaces DEF SideInv, Ending
  <2>6. LeavesNothing'
    BY <2>1, <2>2, <2>3 DEF SideInv, Ending, LeavesNothing, Doing
  <2> QED
    BY <2>2, <2>4, <2>5, <2>6 DEF SideInv
<1>8. CASE StartFails
  <2>1. side' = [side EXCEPT !.doing = "over", !.aborted = TRUE] /\ UNCHANGED <<posts, eng, host>> /\ side.doing = "start"
    BY <1>8 DEF StartFails, Doing
  <2>2. SideTypeOK' /\ side'.doing = "over" /\ side'.aborted
    BY <2>1 DEF SideInv, SideTypeOK, SideSteps
  <2>3. side'.script = side.script /\ side'.sessionID = side.sessionID
    BY <2>1 DEF SideInv, SideTypeOK
  <2>4. PostedOnce' /\ Sent' = Sent /\ OneSession' /\ SessionKept' /\ FailuresEnded'
    BY <2>1, <2>3, QuietSide
  <2>5. OnePlaceEach' /\ Ending' /\ LeavesNothing'
    BY <2>1, <2>2, <2>3, <2>4, NothingYet, SamePlaces DEF Ending, LeavesNothing, Doing, NoSession
  <2> QED
    BY <2>2, <2>4, <2>5 DEF SideInv
<1> QED
  BY <1>1, <1>2, <1>3, <1>4, <1>5, <1>6, <1>7, <1>8

-----------------------------------------------------------------------------
(* The engine. *)
LEMMA NewPost ==
  ASSUME NEW frame \in AnyFrame
  PROVE  Post(frame) \in AnyPost /\ Post(frame).frame = frame /\ ~ Post(frame).due
<1> DEFINE post == Post(frame)
<1>1. post = [frame |-> frame, at |-> "new", session |-> 0, version |-> "", status |-> "", closed |-> FALSE, due |-> FALSE]
  BY DEF Post, NoSession
<1> HIDE DEF post
<1>2. post \in AnyPost /\ post.frame = frame /\ ~ post.due
  BY <1>1 DEF AnyPost, Steps, Revisions
<1> QED
  BY <1>2 DEF post

LEMMA NextFrame ==
  ASSUME SideInv, eng.next <= Len(Frames)
  PROVE  /\ eng.next \in DOMAIN Frames /\ Item \in ClientFrames /\ Item = Frames[eng.next]
         /\ Item \in AnyFrame /\ Item.k # "listen" /\ Item.id \in Nat /\ eng.next + 1 \in Nat
         /\ Post(Item) \in AnyPost /\ Post(Item).frame = Item /\ ~ Post(Item).due
<1>1. Frames \in Seq(ClientFrames)
  BY SideAssumption DEF Frames, SideInv, SideTypeOK
<1>2. eng.next \in Nat \ {0}
  BY DEF SideInv, PostedOnce
<1>3. eng.next \in DOMAIN Frames /\ Item \in ClientFrames /\ Item = Frames[eng.next]
  BY <1>1, <1>2 DEF Item
<1>4. Item \in AnyFrame /\ Item.k # "listen" /\ Item.id \in Nat
  BY <1>3 DEF ClientFrames, AnyFrame, Revisions
<1>5. Post(Item) \in AnyPost /\ Post(Item).frame = Item /\ ~ Post(Item).due
  BY <1>4, NewPost
<1>6. eng.next + 1 \in Nat
  BY <1>2
<1> QED
  BY <1>3, <1>4, <1>5, <1>6

LEMMA GivingUpKeeps == ASSUME SideInv, GivesUpWaiting PROVE SideInv'
<1>1. PICK id \in Item.waits \cap Owed :
        eng' = [eng EXCEPT !.waited = eng.waited \cup {id}, !.missing = Append(eng.missing, id)]
  BY DEF GivesUpWaiting
<1>2. side.doing = "run" /\ UNCHANGED <<side, posts, host>> /\ id \in eng.inflight
  BY <1>1 DEF GivesUpWaiting, Doing, Owed
<1>3. id \in Nat /\ Append(eng.missing, id) \in Seq(Nat)
  BY <1>2 DEF SideInv, SideTypeOK
<1>4. SideTypeOK'
  BY <1>1, <1>2, <1>3 DEF SideInv, SideTypeOK
<1>5. /\ eng'.next = eng.next /\ eng'.inflight = eng.inflight /\ eng'.answered = eng.answered /\ eng'.closed = eng.closed
      /\ eng'.negotiated = eng.negotiated /\ eng'.waited = eng.waited \cup {id} /\ eng'.missing = Append(eng.missing, id)
  BY <1>1 DEF SideInv, SideTypeOK
<1>6. PostedOnce' /\ Sent' = Sent
  BY <1>2, <1>5, StillPostedOnce
<1>7. OneSession' /\ SessionKept'
  BY <1>2, <1>5, SessionStays
<1>8. id \in Expected
  <2>1. eng.next \in DOMAIN Frames /\ Item = Frames[eng.next]
    BY NextFrame DEF GivesUpWaiting
  <2> QED
    BY <1>1, <2>1, SideAssumption DEF Expected, Frames, SideInv, SideTypeOK
<1>9. OnePlaceEach'
  BY <1>2, <1>5, <1>6, <1>8, OneMissing
<1>10. FailuresEnded'
  <2>1. Missing' \subseteq Missing \cup {id}
    BY <1>3, <1>5, MissingAdded DEF SideInv
  <2> QED
    BY <1>2, <1>5, <2>1, FailuresStay
<1> QED
  BY <1>2, <1>4, <1>6, <1>7, <1>9, <1>10, StillGoing DEF SideInv

LEMMA PassingOverKeeps == ASSUME SideInv, NoLongerMeant PROVE SideInv'
<1>1. side.doing = "run" /\ UNCHANGED <<side, posts, host>> /\ eng' = [eng EXCEPT !.next = eng.next + 1] /\ eng.next + 1 \in Nat
  BY DEF NoLongerMeant, Ready, Doing, SideInv, SideTypeOK
<1>2. SideTypeOK'
  BY <1>1 DEF SideInv, SideTypeOK
<1>3. /\ eng'.next = eng.next + 1 /\ eng'.inflight = eng.inflight /\ eng'.answered = eng.answered /\ eng'.closed = eng.closed
      /\ eng'.negotiated = eng.negotiated /\ eng'.waited = eng.waited /\ eng'.missing = eng.missing
  BY <1>1 DEF SideInv, SideTypeOK
<1>4. PostedOnce' /\ Sent' = Sent
  BY <1>1, <1>3, StillPostedOnce
<1>5. OneSession' /\ SessionKept'
  BY <1>1, <1>3, SessionStays
<1>6. OnePlaceEach'
  BY <1>1, <1>3, <1>4, SamePlaces
<1>7. FailuresEnded'
  BY <1>1, <1>3, FailuresStay DEF Missing
<1> QED
  BY <1>1, <1>2, <1>4, <1>5, <1>6, <1>7, StillGoing DEF SideInv

(* A finite set in some order. *)
LEMMA SetInOrder ==
  ASSUME NEW E, IsFiniteSet(E)
  PROVE  SetToSeq(E) \in Seq(E) /\ ToSet(SetToSeq(E)) = E
<1> DEFINE n == Cardinality(E)
<1>1. n \in Nat /\ ExistsBijection(1 .. n, E)
  BY FS_CardinalityType
<1>2. PICK g : g \in Bijection(1 .. n, E)
  BY <1>1 DEF ExistsBijection
<1>3. g \in [1 .. n -> E] /\ IsInjective(g)
  BY <1>2 DEF Bijection, Injection, IsInjective
<1>4. SetToSeq(E) \in [1 .. n -> E] /\ IsInjective(SetToSeq(E))
  BY <1>3 DEF SetToSeq
<1>5. SetToSeq(E) \in Injection(1 .. n, E)
  BY <1>4 DEF Injection, IsInjective
<1>6. IsFiniteSet(1 .. n) /\ Cardinality(1 .. n) = n
  BY <1>1, FS_Interval
<1>7. SetToSeq(E) \in Surjection(1 .. n, E)
  BY <1>5, <1>6, FS_Injection
<1>8. \A x \in E : \E i \in 1 .. n : SetToSeq(E)[i] = x
  BY <1>7 DEF Surjection
<1>9. SetToSeq(E) \in Seq(E)
  BY <1>1, <1>4
<1>10. DOMAIN SetToSeq(E) = 1 .. n
  BY <1>4
<1> QED
  BY <1>4, <1>8, <1>9, <1>10 DEF ToSet

LEMMA LastWaitKeeps == ASSUME SideInv, WaitsForLast PROVE SideInv'
<1>0. PICK late : late = Owed \cap Expected
  OBVIOUS
<1> DEFINE s == SetToSeq(late)
<1>1. /\ side.doing = "run" /\ side' = [side EXCEPT !.doing = "stop"] /\ UNCHANGED <<posts, host>>
      /\ eng' = [eng EXCEPT !.missing = eng.missing \o s, !.waited = eng.waited \cup late]
  BY <1>0 DEF WaitsForLast, Goes, Doing
<1>2. late \subseteq eng.inflight \cap Expected /\ late \subseteq Nat /\ IsFiniteSet(late)
  BY <1>0, FS_Subset DEF Owed, SideInv, SideTypeOK, OnePlaceEach
<1>3. s \in Seq(late) /\ ToSet(s) = late
  BY <1>2, SetInOrder
<1> HIDE DEF s
<1>4. s \in Seq(Nat) /\ eng.missing \in Seq(Nat)
  <2>1. \A E, U : E \subseteq U => Seq(E) \subseteq Seq(U)
    OBVIOUS
  <2> QED
    BY <1>2, <1>3, <2>1 DEF SideInv, SideTypeOK
<1>5. SideTypeOK'
  <2>1. eng.missing \o s \in Seq(Nat) /\ eng.waited \cup late \in SUBSET Nat
    BY <1>2, <1>4, ConcatProperties DEF SideInv, SideTypeOK
  <2> QED
    BY <1>1, <2>1 DEF SideInv, SideTypeOK, SideSteps
<1>6. /\ eng'.next = eng.next /\ eng'.inflight = eng.inflight /\ eng'.answered = eng.answered /\ eng'.closed = eng.closed
      /\ eng'.negotiated = eng.negotiated /\ eng'.waited = eng.waited \cup late /\ eng'.missing = eng.missing \o s
      /\ side'.script = side.script /\ side'.sessionID = side.sessionID /\ side'.doing = "stop"
  BY <1>1 DEF SideInv, SideTypeOK
<1>7. PostedOnce' /\ Sent' = Sent
  BY <1>1, <1>6, StillPostedOnce
<1>8. OneSession' /\ SessionKept'
  BY <1>1, <1>6, SessionStays
<1>9. OnePlaceEach' /\ FailuresEnded'
  <2>1. /\ Len(eng.missing) \in Nat /\ Len(s) \in Nat /\ DOMAIN eng.missing = 1 .. Len(eng.missing) /\ DOMAIN s = 1 .. Len(s)
        /\ DOMAIN (eng.missing \o s) = 1 .. Len(eng.missing) + Len(s)
        /\ \A i \in 1 .. Len(eng.missing) + Len(s) :
             (eng.missing \o s)[i] = IF i <= Len(eng.missing) THEN eng.missing[i] ELSE s[i - Len(eng.missing)]
    BY <1>4
  <2>2. \A i \in DOMAIN s : s[i] \in late
    BY <1>3 DEF ToSet
  <2>3. \A x \in late : \E i \in DOMAIN s : s[i] = x
    BY <1>3 DEF ToSet
  <2>4. \A i \in DOMAIN eng'.missing : i \in DOMAIN eng.missing \/ eng'.missing[i] \in late
    <3> SUFFICES ASSUME NEW i \in DOMAIN eng'.missing, i \notin DOMAIN eng.missing PROVE eng'.missing[i] \in late
      OBVIOUS
    <3>1. i - Len(eng.missing) \in DOMAIN s /\ eng'.missing[i] = s[i - Len(eng.missing)]
      BY <1>6, <2>1
    <3> QED
      BY <2>2, <3>1
  <2>5. \A i \in DOMAIN eng.missing : i \in DOMAIN eng'.missing /\ eng'.missing[i] = eng.missing[i]
    BY <1>6, <2>1
  <2>6. \A x \in late : \E i \in DOMAIN eng'.missing : eng'.missing[i] = x
    <3> SUFFICES ASSUME NEW x \in late PROVE \E i \in DOMAIN eng'.missing : eng'.missing[i] = x
      OBVIOUS
    <3>1. PICK i \in DOMAIN s : s[i] = x
      BY <2>3
    <3>2. Len(eng.missing) + i \in DOMAIN eng'.missing /\ eng'.missing[Len(eng.missing) + i] = x
      BY <1>6, <2>1, <3>1
    <3> QED
      BY <3>2
  <2>7. ToSet(eng'.missing) = ToSet(eng.missing) \cup late
    BY <2>4, <2>5, <2>6 DEF ToSet
  <2>8. 0 \notin eng.inflight
    <3> SUFFICES ASSUME 0 \in Sent PROVE FALSE
      BY DEF SideInv, OnePlaceEach
    <3>1. PICK p \in DOMAIN posts : Requesting(p) /\ posts[p].frame.id = 0
      BY DEF Sent
    <3>2. PICK i \in DOMAIN Frames : Frames[i] = posts[p].frame
      BY <3>1 DEF SideInv, PostedOnce
    <3> QED
      BY <3>1, <3>2, SideAssumption DEF Requesting, Frames, SideInv, SideTypeOK
  <2>9. Missing' = Missing \cup late
    BY <1>2, <2>7, <2>8 DEF Missing
  <2>10. \A i, j \in DOMAIN eng'.missing :
           eng'.missing[i] = eng'.missing[j] /\ eng'.missing[i] \notin eng'.waited \cup {0} => i = j
    BY <1>6, <2>4, <2>5 DEF SideInv, OnePlaceEach
  <2>11. eng.inflight \cap Expected \subseteq eng.waited \cup late /\ Expected' = Expected
    BY <1>0, <1>6 DEF Owed, Expected, Frames
  <2>12. FailuresEnded'
    BY <1>1, <1>6, <2>9, FailuresStay
  <2> QED
    BY <1>2, <1>6, <1>7, <2>9, <2>10, <2>11, <2>12 DEF SideInv, OnePlaceEach
<1> QED
  BY <1>5, <1>6, <1>7, <1>8, <1>9, StillGoing DEF SideInv

LEMMA PostClosed ==
  ASSUME NEW post \in AnyPost, NEW c \in BOOLEAN, NEW changed, changed = [post EXCEPT !.closed = c]
  PROVE  /\ changed \in AnyPost
         /\ changed.frame = post.frame /\ changed.session = post.session /\ changed.version = post.version
         /\ changed.status = post.status /\ changed.due = post.due /\ changed.at = post.at
BY DEF AnyPost

LEMMA RequestKeeps == ASSUME SideInv, SendsRequest PROVE SideInv'
<1>1. /\ side.doing = "run" /\ eng.next <= Len(Frames) /\ Item.k = "request" /\ host' = host
      /\ side' = [side EXCEPT !.streams = side.streams \cup {Item.id}] /\ posts' = Append(posts, Post(Item))
      /\ eng' = [eng EXCEPT !.next = eng.next + 1, !.inflight = eng.inflight \cup {Item.id}]
  BY DEF SendsRequest, Ready, Doing
<1>2. /\ eng.next \in DOMAIN Frames /\ Item = Frames[eng.next] /\ Post(Item) \in AnyPost /\ Item.id \in Nat /\ eng.next + 1 \in Nat
      /\ Post(Item).frame = Item /\ ~ Post(Item).due
  BY <1>1, NextFrame
<1>0. PICK n : n = Len(posts) + 1
  OBVIOUS
<1>3. /\ posts' \in Seq(AnyPost) /\ DOMAIN posts' = DOMAIN posts \cup {n} /\ n \notin DOMAIN posts
      /\ \A p \in DOMAIN posts : posts'[p] = posts[p]
      /\ posts'[n] = Post(Item)
  BY <1>1, <1>2, <1>0, PostAdded DEF SideInv
<1>4. SideTypeOK'
  BY <1>1, <1>2, <1>3 DEF SideInv, SideTypeOK
<1>5. /\ eng'.next = eng.next + 1 /\ eng'.inflight = eng.inflight \cup {Item.id} /\ eng'.answered = eng.answered
      /\ eng'.closed = eng.closed /\ eng'.negotiated = eng.negotiated /\ eng'.waited = eng.waited /\ eng'.missing = eng.missing
      /\ side'.script = side.script /\ side'.sessionID = side.sessionID /\ side'.doing = "run"
  BY <1>1 DEF SideInv, SideTypeOK
<1>6. \A i, j \in DOMAIN Frames : Frames[i].k = "request" /\ Frames[j].k = "request" =>
        Frames[i].id # 0 /\ (Frames[i].id = Frames[j].id => i = j)
  BY SideAssumption DEF Frames, SideInv, SideTypeOK
<1>7. Frames' = Frames /\ \A i \in DOMAIN Frames : i \in Nat
  <2>1. Frames \in Seq(ClientFrames)
    BY SideAssumption DEF Frames, SideInv, SideTypeOK
  <2> QED
    BY <1>5, <2>1 DEF Frames
<1>8. Item.id \notin Sent /\ Item.id # 0
  <2> SUFFICES ASSUME Item.id \in Sent PROVE FALSE
    BY <1>1, <1>2, <1>6
  <2>1. PICK p \in DOMAIN posts : Requesting(p) /\ posts[p].frame.id = Item.id
    BY DEF Sent
  <2>2. PICK i \in DOMAIN Frames : i < eng.next /\ Frames[i] = posts[p].frame
    BY <2>1 DEF SideInv, PostedOnce
  <2>3. i = eng.next
    BY <1>1, <1>2, <1>6, <2>1, <2>2 DEF Requesting
  <2> QED
    BY <1>7, <2>2, <2>3
<1>9. \A p \in DOMAIN posts : (Requesting(p)' <=> Requesting(p)) /\ posts'[p].frame = posts[p].frame
  BY <1>3 DEF Requesting
<1>10. Requesting(n)' /\ posts'[n].frame = Item /\ n \in DOMAIN posts'
  BY <1>1, <1>2, <1>3 DEF Requesting
<1>11. PostedOnce'
  <2>1. eng'.next \in Nat \ {0}
    BY <1>5 DEF SideInv, PostedOnce
  <2>2. ASSUME NEW p \in DOMAIN posts', Requesting(p)' PROVE \E i \in DOMAIN Frames' : i < eng'.next /\ Frames'[i] = posts'[p].frame
    <3>1. CASE p = n
      BY <1>2, <1>5, <1>7, <1>10, <3>1
    <3>2. CASE p \in DOMAIN posts
      <4>1. PICK i \in DOMAIN Frames : i < eng.next /\ Frames[i] = posts[p].frame
        BY <1>9, <2>2, <3>2 DEF SideInv, PostedOnce
      <4>2. i < eng'.next
        BY <1>2, <1>5, <1>7, <4>1
      <4> QED
        BY <1>7, <1>9, <3>2, <4>1, <4>2
    <3> QED
      BY <1>3, <3>1, <3>2
  <2>3. ASSUME NEW p \in DOMAIN posts', NEW q \in DOMAIN posts', Requesting(p)', Requesting(q)', posts'[p].frame.id = posts'[q].frame.id
        PROVE  p = q
    BY <1>3, <1>8, <1>9, <1>10, <2>3 DEF SideInv, PostedOnce, Sent
  <2> QED
    BY <2>1, <2>2, <2>3 DEF PostedOnce
<1>12. Sent' = Sent \cup {Item.id}
  BY <1>3, <1>9, <1>10 DEF Sent
<1>13. OnePlaceEach'
  <2>1. Missing' = Missing /\ Expected' = Expected
    BY <1>5, <1>7 DEF Missing, Expected
  <2>2. IsFiniteSet(eng'.inflight)
    BY <1>5, FS_AddElement DEF SideInv, OnePlaceEach
  <2> QED
    BY <1>5, <1>8, <1>12, <2>1, <2>2 DEF SideInv, OnePlaceEach
<1>14. OneSession' /\ SessionKept'
  <2>1. \A p \in DOMAIN posts' \ DOMAIN posts : ~ posts'[p].due
    BY <1>2, <1>3
  <2> QED
    BY <1>1, <1>3, <1>5, <2>1, SessionStays
<1>15. FailuresEnded'
  <2>1. Missing' = Missing /\ Missing \subseteq Sent
    BY <1>5 DEF Missing, SideInv, OnePlaceEach
  <2> QED
    BY <1>2, <1>3, <1>5, <1>8, <2>1, FailuresStay
<1> QED
  BY <1>4, <1>5, <1>11, <1>13, <1>14, <1>15, StillGoing DEF SideInv

LEMMA ClosingKeeps == ASSUME SideInv, CancelsByClosing PROVE SideInv'
<1> DEFINE changed == [p \in DOMAIN posts |->
                         IF posts[p].frame.k = "request" /\ posts[p].frame.id = Item.id
                         THEN [posts[p] EXCEPT !.closed = TRUE] ELSE posts[p]]
<1>1. /\ side.doing = "run" /\ eng.next <= Len(Frames) /\ Item.id \in eng.inflight /\ UNCHANGED <<side, host>>
      /\ posts' = changed
      /\ eng' = [eng EXCEPT !.next = eng.next + 1, !.inflight = eng.inflight \ {Item.id}, !.closed = eng.closed \cup {Item.id}]
      /\ Item.id \in Nat /\ eng.next + 1 \in Nat
  BY DEF CancelsByClosing, Ready, Doing, SideInv, SideTypeOK
<1>2. \A p \in DOMAIN posts : posts[p] \in AnyPost
  BY PostsAre DEF SideInv
<1>3. \A p \in DOMAIN posts : changed[p] \in AnyPost /\ \E c \in BOOLEAN : changed[p] = [posts[p] EXCEPT !.closed = c]
  BY <1>2 DEF AnyPost
<1>4. posts' = [p \in DOMAIN posts |-> changed[p]]
  BY <1>1
<1> HIDE DEF changed
<1>5. posts' \in Seq(AnyPost) /\ DOMAIN posts' = DOMAIN posts /\ \A p \in DOMAIN posts : posts'[p] = changed[p]
  BY <1>3, <1>4, PostsChanged DEF SideInv
<1>6. ASSUME NEW p \in DOMAIN posts
      PROVE  /\ posts'[p].frame = posts[p].frame /\ posts'[p].session = posts[p].session
             /\ posts'[p].version = posts[p].version /\ posts'[p].status = posts[p].status
             /\ posts'[p].due = posts[p].due /\ posts'[p].at = posts[p].at
  <2>1. PICK c \in BOOLEAN : posts'[p] = [posts[p] EXCEPT !.closed = c]
    BY <1>3, <1>5
  <2> QED
    BY <1>2, <2>1, PostClosed
<1>7. SideTypeOK'
  BY <1>1, <1>5 DEF SideInv, SideTypeOK
<1>8. /\ eng'.next = eng.next + 1 /\ eng'.inflight = eng.inflight \ {Item.id} /\ eng'.answered = eng.answered
      /\ eng'.closed = eng.closed \cup {Item.id} /\ eng'.negotiated = eng.negotiated /\ eng'.waited = eng.waited
      /\ eng'.missing = eng.missing
  BY <1>1 DEF SideInv, SideTypeOK
<1>9. PostedOnce' /\ Sent' = Sent
  BY <1>1, <1>5, <1>6, <1>8, StillPostedOnce
<1>10. OnePlaceEach'
  BY <1>1, <1>8, <1>9, OneSettled
<1>11. OneSession' /\ SessionKept'
  BY <1>1, <1>5, <1>6, <1>8, SessionStays
<1>12. FailuresEnded'
  BY <1>5, <1>6, <1>8, FailuresStay DEF Missing
<1> QED
  BY <1>1, <1>7, <1>9, <1>10, <1>11, <1>12, StillGoing DEF SideInv

LEMMA NoteKeeps == ASSUME SideInv, SendsNote PROVE SideInv'
<1>1. /\ side.doing = "run" /\ eng.next <= Len(Frames) /\ Item.k # "request" /\ UNCHANGED <<eng, host>>
      /\ side' = [side EXCEPT !.holding = TRUE] /\ posts' = Append(posts, Post(Item))
  BY DEF SendsNote, Ready, Doing
<1>2. Post(Item) \in AnyPost /\ Post(Item).frame = Item /\ ~ Post(Item).due
  BY <1>1, NextFrame
<1>0. PICK n : n = Len(posts) + 1
  OBVIOUS
<1>3. /\ posts' \in Seq(AnyPost) /\ DOMAIN posts' = DOMAIN posts \cup {n} /\ n \notin DOMAIN posts
      /\ \A p \in DOMAIN posts : posts'[p] = posts[p]
      /\ posts'[n] = Post(Item)
  BY <1>1, <1>2, <1>0, PostAdded DEF SideInv
<1>4. SideTypeOK' /\ side'.script = side.script /\ side'.sessionID = side.sessionID /\ side'.doing = "run"
  BY <1>1, <1>3 DEF SideInv, SideTypeOK
<1>5. PostedOnce' /\ Sent' = Sent
  BY <1>1, <1>2, <1>3, <1>4, NotePostedOnce
<1>6. OnePlaceEach'
  BY <1>1, <1>4, <1>5, SamePlaces
<1>7. OneSession' /\ SessionKept'
  <2>1. \A p \in DOMAIN posts' \ DOMAIN posts : ~ posts'[p].due
    BY <1>2, <1>3
  <2> QED
    BY <1>1, <1>3, <1>4, <2>1, SessionStays
<1>8. FailuresEnded'
  BY <1>1, <1>2, <1>3, FailuresStay DEF Missing
<1> QED
  BY <1>4, <1>5, <1>6, <1>7, <1>8, StillGoing DEF SideInv

LEMMA TakenNoteKeeps == ASSUME SideInv, NoteTaken PROVE SideInv'
<1> DEFINE listen == [k |-> "listen", id |-> 0, version |-> "", modern |-> FALSE, recorded |-> FALSE, waits |-> {}]
<1>1. PICK opens \in BOOLEAN :
        /\ side' = [side EXCEPT !.holding = FALSE, !.listening = side.listening \/ opens]
        /\ posts' = IF opens THEN Append(posts, Post(listen)) ELSE posts
  BY DEF NoteTaken
<1>2. /\ side.doing = "run" /\ eng' = [eng EXCEPT !.next = eng.next + 1] /\ host' = host /\ eng.next + 1 \in Nat
  <2>1. eng.next \in Nat
    BY DEF SideInv, SideTypeOK
  <2>2. eng.next + 1 \in Nat
    BY <2>1
  <2> QED
    BY <2>2 DEF NoteTaken, Doing
<1>3. listen \in AnyFrame /\ listen.k # "request"
  BY DEF AnyFrame, Revisions
<1> HIDE DEF listen
<1>4. Post(listen) \in AnyPost /\ Post(listen).frame = listen /\ ~ Post(listen).due
  BY <1>3, NewPost
<1>5. /\ eng'.next = eng.next + 1 /\ eng'.inflight = eng.inflight /\ eng'.answered = eng.answered
      /\ eng'.closed = eng.closed /\ eng'.negotiated = eng.negotiated /\ eng'.waited = eng.waited
      /\ eng'.missing = eng.missing
      /\ side'.script = side.script /\ side'.sessionID = side.sessionID /\ side'.doing = "run"
  BY <1>1, <1>2 DEF SideInv, SideTypeOK
<1>0. PICK n : n = Len(posts) + 1
  OBVIOUS
<1>6. CASE opens
  <2>1. /\ posts' \in Seq(AnyPost) /\ DOMAIN posts' = DOMAIN posts \cup {n} /\ n \notin DOMAIN posts
        /\ \A p \in DOMAIN posts : posts'[p] = posts[p]
        /\ posts'[n] = Post(listen)
    BY <1>1, <1>4, <1>6, <1>0, PostAdded DEF SideInv
  <2>2. SideTypeOK'
    BY <1>1, <1>2, <2>1 DEF SideInv, SideTypeOK
  <2>3. PostedOnce' /\ Sent' = Sent
    BY <1>3, <1>4, <1>5, <2>1, NotePostedOnce
  <2>4. OnePlaceEach'
    BY <1>5, <2>3, SamePlaces
  <2>5. OneSession' /\ SessionKept'
    <3>1. \A p \in DOMAIN posts' \ DOMAIN posts : ~ posts'[p].due
      BY <1>4, <2>1
    <3> QED
      BY <1>2, <1>5, <2>1, <3>1, SessionStays
  <2>6. FailuresEnded'
    BY <1>3, <1>4, <1>5, <2>1, FailuresStay DEF Missing
  <2> QED
    BY <1>5, <2>2, <2>3, <2>4, <2>5, <2>6, StillGoing DEF SideInv
<1>7. CASE ~ opens
  <2>1. posts' = posts
    BY <1>1, <1>7
  <2>2. SideTypeOK'
    BY <1>1, <1>2, <2>1 DEF SideInv, SideTypeOK
  <2>3. PostedOnce' /\ Sent' = Sent
    BY <1>5, <2>1, StillPostedOnce
  <2>4. OnePlaceEach'
    BY <1>5, <2>3, SamePlaces
  <2>5. OneSession' /\ SessionKept'
    BY <1>2, <1>5, <2>1, SessionStays
  <2>6. FailuresEnded'
    BY <1>5, <2>1, FailuresStay DEF Missing
  <2> QED
    BY <1>5, <2>2, <2>3, <2>4, <2>5, <2>6, StillGoing DEF SideInv
<1> QED
  BY <1>6, <1>7

LEMMA StoppingKeeps == ASSUME SideInv, StopsStreams PROVE SideInv'
<1> DEFINE changed == [p \in DOMAIN posts |-> [posts[p] EXCEPT !.closed = TRUE]]
<1>1. /\ side.doing = "stop" /\ side' = [side EXCEPT !.doing = "join"] /\ UNCHANGED <<eng, host>> /\ posts' = changed
  BY DEF StopsStreams, Doing, Goes
<1>2. \A p \in DOMAIN posts : posts[p] \in AnyPost
  BY PostsAre DEF SideInv
<1>3. \A p \in DOMAIN posts : changed[p] \in AnyPost /\ changed[p] = [posts[p] EXCEPT !.closed = TRUE]
  BY <1>2 DEF AnyPost
<1>4. posts' = [p \in DOMAIN posts |-> changed[p]]
  BY <1>1
<1> HIDE DEF changed
<1>5. posts' \in Seq(AnyPost) /\ DOMAIN posts' = DOMAIN posts /\ \A p \in DOMAIN posts : posts'[p] = changed[p]
  BY <1>3, <1>4, PostsChanged DEF SideInv
<1>6. ASSUME NEW p \in DOMAIN posts
      PROVE  /\ posts'[p].frame = posts[p].frame /\ posts'[p].session = posts[p].session
             /\ posts'[p].version = posts[p].version /\ posts'[p].status = posts[p].status
             /\ posts'[p].due = posts[p].due /\ posts'[p].at = posts[p].at
  <2>1. PICK c \in BOOLEAN : posts'[p] = [posts[p] EXCEPT !.closed = c]
    BY <1>3, <1>5
  <2> QED
    BY <1>2, <2>1, PostClosed
<1>7. SideTypeOK' /\ side'.script = side.script /\ side'.sessionID = side.sessionID /\ side'.doing = "join"
  BY <1>1, <1>5 DEF SideInv, SideTypeOK, SideSteps
<1>8. PostedOnce' /\ Sent' = Sent
  BY <1>1, <1>5, <1>6, <1>7, StillPostedOnce
<1>9. OnePlaceEach'
  BY <1>1, <1>7, <1>8, SamePlaces
<1>10. OneSession' /\ SessionKept'
  BY <1>1, <1>5, <1>6, <1>7, SessionStays
<1>11. FailuresEnded'
  BY <1>1, <1>5, <1>6, FailuresStay DEF Missing
<1> QED
  BY <1>7, <1>8, <1>9, <1>10, <1>11, StillGoing DEF SideInv

-----------------------------------------------------------------------------
(* A post on its way. *)
LEMMA PostHas ==
  ASSUME SideInv, NEW p \in DOMAIN posts
  PROVE  /\ posts[p] \in AnyPost /\ posts[p].frame.id \in Nat /\ posts[p].due \in BOOLEAN
         /\ \A to \in Steps : [posts[p] EXCEPT !.at = to] \in AnyPost
<1>1. posts[p] \in AnyPost
  BY PostsAre DEF SideInv
<1> QED
  BY <1>1 DEF AnyPost, AnyFrame

LEMMA PostMovesOn ==
  ASSUME SideInv, NEW p \in DOMAIN posts, NEW to \in Steps, posts' = [posts EXCEPT ![p].at = to]
  PROVE  /\ posts' \in Seq(AnyPost) /\ DOMAIN posts' = DOMAIN posts
         /\ \A q \in DOMAIN posts :
              /\ posts'[q].frame = posts[q].frame /\ posts'[q].session = posts[q].session
              /\ posts'[q].version = posts[q].version /\ posts'[q].status = posts[q].status
              /\ posts'[q].due = posts[q].due
              /\ q # p => posts'[q] = posts[q]
         /\ posts'[p].at = to
<1> DEFINE post == [posts[p] EXCEPT !.at = to]
<1>1. post \in AnyPost
  BY PostHas
<1>2. posts[p] \in AnyPost
  BY PostHas
<1>3. /\ post.frame = posts[p].frame /\ post.session = posts[p].session /\ post.version = posts[p].version
      /\ post.status = posts[p].status /\ post.due = posts[p].due /\ post.at = to
  BY <1>2 DEF AnyPost
<1>4. posts' = [posts EXCEPT ![p] = post]
  OBVIOUS
<1> HIDE DEF post
<1>5. /\ posts' \in Seq(AnyPost) /\ DOMAIN posts' = DOMAIN posts /\ posts'[p] = post
      /\ \A q \in DOMAIN posts : q # p => posts'[q] = posts[q]
  BY <1>1, <1>4, PostMoved DEF SideInv
<1> QED
  BY <1>3, <1>5

(* The request of a post that failed is missing, if it was in flight. *)
LEMMA GiveUpSettles ==
  ASSUME SideInv, NEW p \in DOMAIN posts, GiveUp(p), Sent' = Sent, side'.doing = side.doing, side'.script = side.script
  PROVE  /\ OnePlaceEach'
         /\ eng' \in [next : Nat, inflight : SUBSET Nat, answered : SUBSET Nat, closed : SUBSET Nat, waited : SUBSET Nat,
                      missing : Seq(Nat), negotiated : Revisions]
         /\ eng'.next = eng.next /\ eng'.answered = eng.answered /\ eng'.negotiated = eng.negotiated
         /\ Missing' \ eng'.waited \subseteq (Missing \ eng.waited) \cup {posts[p].frame.id}
         /\ ~ Requesting(p) => Missing' \ eng'.waited \subseteq Missing \ eng.waited
<1> DEFINE id == posts[p].frame.id
<1>1. id \in Nat
  BY PostHas
<1>2. CASE Requesting(p) /\ id \in eng.inflight
  <2>1. Ids(p) \cap eng.inflight = {id} /\ {id} # {} /\ (CHOOSE x \in {id} : TRUE) = id
    BY <1>2 DEF Ids, Requesting
  <2>2. eng' = [eng EXCEPT !.inflight = eng.inflight \ {id}, !.missing = Append(eng.missing, id)]
    BY <2>1 DEF GiveUp
  <2>3. Append(eng.missing, id) \in Seq(Nat)
    BY <1>1 DEF SideInv, SideTypeOK
  <2> HIDE DEF id
  <2>4. /\ eng' \in [next : Nat, inflight : SUBSET Nat, answered : SUBSET Nat, closed : SUBSET Nat, waited : SUBSET Nat,
                     missing : Seq(Nat), negotiated : Revisions]
        /\ eng'.next = eng.next /\ eng'.answered = eng.answered /\ eng'.negotiated = eng.negotiated
        /\ eng'.closed = eng.closed /\ eng'.waited = eng.waited /\ eng'.inflight = eng.inflight \ {id}
        /\ eng'.missing = Append(eng.missing, id)
    BY <2>2, <2>3 DEF SideInv, SideTypeOK
  <2>5. Missing' \subseteq Missing \cup {id}
    BY <1>1, <2>4, MissingAdded DEF SideInv
  <2> QED
    BY <1>2, <2>4, <2>5, OneMissing DEF id
<1>3. CASE Requesting(p) /\ id \notin eng.inflight
  <2>1. Ids(p) \cap eng.inflight = {} /\ Ids(p) # {}
    BY <1>3 DEF Ids, Requesting
  <2>2. eng' = eng
    BY <2>1 DEF GiveUp
  <2>3. Missing' = Missing
    BY <2>2 DEF Missing
  <2> QED
    BY <1>3, <2>2, <2>3, SamePlaces DEF SideInv, SideTypeOK
<1>4. CASE ~ Requesting(p)
  <2>1. Ids(p) = {} /\ Ids(p) \cap eng.inflight = {}
    BY <1>4 DEF Ids, Requesting
  <2>2. eng' = [eng EXCEPT !.inflight = eng.inflight, !.missing = Append(eng.missing, 0)]
    BY <2>1 DEF GiveUp
  <2>3. Append(eng.missing, 0) \in Seq(Nat)
    BY DEF SideInv, SideTypeOK
  <2>4. /\ eng' \in [next : Nat, inflight : SUBSET Nat, answered : SUBSET Nat, closed : SUBSET Nat, waited : SUBSET Nat,
                     missing : Seq(Nat), negotiated : Revisions]
        /\ eng'.next = eng.next /\ eng'.answered = eng.answered /\ eng'.negotiated = eng.negotiated
        /\ eng'.closed = eng.closed /\ eng'.waited = eng.waited /\ eng'.inflight = eng.inflight
        /\ eng'.missing = Append(eng.missing, 0)
    BY <2>2, <2>3 DEF SideInv, SideTypeOK
  <2>5. Missing' = Missing
    BY <2>4, MissingAdded DEF SideInv
  <2> QED
    BY <1>4, <2>4, <2>5, NoteMissing
<1> QED
  BY <1>2, <1>3, <1>4

(* A post that fails or ends. *)
LEMMA EndedPostKeeps ==
  ASSUME SideInv, NEW p \in DOMAIN posts, PostFailsOn(p) \/ PostEnds(p)
  PROVE  SideInv'
<1>1. /\ posts' = [posts EXCEPT ![p].at = "done"] /\ UNCHANGED <<side, host>> /\ (eng' = eng \/ GiveUp(p))
      /\ posts[p].at # "done"
  BY DEF PostFailsOn, PostEnds, Moves
<1>2. /\ posts' \in Seq(AnyPost) /\ DOMAIN posts' = DOMAIN posts
      /\ \A q \in DOMAIN posts :
           /\ posts'[q].frame = posts[q].frame /\ posts'[q].session = posts[q].session
           /\ posts'[q].version = posts[q].version /\ posts'[q].status = posts[q].status
           /\ posts'[q].due = posts[q].due
           /\ q # p => posts'[q] = posts[q]
      /\ posts'[p].at = "done"
  BY <1>1, PostMovesOn, "done" \in Steps DEF Steps
<1>3. eng'.next = eng.next
  BY <1>1 DEF GiveUp, SideInv, SideTypeOK
<1>4. PostedOnce' /\ Sent' = Sent
  BY <1>1, <1>2, <1>3, StillPostedOnce
<1>5. /\ OnePlaceEach' /\ eng'.answered = eng.answered /\ eng'.negotiated = eng.negotiated
      /\ eng' \in [next : Nat, inflight : SUBSET Nat, answered : SUBSET Nat, closed : SUBSET Nat, waited : SUBSET Nat,
                   missing : Seq(Nat), negotiated : Revisions]
      /\ Missing' \ eng'.waited \subseteq (Missing \ eng.waited) \cup {posts[p].frame.id}
      /\ ~ Requesting(p) => Missing' \ eng'.waited \subseteq Missing \ eng.waited
  <2>1. CASE eng' = eng
    <3>1. Missing' = Missing
      BY <2>1 DEF Missing
    <3> QED
      BY <1>1, <1>4, <2>1, <3>1, SamePlaces DEF SideInv, SideTypeOK
  <2>2. CASE GiveUp(p)
    BY <1>1, <1>4, <2>2, GiveUpSettles
  <2> QED
    BY <1>1, <2>1, <2>2
<1>6. OneSession' /\ SessionKept'
  BY <1>1, <1>2, <1>5, SessionStays
<1>7. SideTypeOK'
  BY <1>1, <1>2, <1>5 DEF SideInv, SideTypeOK
<1>8. Ending' /\ LeavesNothing'
  BY <1>1, NotOver, StillGoing
<1>9. FailuresEnded'
  <2> SUFFICES ASSUME NEW q \in DOMAIN posts, Requesting(q), posts[q].frame.id \in Missing' \ eng'.waited, q # p
               PROVE  posts'[q].at = "done"
    BY <1>2 DEF FailuresEnded, Requesting
  <2>1. ~ (Requesting(p) /\ posts[p].frame.id = posts[q].frame.id)
    BY DEF SideInv, PostedOnce
  <2>2. posts[q].frame.id \in Missing \ eng.waited
    BY <1>5, <2>1
  <2> QED
    BY <1>2, <2>2 DEF SideInv, FailuresEnded
<1> QED
  BY <1>4, <1>5, <1>6, <1>7, <1>8, <1>9 DEF SideInv

(* Who sends after the answer to initialize sends the session and a revision. *)
LEMMA HeadersKeep == ASSUME SideInv, NEW p \in DOMAIN posts, SetsHeaders(p) PROVE SideInv'
<1>0. PICK f : f = posts[p].frame
  OBVIOUS
<1>1. PICK v : v = VersionFor(f)
  OBVIOUS
<1>2. PICK s : s = IF Initializes(f) THEN NoSession ELSE side.sessionID
  OBVIOUS
<1>3. PICK due \in BOOLEAN : due <=> 1 \in eng.answered
  OBVIOUS
<1>4. /\ posts[p].at = "new" /\ UNCHANGED <<eng, host>> /\ side' = [side EXCEPT !.version = v]
      /\ posts' = [posts EXCEPT ![p].at = "sent", ![p].version = v, ![p].session = s, ![p].due = due]
  BY <1>0, <1>1, <1>2, <1>3 DEF SetsHeaders
<1>5. posts[p] \in AnyPost /\ f \in AnyFrame
  BY <1>0, PostHas DEF AnyPost
<1>6. v \in Revisions /\ s \in Nat
  BY <1>1, <1>2, <1>5 DEF VersionFor, Declares, AnyFrame, Revisions, NoSession, SideInv, SideTypeOK
<1>7. PICK post : post = [posts[p] EXCEPT !.at = "sent", !.version = v, !.session = s, !.due = due]
  OBVIOUS
<1>8. /\ post \in AnyPost /\ post.frame = f /\ post.at = "sent" /\ post.version = v /\ post.session = s /\ post.due = due
      /\ post.status = posts[p].status
  BY <1>0, <1>5, <1>6, <1>7 DEF AnyPost, Steps
<1>9. posts' = [posts EXCEPT ![p] = post]
  BY <1>4, <1>7
<1>10. /\ posts' \in Seq(AnyPost) /\ DOMAIN posts' = DOMAIN posts /\ posts'[p] = post
       /\ \A q \in DOMAIN posts : q # p => posts'[q] = posts[q]
  BY <1>8, <1>9, PostMoved DEF SideInv
<1>11. \A q \in DOMAIN posts : posts'[q].frame = posts[q].frame
  BY <1>0, <1>8, <1>10
<1>12. SideTypeOK' /\ side'.script = side.script /\ side'.sessionID = side.sessionID /\ side'.doing = side.doing
  BY <1>4, <1>6, <1>10 DEF SideInv, SideTypeOK
<1>13. PostedOnce' /\ Sent' = Sent
  BY <1>4, <1>10, <1>11, <1>12, StillPostedOnce
<1>14. OnePlaceEach'
  BY <1>4, <1>12, <1>13, SamePlaces
<1>15. Ending' /\ LeavesNothing'
  BY <1>4, <1>12, NotOver, StillGoing
<1>16. \A q \in DOMAIN posts : (Requesting(q)' <=> Requesting(q)) /\ (Initializes(posts[q].frame)' <=> Initializes(posts[q].frame))
  BY <1>11 DEF Requesting, Initializes
<1>17. OneSession'
  <2>1. (1 \in eng.answered => \E q \in DOMAIN posts : Requesting(q) /\ posts[q].frame.id = 1 /\ posts[q].at \in {"answered", "done"})'
    <3> SUFFICES ASSUME 1 \in eng.answered
                 PROVE  \E q \in DOMAIN posts' : Requesting(q)' /\ posts'[q].frame.id = 1 /\ posts'[q].at \in {"answered", "done"}
      BY <1>4
    <3>1. PICK q \in DOMAIN posts : Requesting(q) /\ posts[q].frame.id = 1 /\ posts[q].at \in {"answered", "done"}
      BY DEF SideInv, OneSession
    <3>2. q # p
      BY <1>4, <3>1
    <3> QED
      BY <1>10, <1>16, <3>1, <3>2
  <2>2. (host.session # NoSession =>
           \E q \in DOMAIN posts : Initializes(posts[q].frame) /\ posts[q].status = "ok" /\ posts[q].at \notin {"new", "sent"})'
    <3> SUFFICES ASSUME host.session # NoSession
                 PROVE  (\E q \in DOMAIN posts : Initializes(posts[q].frame) /\ posts[q].status = "ok" /\ posts[q].at \notin {"new", "sent"})'
      BY <1>4 DEF NoSession
    <3>1. PICK q \in DOMAIN posts : Initializes(posts[q].frame) /\ posts[q].status = "ok" /\ posts[q].at \notin {"new", "sent"}
      BY DEF SideInv, OneSession
    <3>2. q # p
      BY <1>4, <3>1
    <3> QED
      BY <1>10, <1>16, <3>1, <3>2
  <2>3. \A q \in DOMAIN posts' : posts'[q].due => 1 \in eng'.answered
    BY <1>3, <1>4, <1>8, <1>10 DEF SideInv, OneSession
  <2>4. side'.sessionID = host'.session /\ (1 \in eng'.answered /\ host'.session # NoSession => eng'.negotiated # "")
    BY <1>4, <1>12 DEF SideInv, OneSession, NoSession
  <2> QED
    BY <1>4, <2>1, <2>2, <2>3, <2>4 DEF OneSession, NoSession
<1>18. SessionKept'
  <2> SUFFICES ASSUME NEW q \in DOMAIN posts', posts'[q].due, ~ Initializes(posts[q].frame)'
               PROVE  /\ posts'[q].session = host'.session
                      /\ host'.session # NoSession /\ posts'[q].frame.k # "listen" => posts'[q].version # ""
    BY DEF SessionKept, NoSession
  <2>1. CASE q # p
    BY <1>4, <1>10, <1>16, <2>1 DEF SideInv, SessionKept
  <2>2. CASE q = p
    <3>1. ~ Initializes(f) /\ 1 \in eng.answered /\ posts'[q].session = side.sessionID
      BY <1>0, <1>2, <1>3, <1>8, <1>10, <1>16, <2>2
    <3>2. host.session # NoSession => eng.negotiated # ""
      BY <3>1 DEF SideInv, OneSession
    <3>3. host.session # NoSession /\ f.k # "listen" => v # ""
      BY <1>1, <3>1, <3>2 DEF VersionFor, Declares
    <3>4. side.sessionID = host.session /\ host' = host
      BY <1>4 DEF SideInv, OneSession
    <3>5. posts'[q].session = host'.session /\ posts'[q].version = v /\ posts'[q].frame = f
      BY <1>8, <1>10, <2>2, <3>1, <3>4
    <3> QED
      BY <3>3, <3>4, <3>5
  <2> QED
    BY <2>1, <2>2
<1>19. FailuresEnded'
  BY <1>4, <1>10, <1>11, FailuresStay DEF Missing
<1> QED
  BY <1>12, <1>13, <1>14, <1>15, <1>17, <1>18, <1>19 DEF SideInv

(* There is one initialize, and nothing is sent in its session before it was answered. *)
LEMMA OneInitialize ==
  ASSUME SideInv, NEW p \in DOMAIN posts, Requesting(p), posts[p].frame.id = 1, posts[p].at \notin {"answered", "done"}
  PROVE  1 \notin eng.answered /\ \A q \in DOMAIN posts : ~ posts[q].due
<1> SUFFICES ASSUME 1 \in eng.answered PROVE FALSE
  BY DEF SideInv, OneSession
<1>1. PICK q \in DOMAIN posts : Requesting(q) /\ posts[q].frame.id = 1 /\ posts[q].at \in {"answered", "done"}
  BY DEF SideInv, OneSession
<1>2. q = p
  BY <1>1 DEF SideInv, PostedOnce
<1> QED
  BY <1>1, <1>2

LEMMA RespondingKeeps == ASSUME SideInv, NEW p \in DOMAIN posts, Responds(p) PROVE SideInv'
<1>1. PICK status \in {"ok", "refused"} :
        LET assigns == Initializes(posts[p].frame) /\ status = "ok"
        IN  /\ posts' = [posts EXCEPT ![p].at = "open", ![p].status = status]
            /\ host' = IF assigns THEN [host EXCEPT !.session = host.session + 1] ELSE host
            /\ side' = IF assigns THEN [side EXCEPT !.sessionID = host.session + 1] ELSE side
  BY DEF Responds
<1>2. posts[p].at = "sent" /\ eng' = eng
  BY DEF Responds
<1>3. PICK assigns \in BOOLEAN : assigns <=> (Initializes(posts[p].frame) /\ status = "ok")
  OBVIOUS
<1>4. posts[p] \in AnyPost
  BY PostHas
<1>5. PICK post : post = [posts[p] EXCEPT !.at = "open", !.status = status]
  OBVIOUS
<1>6. /\ post \in AnyPost /\ post.frame = posts[p].frame /\ post.at = "open" /\ post.version = posts[p].version
      /\ post.session = posts[p].session /\ post.due = posts[p].due /\ post.status = status
  BY <1>4, <1>5 DEF AnyPost, Steps
<1>7. posts' = [posts EXCEPT ![p] = post]
  BY <1>1, <1>5
<1>8. /\ posts' \in Seq(AnyPost) /\ DOMAIN posts' = DOMAIN posts /\ posts'[p] = post
      /\ \A q \in DOMAIN posts : q # p => posts'[q] = posts[q]
  BY <1>6, <1>7, PostMoved DEF SideInv
<1>9. \A q \in DOMAIN posts : posts'[q].frame = posts[q].frame
  BY <1>6, <1>8
<1>10. host.session \in Nat /\ host.session + 1 \in Nat /\ host.session + 1 # 0
  <2>1. host.session \in Nat
    BY DEF SideInv, SideTypeOK
  <2> QED
    BY <2>1
<1>11. /\ SideTypeOK' /\ side'.script = side.script /\ side'.doing = side.doing
       /\ host'.session = IF assigns THEN host.session + 1 ELSE host.session
       /\ side'.sessionID = IF assigns THEN host.session + 1 ELSE side.sessionID
  <2>1. CASE assigns
    <3>1. host' = [host EXCEPT !.session = host.session + 1] /\ side' = [side EXCEPT !.sessionID = host.session + 1]
      BY <1>1, <1>3, <2>1
    <3> QED
      BY <1>2, <1>8, <1>10, <2>1, <3>1 DEF SideInv, SideTypeOK
  <2>2. CASE ~ assigns
    <3>1. host' = host /\ side' = side
      BY <1>1, <1>3, <2>2
    <3> QED
      BY <1>2, <1>8, <2>2, <3>1 DEF SideInv, SideTypeOK
  <2> QED
    BY <2>1, <2>2
<1>12. PostedOnce' /\ Sent' = Sent
  BY <1>2, <1>8, <1>9, <1>11, StillPostedOnce
<1>13. OnePlaceEach'
  BY <1>2, <1>11, <1>12, SamePlaces
<1>14. Ending' /\ LeavesNothing'
  BY <1>2, <1>11, NotOver, StillGoing
<1>15. \A q \in DOMAIN posts : (Requesting(q)' <=> Requesting(q)) /\ (Initializes(posts[q].frame)' <=> Initializes(posts[q].frame))
  BY <1>9 DEF Requesting, Initializes
<1>16. assigns => 1 \notin eng.answered /\ \A q \in DOMAIN posts : ~ posts[q].due
  BY <1>2, <1>3, OneInitialize DEF Requesting, Initializes
<1>17. OneSession'
  <2>1. (1 \in eng.answered => \E q \in DOMAIN posts : Requesting(q) /\ posts[q].frame.id = 1 /\ posts[q].at \in {"answered", "done"})'
    <3> SUFFICES ASSUME 1 \in eng.answered
                 PROVE  \E q \in DOMAIN posts' : Requesting(q)' /\ posts'[q].frame.id = 1 /\ posts'[q].at \in {"answered", "done"}
      BY <1>2
    <3>1. PICK q \in DOMAIN posts : Requesting(q) /\ posts[q].frame.id = 1 /\ posts[q].at \in {"answered", "done"}
      BY DEF SideInv, OneSession
    <3>2. q # p
      BY <1>2, <3>1
    <3> QED
      BY <1>8, <1>15, <3>1, <3>2
  <2>2. (host.session # NoSession =>
           \E q \in DOMAIN posts : Initializes(posts[q].frame) /\ posts[q].status = "ok" /\ posts[q].at \notin {"new", "sent"})'
    <3>1. CASE assigns
      BY <1>3, <1>6, <1>8, <1>15, <3>1
    <3>2. CASE ~ assigns /\ host.session # NoSession
      <4>1. PICK q \in DOMAIN posts : Initializes(posts[q].frame) /\ posts[q].status = "ok" /\ posts[q].at \notin {"new", "sent"}
        BY <3>2 DEF SideInv, OneSession
      <4>2. q # p
        BY <1>2, <4>1
      <4> QED
        BY <1>8, <1>15, <4>1, <4>2
    <3>3. CASE ~ assigns /\ host.session = NoSession
      BY <1>11, <3>3 DEF NoSession
    <3> QED
      BY <3>1, <3>2, <3>3
  <2>3. \A q \in DOMAIN posts' : posts'[q].due => 1 \in eng'.answered
    BY <1>2, <1>6, <1>8 DEF SideInv, OneSession
  <2>4. 1 \in eng'.answered /\ host'.session # 0 => eng'.negotiated # ""
    BY <1>2, <1>11, <1>16 DEF SideInv, OneSession, NoSession
  <2> QED
    BY <1>11, <2>1, <2>2, <2>3, <2>4 DEF SideInv, OneSession, NoSession
<1>18. SessionKept'
  <2> SUFFICES ASSUME NEW q \in DOMAIN posts', posts'[q].due, ~ Initializes(posts[q].frame)'
               PROVE  /\ posts'[q].session = host'.session
                      /\ host'.session # NoSession /\ posts'[q].frame.k # "listen" => posts'[q].version # ""
    BY DEF SessionKept, NoSession
  <2>1. q \in DOMAIN posts /\ posts[q].due /\ posts'[q].session = posts[q].session /\ posts'[q].version = posts[q].version
    BY <1>6, <1>8
  <2>2. host'.session = host.session
    BY <1>11, <1>16, <2>1
  <2> QED
    BY <1>9, <1>15, <2>1, <2>2 DEF SideInv, SessionKept
<1>19. FailuresEnded'
  BY <1>2, <1>8, <1>9, FailuresStay DEF Missing
<1> QED
  BY <1>11, <1>12, <1>13, <1>14, <1>17, <1>18, <1>19 DEF SideInv

LEMMA DeliveringKeeps == ASSUME SideInv, NEW p \in DOMAIN posts, Delivers(p) PROVE SideInv'
<1>0. PICK id : id = posts[p].frame.id
  OBVIOUS
<1>1. PICK n : n = IF Initializes(posts[p].frame) /\ id \in eng.inflight /\ posts[p].status = "ok" THEN "2025" ELSE eng.negotiated
  OBVIOUS
<1>2. PICK a : a = IF id \in eng.inflight THEN eng.answered \cup {id} ELSE eng.answered
  OBVIOUS
<1>3. /\ posts[p].at = "open" /\ Requesting(p) /\ posts' = [posts EXCEPT ![p].at = "answered"] /\ UNCHANGED <<side, host>>
      /\ eng' = [eng EXCEPT !.inflight = eng.inflight \ {id}, !.answered = a, !.negotiated = n]
  BY <1>0, <1>1, <1>2 DEF Delivers, Moves, Requesting
<1>4. id \in Nat /\ n \in Revisions /\ a \in SUBSET Nat
  BY <1>0, <1>1, <1>2, PostHas DEF Revisions, SideInv, SideTypeOK
<1>5. /\ posts' \in Seq(AnyPost) /\ DOMAIN posts' = DOMAIN posts
      /\ \A q \in DOMAIN posts :
           /\ posts'[q].frame = posts[q].frame /\ posts'[q].session = posts[q].session
           /\ posts'[q].version = posts[q].version /\ posts'[q].status = posts[q].status
           /\ posts'[q].due = posts[q].due
           /\ q # p => posts'[q] = posts[q]
      /\ posts'[p].at = "answered"
  BY <1>3, PostMovesOn, "answered" \in Steps DEF Steps
<1>6. SideTypeOK'
  BY <1>3, <1>4, <1>5 DEF SideInv, SideTypeOK
<1>7. /\ eng'.next = eng.next /\ eng'.inflight = eng.inflight \ {id} /\ eng'.answered = a /\ eng'.closed = eng.closed
      /\ eng'.waited = eng.waited /\ eng'.missing = eng.missing /\ eng'.negotiated = n
  BY <1>3 DEF SideInv, SideTypeOK
<1>8. PostedOnce' /\ Sent' = Sent
  BY <1>3, <1>5, <1>7, StillPostedOnce
<1>9. OnePlaceEach'
  <2>1. CASE id \in eng.inflight
    BY <1>2, <1>3, <1>7, <1>8, <2>1, OneSettled
  <2>2. CASE id \notin eng.inflight
    <3>1. eng'.inflight = eng.inflight /\ eng'.answered = eng.answered
      BY <1>2, <1>7, <2>2
    <3> QED
      BY <1>3, <1>7, <1>8, <3>1, SamePlaces
  <2> QED
    BY <2>1, <2>2
<1>10. Ending' /\ LeavesNothing'
  BY <1>3, NotOver, StillGoing
<1>11. \A q \in DOMAIN posts : (Requesting(q)' <=> Requesting(q)) /\ (Initializes(posts[q].frame)' <=> Initializes(posts[q].frame))
  BY <1>5 DEF Requesting, Initializes
<1>12. eng.answered \subseteq eng'.answered /\ (1 \in eng'.answered => 1 \in eng.answered \/ (id = 1 /\ id \in eng.inflight))
  BY <1>2, <1>7
<1>13. OneSession'
  <2>1. (1 \in eng.answered => \E q \in DOMAIN posts : Requesting(q) /\ posts[q].frame.id = 1 /\ posts[q].at \in {"answered", "done"})'
    <3>1. CASE 1 \in eng.answered
      <4>1. PICK q \in DOMAIN posts : Requesting(q) /\ posts[q].frame.id = 1 /\ posts[q].at \in {"answered", "done"}
        BY <3>1 DEF SideInv, OneSession
      <4> QED
        BY <1>5, <1>11, <4>1
    <3>2. CASE id = 1
      BY <1>0, <1>3, <1>5, <1>11, <3>2
    <3> QED
      BY <1>12, <3>1, <3>2
  <2>2. (host.session # NoSession =>
           \E q \in DOMAIN posts : Initializes(posts[q].frame) /\ posts[q].status = "ok" /\ posts[q].at \notin {"new", "sent"})'
    <3> SUFFICES ASSUME host.session # NoSession
                 PROVE  (\E q \in DOMAIN posts : Initializes(posts[q].frame) /\ posts[q].status = "ok" /\ posts[q].at \notin {"new", "sent"})'
      BY <1>3 DEF NoSession
    <3>1. PICK q \in DOMAIN posts : Initializes(posts[q].frame) /\ posts[q].status = "ok" /\ posts[q].at \notin {"new", "sent"}
      BY DEF SideInv, OneSession
    <3> QED
      BY <1>5, <1>11, <3>1
  <2>3. \A q \in DOMAIN posts' : posts'[q].due => 1 \in eng'.answered
    BY <1>5, <1>12 DEF SideInv, OneSession
  <2>4. ASSUME 1 \in eng'.answered, host.session # NoSession PROVE eng'.negotiated # ""
    <3>1. CASE 1 \in eng.answered
      BY <1>1, <1>7, <2>4, <3>1 DEF SideInv, OneSession
    <3>2. CASE id = 1 /\ id \in eng.inflight
      <4>1. PICK q \in DOMAIN posts : Initializes(posts[q].frame) /\ posts[q].status = "ok"
        BY <2>4 DEF SideInv, OneSession
      <4>2. Requesting(q) /\ posts[q].frame.id = 1
        BY <4>1 DEF Initializes, Requesting
      <4>3. q = p
        BY <1>0, <1>3, <3>2, <4>2 DEF SideInv, PostedOnce
      <4> QED
        BY <1>1, <1>7, <3>2, <4>1, <4>3
    <3> QED
      BY <1>12, <2>4, <3>1, <3>2
  <2> QED
    BY <1>3, <2>1, <2>2, <2>3, <2>4 DEF SideInv, OneSession, NoSession
<1>14. SessionKept'
  <2> SUFFICES ASSUME NEW q \in DOMAIN posts', posts'[q].due, ~ Initializes(posts[q].frame)'
               PROVE  /\ posts'[q].session = host'.session
                      /\ host'.session # NoSession /\ posts'[q].frame.k # "listen" => posts'[q].version # ""
    BY DEF SessionKept, NoSession
  <2>1. q \in DOMAIN posts /\ posts[q].due /\ posts'[q].session = posts[q].session /\ posts'[q].version = posts[q].version
    BY <1>5
  <2>2. host' = host /\ posts'[q].frame = posts[q].frame /\ ~ Initializes(posts[q].frame)
    BY <1>3, <1>5, <1>11, <2>1
  <2> QED
    BY <2>1, <2>2 DEF SideInv, SessionKept
<1>15. FailuresEnded'
  BY <1>3, <1>5, <1>7, FailuresStay DEF Missing
<1> QED
  BY <1>6, <1>8, <1>9, <1>10, <1>13, <1>14, <1>15 DEF SideInv

-----------------------------------------------------------------------------
LEMMA SideStarts == SideInit => SideInv
<1> SUFFICES ASSUME SideInit PROVE SideInv
  OBVIOUS
<1>1. PICK script \in Scripts :
        side = [script |-> script, doing |-> "start", sessionID |-> NoSession, version |-> "",
                listening |-> FALSE, streams |-> {}, holding |-> FALSE, aborted |-> FALSE]
  BY DEF SideInit
<1>2. PICK own \in BOOLEAN : host = [own |-> own, up |-> TRUE, listens |-> FALSE, session |-> NoSession, ended |-> {}]
  BY DEF SideInit
<1>3. /\ posts = <<>>
      /\ eng = [next |-> 1, inflight |-> {}, answered |-> {}, closed |-> {}, waited |-> {}, missing |-> <<>>,
                negotiated |-> ""]
  BY DEF SideInit
<1>4. SideTypeOK
  <2>1. <<>> \in Seq(AnyPost) /\ <<>> \in Seq(Nat) /\ 0 \in Nat /\ 1 \in Nat
    OBVIOUS
  <2>2. "" \in Revisions /\ "start" \in SideSteps /\ {} \in SUBSET Nat
    BY DEF Revisions, SideSteps
  <2>3. side \in [script : Scripts, doing : SideSteps, sessionID : Nat, version : Revisions, listening : BOOLEAN,
                  streams : SUBSET Nat, holding : BOOLEAN, aborted : BOOLEAN]
    BY <1>1, <2>1, <2>2 DEF NoSession
  <2>4. eng \in [next : Nat, inflight : SUBSET Nat, answered : SUBSET Nat, closed : SUBSET Nat, waited : SUBSET Nat,
                 missing : Seq(Nat), negotiated : Revisions]
    BY <1>3, <2>1, <2>2
  <2>5. host \in [own : BOOLEAN, up : BOOLEAN, listens : BOOLEAN, session : Nat, ended : SUBSET Nat]
    BY <1>2, <2>1, <2>2 DEF NoSession
  <2> QED
    BY <1>3, <2>1, <2>3, <2>4, <2>5 DEF SideTypeOK
<1>5. /\ eng.next = 1 /\ eng.inflight = {} /\ eng.answered = {} /\ eng.closed = {} /\ eng.waited = {}
      /\ eng.missing = <<>>
  BY <1>3
<1>6. DOMAIN posts = {} /\ DOMAIN eng.missing = {}
  <2>1. \A s : s = <<>> => DOMAIN s = {}
    OBVIOUS
  <2> QED
    BY <1>3, <1>5, <2>1
<1>7. Missing = {} /\ Sent = {}
  <2>1. ToSet(eng.missing) = {}
    BY <1>6 DEF ToSet
  <2> QED
    BY <1>6, <2>1 DEF Missing, Sent
<1>8. PostedOnce /\ OnePlaceEach
  <2>1. PostedOnce
    BY <1>5, <1>6 DEF PostedOnce
  <2> QED
    BY <1>5, <1>6, <1>7, <2>1, FS_EmptySet DEF OnePlaceEach
<1>9. OneSession /\ Ending /\ SessionKept /\ LeavesNothing /\ FailuresEnded
  BY <1>1, <1>2, <1>3, <1>6, <1>5 DEF OneSession, Ending, SessionKept, LeavesNothing, Doing, FailuresEnded
<1> QED
  BY <1>4, <1>8, <1>9 DEF SideInv

LEMMA SideStep == SideInv /\ [SideNext]_sideVars => SideInv'
<1> SUFFICES ASSUME SideInv, [SideNext]_sideVars PROVE SideInv'
  OBVIOUS
<1>1. CASE UNCHANGED sideVars
  <2>1. side' = side /\ posts' = posts /\ eng' = eng /\ host' = host
    BY <1>1 DEF sideVars
  <2>2. PostedOnce' /\ Sent' = Sent /\ OneSession' /\ SessionKept' /\ FailuresEnded'
    BY <2>1, QuietSide
  <2>3. OnePlaceEach' /\ SideTypeOK' /\ Ending' /\ LeavesNothing'
    BY <2>1, <2>2, SamePlaces DEF SideInv, SideTypeOK, Ending, LeavesNothing, Doing
  <2> QED
    BY <2>2, <2>3 DEF SideInv
<1>2. CASE ReplaySide
  BY <1>2, StartAndEndKeep, GivingUpKeeps, RequestKeeps, ClosingKeeps, PassingOverKeeps, NoteKeeps, TakenNoteKeeps,
     LastWaitKeeps, StoppingKeeps, HeadersKeep, EndedPostKeeps DEF ReplaySide
<1>3. CASE HostNext
  BY <1>3, RespondingKeeps, DeliveringKeeps, EndedPostKeeps, StartAndEndKeep DEF HostNext
<1> QED
  BY <1>1, <1>2, <1>3 DEF SideNext

LEMMA SettledByPlace == SideInv => SettledOnce
<1> SUFFICES ASSUME SideInv PROVE SettledOnce
  OBVIOUS
<1>1. Missing \cap (eng.answered \cup eng.closed) \subseteq eng.waited /\ eng.answered \cap eng.closed = {}
  BY DEF SideInv, OnePlaceEach
<1>2. ASSUME NEW id \in Missing \ eng.waited PROVE Cardinality({i \in DOMAIN eng.missing : eng.missing[i] = id}) = 1
  <2>1. PICK i \in DOMAIN eng.missing : eng.missing[i] = id /\ id # 0
    BY DEF Missing, ToSet
  <2>2. {j \in DOMAIN eng.missing : eng.missing[j] = id} = {i}
    BY <2>1 DEF SideInv, OnePlaceEach
  <2> QED
    BY <2>2, FS_Singleton
<1>3. PICK settled : settled = Missing \cup eng.answered \cup eng.closed
  OBVIOUS
<1>4. settled \subseteq Sent /\ eng.waited \subseteq Missing \cap Expected
  BY <1>3 DEF SideInv, OnePlaceEach
<1>5. ASSUME Doing("over") PROVE Sent \cap Expected \subseteq settled
  BY <1>3, <1>5 DEF Doing, SideInv, OnePlaceEach
<1>6. \A p \in DOMAIN posts : posts[p].frame.k = "request" /\ posts[p].frame.id \in Missing \ eng.waited => posts[p].at = "done"
  BY DEF SideInv, FailuresEnded, Requesting
<1> QED
  BY <1>1, <1>2, <1>3, <1>4, <1>5, <1>6 DEF SettledOnce, Missing, Sent, Requesting

(* Each request posted that the recording has an answer to is answered, closed or missing when the side is
   over, once, but for one that was waited for in vain and came all the same; no other is waited for, and
   it is missing only if its POST came to nothing (await, giveUp, receive, run). *)
THEOREM SideSettles == SideSpec => []SettledOnce
BY SideStarts, SideStep, SettledByPlace, PTL DEF SideSpec

(* What is posted after the answer to initialize carries the session that answer assigned and a revision;
   and a replay over HTTP leaves no stream, session or server of its own behind (requestHeaders, post,
   startHTTP). *)
THEOREM SideKeepsItsSession == SideSpec => [](SessionKept /\ LeavesNothing)
<1>1. SideInv => SessionKept /\ LeavesNothing
  BY DEF SideInv
<1> QED
  BY <1>1, SideStarts, SideStep, PTL DEF SideSpec

(* However the three parts of a replay interleave with what they talk to: requests over HTTP settled once,
   under the session this server gave, a single call shown the answer to that call, and nothing of a
   replay left behind (post, receive, readResponse, startHTTP). *)
THEOREM RepliesAreExact == MCSpec => []RepliesExact
<1>1. MCInit => ShotInit /\ SideInit
  BY DEF MCInit
<1>2. [MCNext]_allVars => [ShotNext]_shotVars /\ [SideNext]_sideVars
  BY DEF MCNext, allVars, shotVars, sideVars
<1>3. ShownIsTheAnswer /\ LeavesNoServer /\ SettledOnce /\ SessionKept /\ LeavesNothing => RepliesExact
  BY DEF RepliesExact
<1> QED
  BY <1>1, <1>2, <1>3, ReplayShowsTheAnswer, NoServerIsLeft, SideSettles, SideKeepsItsSession, PTL
  DEF MCSpec, ShotSpec, SideSpec

-----------------------------------------------------------------------------
(***************************************************************************)
(* Replays started from the terminal interface.                            *)
(***************************************************************************)

(* What is run is known by its token, and only the last one is the request that r would send again. *)
RunsKnown ==
  /\ token \in Nat
  /\ \A run \in running : run.token \in Nat /\ run.token <= token
  /\ replaying => \A run \in running : run.token = token => run.req = req

(* Before a stream is entered there is nothing to run, so that no session is taken for confirmed. *)
NothingBeforeAStream ==
  stream = Nil => /\ view # "stream" /\ overlay \notin {"inspector", "replay"}
                   /\ editors = {} /\ running = {} /\ prompt = NoPrompt

DeskInv ==
  /\ RunsKnown /\ NothingBeforeAStream
  /\ confirmed \in accepted \cup {Nil}
  /\ ShownIsTheRequest /\ NothingRunsUnasked

(* Start opens one run, the last, for the stream that is open. *)
LEMMA StartKeeps ==
  ASSUME DeskInv, NEW r, NEW h, Start(r, h), stream \in accepted', accepted \subseteq accepted',
         stream # Nil, UNCHANGED screen
  PROVE  DeskInv'
<1> DEFINE run == [req |-> r, routing |-> h, session |-> stream, token |-> token + 1]
<1>1. running' = running \cup {run} /\ token' = token + 1 /\ replaying' /\ req' = r /\ confirmed' = stream
  BY DEF Start
<1>2. run.token = token + 1 /\ run.req = r /\ run.session = stream
  OBVIOUS
<1> HIDE DEF run
<1>3. RunsKnown'
  BY <1>1, <1>2 DEF DeskInv, RunsKnown
<1>4. NothingRunsUnasked'
  BY <1>1, <1>2 DEF DeskInv, NothingRunsUnasked
<1>5. NothingBeforeAStream' /\ ShownIsTheRequest'
  BY <1>1 DEF screen, NothingBeforeAStream, ShownIsTheRequest
<1> QED BY <1>1, <1>3, <1>4, <1>5 DEF DeskInv

(* RunReplay starts a run, asks, or does nothing. *)
LEMMA RunReplayKeeps ==
  ASSUME DeskInv, NEW r, NEW h, RunReplay(r, h), stream # Nil, UNCHANGED screen
  PROVE  DeskInv'
<1>1. CASE Start(r, h) /\ Confirmed /\ accepted' = accepted
  <2>1. stream \in accepted'
    BY <1>1 DEF DeskInv, Confirmed
  <2> QED BY <1>1, <2>1, StartKeeps DEF screen
<1>2. CASE Idles
  BY <1>2 DEF Idles, screen, DeskInv, RunsKnown, NothingBeforeAStream, ShownIsTheRequest, NothingRunsUnasked
<1> QED BY <1>1, <1>2 DEF RunReplay

LEMMA DeskKeeps == DeskInv /\ [ReplayDeskNext]_replayVars => DeskInv'
<1> SUFFICES ASSUME DeskInv, [ReplayDeskNext]_replayVars PROVE DeskInv'
  OBVIOUS
<1> USE DEF DeskInv, Keys, Navigates, asked, screen, RunsKnown, NothingBeforeAStream, ShownIsTheRequest,
            NothingRunsUnasked
<1>1. ASSUME NEW s \in {"stdio", "http"}, EntersStream(s) PROVE DeskInv'
  BY <1>1 DEF EntersStream, Nil
<1>2. CASE MovesFocus
  BY <1>2 DEF MovesFocus
<1>3. CASE LeavesView \/ SessionsCommand
  BY <1>3 DEF LeavesView, SessionsCommand
<1>4. ASSUME NEW mode \in {"inspector", "panel"}, OpensOverlay(mode) PROVE DeskInv'
  BY <1>4 DEF OpensOverlay
<1>5. CASE ClosesOverlay \/ FrameLeaves
  BY <1>5 DEF ClosesOverlay, FrameLeaves
<1>6. CASE AnswersPrompt(TRUE)
  <2>1. Start(prompt.req, prompt.routing) /\ accepted' = accepted \cup {stream} /\ stream # Nil
    BY <1>6 DEF AnswersPrompt
  <2> QED BY <1>6, <2>1, StartKeeps DEF AnswersPrompt
<1>7. CASE AnswersPrompt(FALSE)
  BY <1>7 DEF AnswersPrompt, Idles
<1>8. CASE StartReplay
  <2>1. stream # Nil
    BY <1>8 DEF StartReplay, Focused
  <2> QED BY <1>8, <2>1, RunReplayKeeps DEF StartReplay
<1>9. CASE ReplayAgain
  <2>1. stream # Nil
    BY <1>9 DEF ReplayAgain
  <2> QED BY <1>9, <2>1, RunReplayKeeps DEF ReplayAgain
<1>10. CASE StartEditReplay
  BY <1>10 DEF StartEditReplay, Focused
<1>11. ASSUME NEW e \in editors, EditAborted(e) PROVE DeskInv'
  BY <1>11 DEF EditAborted
<1>12. ASSUME NEW e \in editors, NEW edited, EditDone(e, edited) PROVE DeskInv'
  <2>1. stream # Nil
    OBVIOUS
  <2> QED BY <1>12, <2>1, RunReplayKeeps DEF EditDone
<1>13. ASSUME NEW run \in running, ReplayDone(run) PROVE DeskInv'
  BY <1>13 DEF ReplayDone, Awaited
<1>14. CASE UNCHANGED replayVars
  BY <1>14 DEF replayVars
<1> QED BY <1>1, <1>2, <1>3, <1>4, <1>5, <1>6, <1>7, <1>8, <1>9, <1>10, <1>11, <1>12, <1>13, <1>14
        DEF ReplayDeskNext

(* However keys, editors, prompts and late results interleave, a replay panel shows the answer to the
   request that r would send again, and no session's command runs before the user said yes to it
   (replayToken, replayConfirmed). *)
THEOREM ReplaysAreAsShown == DeskSpec => []ReplaysAsShown
<1>1. ReplayDeskInit => DeskInv
  BY DEF ReplayDeskInit, DeskInv, RunsKnown, NothingBeforeAStream, ShownIsTheRequest, NothingRunsUnasked
<1>2. DeskInv => ReplaysAsShown
  BY DEF DeskInv, ReplaysAsShown
<1> QED BY <1>1, <1>2, DeskKeeps, PTL DEF DeskSpec
===============================================================================
