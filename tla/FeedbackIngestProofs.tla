------------------------- MODULE FeedbackIngestProofs -------------------------
(***************************************************************************)
(* Proofs about FeedbackIngest: what is proved of a component alone holds  *)
(* in the program, where the components share a thread and a sink, and     *)
(* what they do there together.                                            *)
(***************************************************************************)
EXTENDS FeedbackIngest, TLAPS

(* The part of the dump that some of the sources have written.             *)
FilesOf(ids) == [f \in {g \in DOMAIN files : g.source \in ids} |-> files[f]]

ServerFiles == FilesOf(Source)
SourceFiles == FilesOf({discourse_id})
FileppFiles == FilesOf({filepp_id})

(* The components, each with its own part of the dump, and the lemmas about*)
(* them: S of the server, D of the discourse source and its calls, F of the*)
(* filepp source.                                                          *)
S == INSTANCE PushIngestionProofs
       WITH crashes <- 0, MaxCrashes <- 0, files <- ServerFiles

D == INSTANCE DiscoursePollingProofs
       WITH phase <- fetching, source_id <- discourse_id, tenant_id <- discourse_tenant,
            restarts <- 0, MaxRestarts <- 0, files <- SourceFiles,
            Get <- Calls, Https <- Calls

F == INSTANCE FileppPollingProofs
       WITH phase <- polling, source_id <- filepp_id, tenant_id <- filepp_tenant,
            restarts <- 0, MaxRestarts <- 0, files <- FileppFiles

Sink == INSTANCE JsonSink

-------------------------------------------------------------------------------
(* The sink all sources write to.                                          *)
Writes(b) == Sink!Write(b) \/ Sink!WriteThrows(b)

(* A batch of one source.                                                  *)
LinesOf(b, id) ==
  /\ b # <<>> => Head(b).source_id = id
  /\ \A i \in DOMAIN b :
       b[i].source_id = Head(b).source_id /\ b[i].tenant_id = Head(b).tenant_id

Passes == clock' \in {clock, clock + 1}

(* What others write is no business of a source,                           *)
LEMMA OthersWrite ==
  ASSUME NEW ids, NEW id, id \notin ids, NEW b, LinesOf(b, id), Writes(b)
  PROVE  FilesOf(ids)' = FilesOf(ids) /\ Passes
<1>1. CASE files' = files /\ Passes
  BY <1>1 DEF FilesOf
<1>2. ASSUME NEW content, Sink!Create(b, content)
      PROVE  FilesOf(ids)' = FilesOf(ids) /\ Passes
  <2> DEFINE name == Sink!FileName(b, clock)
  <2>1. /\ files' = [f \in DOMAIN files \cup {name} |-> IF f = name THEN content ELSE files[f]]
        /\ name.source = id /\ clock' = clock + 1
    BY <1>2 DEF LinesOf, Sink!Create, Sink!Put, Sink!FileName
  <2> HIDE DEF name
  <2>2. {g \in DOMAIN files' : g.source \in ids} = {g \in DOMAIN files : g.source \in ids}
    BY <2>1
  <2>3. \A g \in DOMAIN files : g.source \in ids => files'[g] = files[g]
    BY <2>1
  <2> QED
    BY <2>1, <2>2, <2>3 DEF FilesOf, Passes
<1> QED
  BY <1>1, <1>2 DEF Writes, Sink!Write, Sink!WriteThrows, Sink!sinkVars, Passes

(* and what it writes itself it writes as if it were alone.                *)
LEMMA OwnWrites ==
  ASSUME NEW ids, NEW id \in ids, NEW b, LinesOf(b, id), NEW content, Sink!Create(b, content)
  PROVE  LET name == Sink!FileName(b, clock)
         IN  FilesOf(ids)' = [f \in DOMAIN FilesOf(ids) \cup {name} |->
                                IF f = name THEN content ELSE FilesOf(ids)[f]]
<1> DEFINE name == Sink!FileName(b, clock)
           own == FilesOf(ids)
<1>1. /\ files' = [f \in DOMAIN files \cup {name} |-> IF f = name THEN content ELSE files[f]]
      /\ name.source = id
  BY DEF LinesOf, Sink!Create, Sink!Put, Sink!FileName
<1> HIDE DEF name
<1>2. {g \in DOMAIN files' : g.source \in ids} = DOMAIN own \cup {name}
  BY <1>1 DEF FilesOf
<1>3. \A f \in DOMAIN own \cup {name} :
        files'[f] = IF f = name THEN content ELSE own[f]
  BY <1>1 DEF FilesOf
<1>4. FilesOf(ids)' = [f \in DOMAIN own \cup {name} |-> IF f = name THEN content ELSE own[f]]
  BY <1>2, <1>3 DEF FilesOf
<1> QED
  BY <1>4 DEF name

LEMMA ServerWrites ==
  ASSUME NEW id \in Source, NEW b, LinesOf(b, id)
  PROVE  (Server!Write(b) => S!Write(b)) /\ (Server!WriteThrows(b) => S!WriteThrows(b))
<1>1. ASSUME NEW content, Server!Create(b, content)
      PROVE  S!Create(b, content)
  <2>1. Sink!Create(b, content)
    BY <1>1 DEF Server!Create, Server!Put, Server!FileName,
                Sink!Create, Sink!Put, Sink!FileName
  <2>2. LET name == Sink!FileName(b, clock)
        IN  ServerFiles' = [f \in DOMAIN ServerFiles \cup {name} |->
                            IF f = name THEN content ELSE ServerFiles[f]]
    BY <2>1, OwnWrites, id \in Source DEF ServerFiles
  <2> QED
    BY <1>1, <2>2 DEF Server!Create, S!Create, S!Put, S!FileName, Sink!FileName
<1>2. files' = files => ServerFiles' = ServerFiles
  BY DEF ServerFiles, FilesOf
<1> QED
  BY <1>1, <1>2 DEF Server!Write, Server!WriteThrows, Server!sinkVars, Server!Torn,
                    S!Write, S!WriteThrows, S!sinkVars, S!Torn

LEMMA SourceWrites ==
  ASSUME NEW b, LinesOf(b, discourse_id)
  PROVE  /\ Discourse!Write(b) => D!Write(b)
         /\ Discourse!WriteThrows(b) => D!WriteThrows(b)
<1>1. ASSUME NEW content, Discourse!Create(b, content)
      PROVE  D!Create(b, content)
  <2>1. Sink!Create(b, content)
    BY <1>1 DEF Discourse!Create, Discourse!Put, Discourse!FileName,
                Sink!Create, Sink!Put, Sink!FileName
  <2>2. LET name == Sink!FileName(b, clock)
        IN  SourceFiles' = [f \in DOMAIN SourceFiles \cup {name} |->
                            IF f = name THEN content ELSE SourceFiles[f]]
    <3>1. \A ids : discourse_id \in ids =>
            LET name == Sink!FileName(b, clock)
            IN  FilesOf(ids)' = [f \in DOMAIN FilesOf(ids) \cup {name} |->
                                   IF f = name THEN content ELSE FilesOf(ids)[f]]
      BY <2>1, OwnWrites
    <3> QED
      BY <3>1, Zenon DEF SourceFiles
  <2> QED
    BY <1>1, <2>2 DEF Discourse!Create, D!Create, D!Put, D!FileName, Sink!FileName
<1>2. files' = files => SourceFiles' = SourceFiles
  BY DEF SourceFiles, FilesOf
<1> QED
  BY <1>1, <1>2 DEF Discourse!Write, Discourse!WriteThrows, Discourse!sinkVars,
                    Discourse!Torn, D!Write, D!WriteThrows, D!sinkVars, D!Torn

LEMMA FileppWrites ==
  ASSUME NEW b, LinesOf(b, filepp_id)
  PROVE  (Filepp!Write(b) => F!Write(b)) /\ (Filepp!WriteThrows(b) => F!WriteThrows(b))
<1>1. ASSUME NEW content, Filepp!Create(b, content)
      PROVE  F!Create(b, content)
  <2>1. Sink!Create(b, content)
    BY <1>1 DEF Filepp!Create, Filepp!Put, Filepp!FileName,
                Sink!Create, Sink!Put, Sink!FileName
  <2>2. LET name == Sink!FileName(b, clock)
        IN  FileppFiles' = [f \in DOMAIN FileppFiles \cup {name} |->
                            IF f = name THEN content ELSE FileppFiles[f]]
    <3>1. \A ids : filepp_id \in ids =>
            LET name == Sink!FileName(b, clock)
            IN  FilesOf(ids)' = [f \in DOMAIN FilesOf(ids) \cup {name} |->
                                   IF f = name THEN content ELSE FilesOf(ids)[f]]
      BY <2>1, OwnWrites
    <3> QED
      BY <3>1, Zenon DEF FileppFiles
  <2> QED
    BY <1>1, <2>2 DEF Filepp!Create, F!Create, F!Put, F!FileName, Sink!FileName
<1>2. files' = files => FileppFiles' = FileppFiles
  BY DEF FileppFiles, FilesOf
<1> QED
  BY <1>1, <1>2 DEF Filepp!Write, Filepp!WriteThrows, Filepp!sinkVars, Filepp!Torn,
                    F!Write, F!WriteThrows, F!sinkVars, F!Torn

-------------------------------------------------------------------------------
(* The invariants: those of the components, each of its own variables and  *)
(* its own files, and that the posts are asked for when the call for their *)
(* ids has returned.                                                       *)
SourceInv == D!IInv /\ D!CountInv

IdsCame == fetching = "reading" => calling["range_url"] = "returned"

IInv == S!IInv /\ SourceInv /\ D!HttpInv /\ F!IInv /\ IdsCame

-------------------------------------------------------------------------------
(* The batches of the three kinds of source.                               *)
LEMMA HeadOfLines ==
  ASSUME NEW line, NEW n \in Nat, NEW b \in [1..n -> line], b # <<>>
  PROVE  Head(b) \in line /\ \A i \in DOMAIN b : b[i] \in line
<1>1. b \in Seq(line) /\ Len(b) = n
  OBVIOUS
<1> QED
  BY <1>1

LEMMA ServerBatch ==
  ASSUME S!IInv, NEW c \in Conn, Server!Store(c)
  PROVE  handler[c] \in Source /\ LinesOf(Server!Batch(c), handler[c])
<1>1. handler[c] \in Source
  BY S!SourceOfDecided, ServerAssumption
     DEF Server!Store, Server!Storing, S!IInv, S!TypeOK
<1> QED
  BY <1>1 DEF Server!Batch, LinesOf

LEMMA SourceBatch ==
  ASSUME SourceInv
  PROVE  LinesOf(Discourse!Batch(window), discourse_id)
<1> DEFINE b == Discourse!Batch(window)
           n == Discourse!LastDay(window) + 1 - Discourse!Day(window.begin)
           line == [source_id : {discourse_id}, tenant_id : {discourse_tenant}, entry : Int]
<1>1. window.begin \in Nat /\ window.end \in Nat /\ DayLength \in Nat \ {0}
  BY TimeAssumption DEF SourceInv, D!IInv, D!TypeOK, D!Window
<1>2. Discourse!Day(window.begin) \in Int /\ n \in Int
  BY <1>1 DEF Discourse!LastDay, Discourse!Day
<1>3. b \in [1..n -> line]
  BY <1>2 DEF Discourse!Batch
<1> HIDE DEF b, line
<1>4. CASE b = <<>>
  BY <1>4 DEF LinesOf, b
<1>5. CASE b # <<>>
  <2>1. n \in Nat
    BY <1>2, <1>3, <1>5
  <2>2. Head(b) \in line /\ \A i \in DOMAIN b : b[i] \in line
    BY <1>3, <1>5, <2>1, HeadOfLines
  <2> QED
    BY <2>2 DEF LinesOf, b, line
<1> QED
  BY <1>4, <1>5

(* A read is the same whatever else is in the dump.                        *)
LEMMA SameReads ==
  /\ Filepp!Texts = F!Texts /\ (Filepp!Whole <=> F!Whole)
  /\ \A text : /\ Filepp!Batch(text) = F!Batch(text)
               /\ Filepp!HasSchemas(text) <=> F!HasSchemas(text)
               /\ Filepp!Read(text) <=> F!Read(text)
BY DEF Filepp!Texts, F!Texts, Filepp!Whole, F!Whole, Filepp!Batch, F!Batch,
       Filepp!HasSchemas, F!HasSchemas, Filepp!Read, F!Read, Filepp!ReadQuietly,
       F!ReadQuietly, Filepp!ReadOvertaken, F!ReadOvertaken, Filepp!Splices, F!Splices,
       Filepp!Splice, F!Splice, Filepp!Cuts, F!Cuts

LEMMA FileppBatch ==
  ASSUME F!IInv, NEW text, Filepp!Read(text)
  PROVE  LinesOf(Filepp!Batch(text), filepp_id)
<1> DEFINE b == Filepp!Batch(text)
           line == [source_id : {filepp_id}, tenant_id : {filepp_tenant}, entry : Conversation]
<1>1. text \in Seq(Conversation)
  BY F!ReadFacts, SameReads, VersionAssumption, TimeAssumption DEF F!IInv
<1>2. /\ Len(text) \in Nat
      /\ DOMAIN text = 1..Len(text)
      /\ \A i \in 1..Len(text) : text[i] \in Conversation
  BY <1>1
<1>3. b \in [1..Len(text) -> line]
  BY <1>2 DEF Filepp!Batch
<1> HIDE DEF b, line
<1>4. b # <<>> => Head(b) \in line /\ \A i \in DOMAIN b : b[i] \in line
  BY <1>2, <1>3, HeadOfLines
<1> QED
  BY <1>4 DEF LinesOf, b, line

-------------------------------------------------------------------------------
(* Each step of the program is one of a component, as far as the variables *)
(* of the component go, or leaves them alone, but for the calls, which a   *)
(* new fetch makes anew.                                                   *)

(* Who writes in a step.                                                   *)
ServerStores == \E c \in Conn : Server!Store(c)

LEMMA ServerSink ==
  ASSUME Dispatch
  PROVE  UNCHANGED sinkVars \/ ServerStores
BY DEF Dispatch, Server!Dispatch, Server!StartSource, Server!StartServer, Server!Accept,
       Server!AcceptFails, Server!Session, Server!ReadFails, Server!Handle, Server!Finish,
       Server!sinkVars, sinkVars, ServerStores

LEMMA SourceSink ==
  ASSUME SourceInv, NEW g \in Calls, Call(g)
  PROVE  UNCHANGED sinkVars \/ \E b : LinesOf(b, discourse_id) /\ Writes(b)
<1>1. \/ UNCHANGED sinkVars
      \/ \E b \in {Discourse!Batch(window), <<>>} :
           Discourse!Write(b) \/ Discourse!WriteThrows(b)
  BY DEF Call, GoesOn, sinkVars, Discourse!GetPostIds, Discourse!Load, Discourse!Schemas,
         Discourse!Fail, Discourse!sinkVars
<1>2. \A b \in {Discourse!Batch(window), <<>>} : LinesOf(b, discourse_id)
  BY SourceBatch DEF LinesOf
<1>3. \A b : Discourse!Write(b) \/ Discourse!WriteThrows(b) => Writes(b)
  BY DEF Discourse!Write, Discourse!WriteThrows, Discourse!Create, Discourse!Put,
         Discourse!FileName, Discourse!Torn, Discourse!sinkVars, Writes, Sink!Write,
         Sink!WriteThrows, Sink!Create, Sink!Put, Sink!FileName, Sink!Torn, Sink!sinkVars
<1> QED
  BY <1>1, <1>2, <1>3

LEMMA FileppSink ==
  ASSUME F!IInv, Poll
  PROVE  UNCHANGED sinkVars \/ \E b : LinesOf(b, filepp_id) /\ Writes(b)
<1>1. \/ UNCHANGED sinkVars
      \/ \E text : /\ Filepp!Read(text)
                   /\ \/ Filepp!Write(Filepp!Batch(text))
                      \/ Filepp!WriteThrows(Filepp!Batch(text))
  BY DEF Poll, Filepp!Load, Filepp!Fail, Filepp!sinkVars, sinkVars
<1>2. \A b : Filepp!Write(b) \/ Filepp!WriteThrows(b) => Writes(b)
  BY DEF Filepp!Write, Filepp!WriteThrows, Filepp!Create, Filepp!Put,
         Filepp!FileName, Filepp!Torn, Filepp!sinkVars, Writes, Sink!Write,
         Sink!WriteThrows, Sink!Create, Sink!Put, Sink!FileName, Sink!Torn, Sink!sinkVars
<1> QED
  BY <1>1, <1>2, FileppBatch

LEMMA StoreSink ==
  ASSUME S!IInv, ServerStores
  PROVE  \E id \in Source : \E b : LinesOf(b, id) /\ Writes(b)
<1>1. PICK c \in Conn : Server!Store(c)
  BY DEF ServerStores
<1>2. \A b : Server!Write(b) \/ Server!WriteThrows(b) => Writes(b)
  BY DEF Server!Write, Server!WriteThrows, Server!Create, Server!Put, Server!FileName,
         Server!Torn, Server!sinkVars, Writes, Sink!Write, Sink!WriteThrows, Sink!Create,
         Sink!Put, Sink!FileName, Sink!Torn, Sink!sinkVars
<1> QED
  BY <1>1, <1>2, ServerBatch DEF Server!Store

LEMMA QuietSteps ==
  ASSUME Fetch \/ Seconds \/ Network \/ Tick \/ Wake \/ Supply \/ AcceptReady
         \/ (\E c \in Conn : Client(c) \/ SendEnds(c)) \/ UNCHANGED vars
  PROVE  UNCHANGED sinkVars
BY DEF Fetch, Seconds, Network, Tick, Wake, Supply, AcceptReady, Client, SendEnds,
       httpRest, vars, sinkVars, Discourse!Start, Discourse!Wake, Discourse!Tick,
       Discourse!sinkVars, Filepp!Wake, Filepp!BeginVersion, Filepp!EndVersion,
       Filepp!sinkVars, Server!AcceptReady, Server!Connect, Server!Receive,
       Server!Disconnect, Server!SendDone, Server!SendFails, Server!sinkVars

(* A component that neither moves nor writes while time goes on.           *)
ServerWaits == UNCHANGED <<serverVars, ServerFiles>> /\ Passes
SourceWaits == UNCHANGED <<now, discourseVars, SourceFiles>> /\ Passes
FileppWaits == UNCHANGED <<fileppVars, FileppFiles>> /\ Passes

LEMMA Quiet ==
  ASSUME UNCHANGED sinkVars
  PROVE  UNCHANGED <<ServerFiles, SourceFiles, FileppFiles, clock>> /\ Passes
BY DEF sinkVars, ServerFiles, SourceFiles, FileppFiles, FilesOf, Passes

LEMMA OthersFiles ==
  ASSUME NEW id, NEW b, LinesOf(b, id), Writes(b)
  PROVE  /\ id \notin Source => UNCHANGED ServerFiles
         /\ id # discourse_id => UNCHANGED SourceFiles
         /\ id # filepp_id => UNCHANGED FileppFiles
         /\ Passes
<1>1. \A ids : id \notin ids => FilesOf(ids)' = FilesOf(ids) /\ Passes
  BY OthersWrite
<1>2. id \notin Source => UNCHANGED ServerFiles
  BY <1>1, Zenon DEF ServerFiles
<1>3. id # discourse_id => UNCHANGED SourceFiles
  <2>1. id # discourse_id => id \notin {discourse_id}
    OBVIOUS
  <2> QED
    BY <1>1, <2>1, Zenon DEF SourceFiles
<1>4. id # filepp_id => UNCHANGED FileppFiles
  <2>1. id # filepp_id => id \notin {filepp_id}
    OBVIOUS
  <2> QED
    BY <1>1, <2>1, Zenon DEF FileppFiles
<1>5. Passes
  <2>1. id \notin {}
    OBVIOUS
  <2> QED
    BY <1>1, <2>1, Zenon
<1> QED
  BY <1>2, <1>3, <1>4, <1>5

LEMMA ServerSteps ==
  ASSUME S!IInv, SourceInv, F!IInv, [Next]_vars
  PROVE  S!Next \/ ServerWaits
<1>1. CASE ServerStores
  <2>1. PICK c \in Conn : Server!Store(c)
    BY <1>1 DEF ServerStores
  <2>2. S!Batch(c) = Server!Batch(c)
    BY DEF S!Batch, Server!Batch
  <2>3. handler[c] \in Source /\ LinesOf(Server!Batch(c), handler[c])
    BY <2>1, ServerBatch
  <2>4. /\ Server!Write(Server!Batch(c)) => S!Write(S!Batch(c))
        /\ Server!WriteThrows(Server!Batch(c)) => S!WriteThrows(S!Batch(c))
    BY <2>2, <2>3, ServerWrites
  <2>5. S!Store(c)
    BY <2>1, <2>4
       DEF Server!Store, Server!Storing, Server!Running, Server!Suspend,
           S!Store, S!Storing, S!Running, S!Suspend
  <2> QED
    BY <2>5 DEF S!Next, S!Dispatch, S!Session
<1>2. CASE Dispatch /\ UNCHANGED sinkVars /\ ~ ServerStores
  <2> USE <1>2, Quiet DEF S!sinkVars, Server!sinkVars, sinkVars
  <2>1. ASSUME NEW s \in Source, Server!StartSource(s)
        PROVE  S!StartSource(s)
    BY <2>1 DEF Server!StartSource, S!StartSource, Server!Running, S!Running,
         Server!RegisterRoute, S!RegisterRoute, Server!Suspend, S!Suspend
  <2>2. Server!StartServer => S!StartServer
    BY DEF Server!StartServer, S!StartServer, Server!Running, S!Running, Server!Suspend,
         S!Suspend
  <2>3. (Server!Accept => S!Accept) /\ (Server!AcceptFails => S!AcceptFails)
    BY DEF Server!Accept, S!Accept, Server!AcceptFails, S!AcceptFails, Server!Running,
         S!Running, Server!Suspend, S!Suspend
  <2>4. ASSUME NEW c \in Conn, Server!Session(c)
        PROVE  S!Session(c)
    BY <1>2, <2>4 DEF Server!Session, S!Session, Server!ReadFails, S!ReadFails,
         Server!Handle, S!Handle, Server!Respond, S!Respond, Server!Answer, S!Answer,
         Server!GiveUp, S!GiveUp, Server!Finish, S!Finish, Server!Running, S!Running,
         Server!Suspend, S!Suspend, ServerStores
  <2> QED
    BY <1>2, <2>1, <2>2, <2>3, <2>4 DEF Dispatch, Server!Dispatch, S!Next, S!Dispatch
<1>3. CASE AcceptReady \/ \E c \in Conn : Client(c) \/ SendEnds(c)
  <2>1. UNCHANGED ServerFiles /\ UNCHANGED clock
    BY <1>3, Quiet, QuietSteps
  <2>2. Server!AcceptReady => S!AcceptReady
    BY <2>1 DEF Server!AcceptReady, S!AcceptReady, Server!Complete, S!Complete, S!sinkVars
  <2>3. ASSUME NEW c \in Conn
        PROVE  /\ Server!Connect(c) => S!Connect(c)
               /\ Server!Receive(c) => S!Receive(c)
               /\ Server!Disconnect(c) => S!Disconnect(c)
    BY <2>1 DEF Server!Connect, S!Connect, Server!Listening, S!Listening, Server!Receive,
         S!Receive, Server!Disconnect, S!Disconnect, Server!Complete, S!Complete, S!sinkVars
  <2>4. ASSUME NEW c \in Conn
        PROVE  (Server!SendDone(c) => S!SendDone(c)) /\ (Server!SendFails(c) => S!SendFails(c))
    BY <2>1 DEF Server!SendDone, S!SendDone, Server!SendFails, S!SendFails,
         Server!Complete, S!Complete, S!sinkVars
  <2> QED
    BY <1>3, <2>2, <2>3, <2>4 DEF AcceptReady, Client, SendEnds, S!Next
<1>4. ASSUME NEW g \in Calls, Call(g)
      PROVE  ServerWaits
  BY <1>4, Quiet, SourceSink, OthersFiles, KeysAssumption DEF Call, ServerWaits
<1>5. CASE Poll
  BY <1>5, Quiet, FileppSink, OthersFiles, KeysAssumption DEF Poll, ServerWaits
<1>6. CASE Fetch \/ Seconds \/ Network \/ Tick \/ Wake \/ Supply \/ UNCHANGED vars
  <2>1. UNCHANGED serverVars
    BY <1>6 DEF Fetch, Seconds, Network, Tick, Wake, Supply, httpRest, fileppRest, vars
  <2> QED
    BY <1>6, <2>1, Quiet, QuietSteps DEF ServerWaits
<1> QED
  BY <1>1, <1>2, <1>3, <1>4, <1>5, <1>6, ServerSink DEF Next

LEMMA SourceSteps ==
  ASSUME S!IInv, SourceInv, F!IInv, [Next]_vars
  PROVE  D!Next \/ SourceWaits
<1>0. \A w : D!Batch(w) = Discourse!Batch(w)
  BY DEF D!Batch, D!LastDay, D!Day, Discourse!Batch, Discourse!LastDay, Discourse!Day
<1>1. CASE Discourse!Load
  <2>1. \A answered \in BOOLEAN :
          /\ LinesOf(Discourse!Schemas(answered), discourse_id)
          /\ D!Schemas(answered) = Discourse!Schemas(answered)
    BY <1>0, SourceBatch DEF Discourse!Schemas, D!Schemas, LinesOf
  <2>2. \A answered \in BOOLEAN :
          Discourse!Write(Discourse!Schemas(answered)) => D!Write(D!Schemas(answered))
    BY <2>1, SourceWrites
  <2>3. D!Load
    BY <1>1, <2>2 DEF Discourse!Load, D!Load, Discourse!Sleep, D!Sleep
  <2> QED
    BY <2>3 DEF D!Next
<1>2. CASE Discourse!Fail
  <2>1. Discourse!WriteThrows(Discourse!Batch(window)) => D!WriteThrows(D!Batch(window))
    BY <1>0, SourceBatch, SourceWrites
  <2>2. UNCHANGED Discourse!sinkVars => UNCHANGED D!sinkVars
    BY Quiet DEF Discourse!sinkVars, D!sinkVars, sinkVars
  <2>3. D!Fail
    BY <1>2, <2>1, <2>2 DEF Discourse!Fail, D!Fail
  <2> QED
    BY <2>3 DEF D!Next
<1>3. CASE Discourse!Start \/ Discourse!Wake \/ Discourse!GetPostIds \/ Discourse!Tick
  <2>1. UNCHANGED <<SourceFiles, clock>>
    BY <1>3, Quiet DEF Discourse!Start, Discourse!Wake, Discourse!GetPostIds,
       Discourse!Tick, Discourse!sinkVars, sinkVars
  <2> QED
    BY <1>3, <2>1 DEF Discourse!Start, Discourse!Wake, Discourse!GetPostIds, Discourse!Tick,
       Discourse!Extract, Discourse!pollVars, D!Next, D!Start, D!Wake, D!GetPostIds, D!Tick,
       D!Extract, D!pollVars, D!sinkVars
<1>4. CASE ServerStores /\ Dispatch
  BY <1>4, StoreSink, OthersFiles, KeysAssumption DEF Dispatch, serverRest, SourceWaits
<1>5. CASE Poll
  BY <1>5, Quiet, FileppSink, OthersFiles, KeysAssumption DEF Poll, SourceWaits
<1>6. CASE UNCHANGED <<now, discourseVars, sinkVars>>
  BY <1>6, Quiet DEF SourceWaits
<1>7. \/ Discourse!Load \/ Discourse!Fail
      \/ Discourse!Start \/ Discourse!Wake \/ Discourse!GetPostIds \/ Discourse!Tick
      \/ (ServerStores /\ Dispatch) \/ Poll
      \/ UNCHANGED <<now, discourseVars, sinkVars>>
  <2>1. ASSUME NEW g \in Calls, Call(g)
        PROVE  \/ Discourse!Load \/ Discourse!Fail \/ Discourse!GetPostIds
               \/ UNCHANGED <<now, discourseVars, sinkVars>>
    BY <2>1 DEF Call, GoesOn
  <2>2. CASE Dispatch
    BY <2>2, ServerSink DEF Dispatch, serverRest
  <2>3. CASE Seconds \/ Network \/ Wake \/ Supply \/ AcceptReady
             \/ (\E c \in Conn : Client(c) \/ SendEnds(c)) \/ UNCHANGED vars
    <3>1. UNCHANGED <<now, discourseVars>>
      BY <2>3 DEF Seconds, Network, Wake, Supply, AcceptReady, Client, SendEnds, httpRest,
           fileppRest, serverRest, vars
    <3> QED
      BY <2>3, <3>1, QuietSteps
  <2> QED
    BY <2>1, <2>2, <2>3 DEF Next, Fetch, Tick
<1> QED
  BY <1>1, <1>2, <1>3, <1>4, <1>5, <1>6, <1>7

LEMMA FileppSteps ==
  ASSUME S!IInv, SourceInv, F!IInv, [Next]_vars
  PROVE  F!Next \/ FileppWaits
<1>1. CASE Poll
  <2>1. \A text : Filepp!Read(text) =>
          /\ Filepp!Write(Filepp!Batch(text)) => F!Write(F!Batch(text))
          /\ Filepp!WriteThrows(Filepp!Batch(text)) => F!WriteThrows(F!Batch(text))
    BY SameReads, FileppBatch, FileppWrites
  <2>2. UNCHANGED Filepp!sinkVars => UNCHANGED F!sinkVars
    BY Quiet DEF Filepp!sinkVars, F!sinkVars, sinkVars
  <2>3. Filepp!Poll => F!Poll
    BY DEF Filepp!Poll, F!Poll
  <2>4. Filepp!Load => F!Load
    BY <2>1, <2>3, SameReads DEF Filepp!Load, F!Load
  <2>5. Filepp!Fail => F!Fail
    BY <2>1, <2>2, <2>3, SameReads DEF Filepp!Fail, F!Fail
  <2> QED
    BY <1>1, <2>4, <2>5 DEF Poll, F!Next
<1>2. CASE Wake \/ Supply
  <2>1. UNCHANGED <<FileppFiles, clock>>
    BY <1>2, Quiet, QuietSteps
  <2> QED
    BY <1>2, <2>1 DEF Wake, Supply, Filepp!Wake, Filepp!BeginVersion, Filepp!EndVersion,
       Filepp!pollVars, F!Next, F!Wake, F!BeginVersion, F!EndVersion, F!pollVars, F!sinkVars
<1>3. ASSUME NEW g \in Calls, Call(g)
      PROVE  FileppWaits
  BY <1>3, Quiet, SourceSink, OthersFiles, KeysAssumption DEF Call, FileppWaits
<1>4. CASE Dispatch
  BY <1>4, Quiet, ServerSink, StoreSink, OthersFiles, KeysAssumption
     DEF Dispatch, serverRest, FileppWaits
<1>5. CASE Fetch \/ Seconds \/ Network \/ Tick \/ AcceptReady
           \/ (\E c \in Conn : Client(c) \/ SendEnds(c)) \/ UNCHANGED vars
  <2>1. UNCHANGED fileppVars
    BY <1>5 DEF Fetch, Seconds, Network, Tick, AcceptReady, Client, SendEnds, httpRest,
         serverRest, vars
  <2> QED
    BY <1>5, <2>1, Quiet, QuietSteps DEF FileppWaits
<1> QED
  BY <1>1, <1>2, <1>3, <1>4, <1>5 DEF Next

LEMMA SameCalls == (Http!HttpInit <=> D!HttpInit) /\ (Http!HttpNext <=> D!HttpNext)
<1>1. Http!HttpInit <=> D!HttpInit
  BY DEF Http!HttpInit, D!HttpInit
<1>2. Http!HttpNext <=> D!HttpNext
  BY DEF Http!httpVars, D!httpVars, Http!HttpNext, D!HttpNext, Http!Blocked, D!Blocked, 
       Http!Expired, D!Expired, Http!MoveOn, D!MoveOn, Http!Resolve, D!Resolve, 
       Http!Connect, D!Connect, Http!Handshake, D!Handshake, Http!StartRead, 
       D!StartRead, Http!WriteRequest, D!WriteRequest, Http!Answer, D!Answer, 
       Http!ReadEnds, D!ReadEnds, Http!TimerEnds, D!TimerEnds, Http!BothEnded, 
       D!BothEnded, Http!Resume, D!Resume, Http!TimePasses, D!TimePasses
<1> QED
  BY <1>1, <1>2

LEMMA CallSteps == [Next]_vars => D!HttpNext \/ NewCalls \/ UNCHANGED httpVars
<1>1. ASSUME Next
      PROVE  Http!HttpNext \/ NewCalls \/ UNCHANGED httpVars
  BY <1>1 DEF Next, Fetch, Call, Seconds, Network, Tick, Poll, Wake, Supply,
       Dispatch, AcceptReady, SendEnds, Client, fileppRest, serverRest, Http!HttpNext
<1>2. UNCHANGED vars => UNCHANGED httpVars
  BY DEF vars
<1> QED
  BY <1>1, <1>2, SameCalls

-------------------------------------------------------------------------------
(* The dump begins empty for all of them.                                  *)
LEMMA EmptyFiles ==
  ASSUME files = [f \in {} |-> Sink!Torn]
  PROVE  \A ids : FilesOf(ids) = [f \in {} |-> Sink!Torn]
BY DEF FilesOf

LEMMA ServerInit == Init => S!IInv
<1> SUFFICES ASSUME Init
             PROVE  S!IInv
  OBVIOUS
<1>1. Server!Init /\ files = [f \in {} |-> Sink!Torn] /\ clock = 0
  BY DEF Init, Server!Init, Server!SinkInit, Server!Torn, Sink!Torn
<1>2. S!SinkInit
  BY <1>1, EmptyFiles DEF ServerFiles, S!SinkInit, S!Torn, Sink!Torn
<1>3. S!Init
  BY <1>1, <1>2 DEF Server!Init, S!Init, Server!InitialTasks, S!InitialTasks,
     Server!NoRoutes, S!NoRoutes, Server!Request, S!Request, Server!Body, S!Body
<1> QED
  BY <1>3, S!InvInit, ServerAssumption

LEMMA SourceInit == Init => SourceInv
<1> SUFFICES ASSUME Init
             PROVE  SourceInv
  OBVIOUS
<1>1. Discourse!Init /\ files = [f \in {} |-> Sink!Torn] /\ clock = 0
  BY DEF Init, Discourse!Init, Discourse!SinkInit, Discourse!Torn, Sink!Torn
<1>2. D!SinkInit
  BY <1>1, EmptyFiles, Zenon DEF SourceFiles, D!SinkInit, D!Torn, Sink!Torn
<1>3. D!Init
  BY <1>1, <1>2 DEF Discourse!Init, D!Init
<1> QED
  BY <1>3, D!InvInit, D!CountInit, TimeAssumption DEF SourceInv

LEMMA FileppInit == Init => F!IInv
<1> SUFFICES ASSUME Init
             PROVE  F!IInv
  OBVIOUS
<1>1. Filepp!Init /\ files = [f \in {} |-> Sink!Torn] /\ clock = 0
  BY DEF Init, Filepp!Init, Filepp!SinkInit, Filepp!Torn, Sink!Torn
<1>2. F!SinkInit
  BY <1>1, EmptyFiles, Zenon DEF FileppFiles, F!SinkInit, F!Torn, Sink!Torn
<1>3. F!Init
  BY <1>1, <1>2 DEF Filepp!Init, F!Init
<1> QED
  BY <1>3, F!InitIInv, VersionAssumption, TimeAssumption

LEMMA ServerStep == S!IInv /\ SourceInv /\ F!IInv /\ [Next]_vars => S!IInv'
<1> SUFFICES ASSUME S!IInv, SourceInv, F!IInv, [Next]_vars
             PROVE  S!IInv'
  OBVIOUS
<1>1. CASE S!Next
  BY <1>1, S!InvStep, ServerAssumption
<1>2. CASE ServerWaits
  <2> USE <1>2 DEF ServerWaits, serverVars
  <2>1. S!LoopTypeOK /\ S!DumpTypeOK /\ S!DumpOK
    BY DEF S!IInv, S!TypeOK
  <2>2. S!LoopTypeOK'
    BY <2>1 DEF S!LoopTypeOK
  <2>3. S!DumpTypeOK'
    BY <2>1 DEF S!DumpTypeOK, Passes
  <2>4. S!DumpOK'
    BY <2>1, S!DumpAlone, ServerAssumption
  <2>5. S!Booting' /\ S!Serving'
    BY DEF S!IInv, S!Booting, S!Serving, S!RoutesUpTo
  <2>6. S!BacklogOK'
    BY DEF S!IInv, S!BacklogOK
  <2>7. S!SessionsOK'
    BY DEF S!IInv, S!SessionsOK, S!SessionOK, S!Owns
  <2> QED
    BY <2>2, <2>3, <2>4, <2>5, <2>6, <2>7 DEF S!IInv, S!TypeOK
<1> QED
  BY <1>1, <1>2, ServerSteps

(* A stamp in the past stays there.                                        *)
LEMMA PastStays ==
  ASSUME clock \in Nat, Passes
  PROVE  clock' \in Nat /\ \A n \in 0..clock - 1 : n \in 0..clock' - 1
<1>1. CASE clock' = clock
  BY <1>1
<1>2. CASE clock' = clock + 1
  BY <1>2
<1> QED
  BY <1>1, <1>2 DEF Passes

LEMMA SourceStep == S!IInv /\ SourceInv /\ F!IInv /\ [Next]_vars => SourceInv'
<1> SUFFICES ASSUME S!IInv, SourceInv, F!IInv, [Next]_vars
             PROVE  SourceInv'
  OBVIOUS
<1>1. CASE D!Next
  <2>1. D!IInv'
    BY <1>1, D!InvStep, TimeAssumption DEF SourceInv
  <2>2. D!CountInv'
    BY <1>1, <2>1, D!CountStep, TimeAssumption DEF SourceInv, D!IInv
  <2> QED
    BY <2>1, <2>2 DEF SourceInv
<1>2. CASE SourceWaits
  <2> USE <1>2 DEF SourceWaits, discourseVars, SourceInv
  <2>1. D!TypeOK' /\ D!WindowsOrdered'
    <3>1. D!DumpTypeOK
      BY DEF D!IInv, D!TypeOK
    <3>2. clock \in Nat /\ clock' \in Nat /\ \A n \in 0..clock - 1 : n \in 0..clock' - 1
      BY <3>1, PastStays DEF D!DumpTypeOK
    <3>3. ASSUME NEW f \in DOMAIN SourceFiles
          PROVE  /\ f \in [tenant : {discourse_tenant}, source : {discourse_id},
                           stamp : 0..clock' - 1]
                 /\ SourceFiles[f] \in Seq(D!Line)
      BY <3>1, <3>2 DEF D!DumpTypeOK
    <3>4. D!DumpTypeOK'
      BY <3>2, <3>3 DEF D!DumpTypeOK, D!Line
    <3> QED
      BY <3>4 DEF D!IInv, D!TypeOK, D!WindowsOrdered, D!Last
  <2>2. D!NoDayTwice' /\ D!MissedOnlyAcrossMidnight'
    BY DEF D!IInv, D!NoDayTwice, D!MissedOnlyAcrossMidnight, D!Days, D!LastDay, D!Day
  <2>3. D!OnlyFinishedDays'
    BY DEF D!IInv, D!OnlyFinishedDays, D!Day
  <2>4. D!CountInv'
    BY DEF D!CountInv, D!Holding, D!Handed, D!Days, D!LastDay, D!Day
  <2> QED
    BY <2>1, <2>2, <2>3, <2>4 DEF D!IInv
<1> QED
  BY <1>1, <1>2, SourceSteps

LEMMA FileppStep == S!IInv /\ SourceInv /\ F!IInv /\ [Next]_vars => F!IInv'
<1> SUFFICES ASSUME S!IInv, SourceInv, F!IInv, [Next]_vars
             PROVE  F!IInv'
  OBVIOUS
<1>1. CASE F!Next
  BY <1>1, F!NextIInv, VersionAssumption, TimeAssumption
<1>2. CASE FileppWaits
  <2> USE <1>2 DEF FileppWaits, fileppVars
  <2>1. clock \in Nat /\ clock' \in Nat /\ \A n \in 0..clock - 1 : n \in 0..clock' - 1
    BY PastStays DEF F!IInv, F!TypeOK
  <2>2. ASSUME NEW f \in DOMAIN FileppFiles
        PROVE  /\ f \in [tenant : {filepp_tenant}, source : {filepp_id}, stamp : 0..clock' - 1]
               /\ FileppFiles[f] \in Seq(F!Line)
    BY <2>1 DEF F!IInv, F!TypeOK
  <2>3. F!TypeOK'
    BY <2>1, <2>2 DEF F!IInv, F!TypeOK, F!Line
  <2>4. F!DumpsFollowVersions'
    <3>1. F!DumpsFollowVersions
      BY DEF F!IInv
    <3>2. \A v : F!Splices(v)' = F!Splices(v)
      BY DEF F!Splices, F!Splice, F!Cuts
    <3>3. \A f : \A v : F!Holds(f, v)' <=> F!Holds(f, v)
      BY DEF F!Holds, F!Batch
    <3>4. \A text : F!Batch(text)' = F!Batch(text)
      BY DEF F!Batch
    <3> QED
      BY <3>1, <3>2, <3>3, <3>4 DEF F!DumpsFollowVersions, F!Torn
  <2> QED
    BY <2>3, <2>4 DEF F!IInv
<1> QED
  BY <1>1, <1>2, FileppSteps

LEMMA CallsInit == Init => D!HttpInv
BY D!HttpInvInit, TimeAssumption, SameCalls DEF Init

LEMMA CallsStep == D!HttpInv /\ [Next]_vars => D!HttpInv'
<1> SUFFICES ASSUME D!HttpInv, [Next]_vars
             PROVE  D!HttpInv'
  OBVIOUS
<1>1. CASE D!HttpNext
  BY <1>1, D!HttpInvStep, TimeAssumption
<1>2. CASE NewCalls
  BY <1>2, TimeAssumption DEF NewCalls, D!HttpInv, D!HttpTypeOK, D!WaitOK
<1>3. CASE UNCHANGED httpVars
  BY <1>3 DEF httpVars, D!HttpInv, D!HttpTypeOK, D!WaitOK, D!Expired
<1> QED
  BY <1>1, <1>2, <1>3, CallSteps

-------------------------------------------------------------------------------
(* A call changes where it is itself, and what came back to it stays.      *)
LEMMA CallMoves ==
  ASSUME D!HttpInv, NEW g \in Calls, Call(g)
  PROVE  /\ net' = net
         /\ \A h \in Calls \ {g} : calling'[h] = calling[h]
BY DEF Call, D!HttpInv, D!HttpTypeOK, Http!Resolve, Http!Connect,
       Http!Handshake, Http!MoveOn, Http!WriteRequest, Http!StartRead,
       Http!ReadEnds, Http!TimerEnds, Http!Resume

LEMMA IdsCameStep == D!HttpInv /\ IdsCame /\ [Next]_vars => IdsCame'
<1> SUFFICES ASSUME D!HttpInv, IdsCame, [Next]_vars
             PROVE  IdsCame'
  OBVIOUS
<1>1. CASE Fetch
  BY <1>1 DEF Fetch, Discourse!Start, Discourse!Wake, Discourse!Extract, IdsCame
<1>2. ASSUME NEW g \in Calls, Call(g)
      PROVE  IdsCame'
  <2>1. CASE fetching = "reading"
    <3>1. g # "range_url"
      BY <1>2, <2>1 DEF Call, Awaited
    <3>2. calling'["range_url"] = calling["range_url"]
      BY <1>2, <3>1, CallMoves DEF Calls
    <3> QED
      BY <2>1, <3>2 DEF IdsCame
  <2>2. CASE fetching # "reading"
    <3>1. fetching = "searching" /\ g = "range_url"
      BY <1>2, <2>2 DEF Call, Awaited
    <3>2. calling'[g] = "returned" \/ fetching' # "reading"
      BY <1>2, <2>2 DEF Call, GoesOn, Discourse!Fail, discourseVars
    <3> QED
      BY <3>1, <3>2 DEF IdsCame
  <2> QED
    BY <2>1, <2>2
<1>3. CASE UNCHANGED <<fetching, calling>>
  BY <1>3 DEF IdsCame
<1>4. [Next]_vars => \/ Fetch \/ \E g \in Calls : Call(g)
                     \/ UNCHANGED <<fetching, calling>>
  BY DEF Next, Seconds, Network, Tick, Poll, Wake, Supply, Dispatch, AcceptReady,
         SendEnds, Client, httpRest, fileppRest, serverRest, discourseVars, httpVars,
         Http!TimePasses, Http!Answer, Discourse!Tick, Discourse!pollVars, vars
<1> QED
  BY <1>1, <1>2, <1>3, <1>4

LEMMA InvInit == Init => IInv
BY ServerInit, SourceInit, CallsInit, FileppInit DEF IInv, IdsCame, Init, Discourse!Init

LEMMA InvStep == IInv /\ [Next]_vars => IInv'
BY ServerStep, SourceStep, CallsStep, FileppStep, IdsCameStep DEF IInv

LEMMA Invariance == Spec => []IInv
BY InvInit, InvStep, PTL DEF Spec


-------------------------------------------------------------------------------
(* What a component keeps alone it keeps in the program, each in its own   *)
(* part of the dump: no request of a configured route is told 404, reviews *)
(* are stored once and under the ids of their source; no day is fetched    *)
(* twice, none is missed but across a midnight, only days that are over    *)
(* are dumped, each in one file; the files of the filepp source follow the *)
(* versions; and no call returns a part of a response.                     *)
THEOREM ComponentsKeep ==
  Spec => [](/\ S!ConfiguredRouteNever404 /\ S!TenantIsolation /\ S!ReviewsStoredOnce
             /\ D!NoDayTwice /\ D!MissedOnlyAcrossMidnight
             /\ D!OnlyFinishedDays /\ D!DumpedOncePerProcess
             /\ F!DumpsFollowVersions
             /\ Http!ReturnsWholeResponse)
<1>1. S!IInv => S!ConfiguredRouteNever404 /\ S!TenantIsolation /\ S!ReviewsStoredOnce
  BY DEF S!IInv, S!SessionsOK, S!SessionOK, S!DumpOK, S!ConfiguredRouteNever404
<1>2. SourceInv => /\ D!NoDayTwice /\ D!MissedOnlyAcrossMidnight
                   /\ D!OnlyFinishedDays /\ D!DumpedOncePerProcess
  BY D!CountedOnce, TimeAssumption DEF SourceInv, D!IInv
<1>3. F!IInv => F!DumpsFollowVersions
  BY DEF F!IInv
<1>4. D!HttpInv => Http!ReturnsWholeResponse
  BY DEF D!HttpInv, D!WaitOK, Http!ReturnsWholeResponse
<1>5. IInv => /\ S!ConfiguredRouteNever404 /\ S!TenantIsolation /\ S!ReviewsStoredOnce
              /\ D!NoDayTwice /\ D!MissedOnlyAcrossMidnight
              /\ D!OnlyFinishedDays /\ D!DumpedOncePerProcess
              /\ F!DumpsFollowVersions
              /\ Http!ReturnsWholeResponse
  BY <1>1, <1>2, <1>3, <1>4 DEF IInv
<1> QED
  BY <1>5, Invariance, PTL
(* A window is handed to the sink only when both calls of its fetch have   *)
(* had a whole response in time, and never after the source has crashed.   *)
THEOREM AnswersLoaded == Spec => OnlyAnswersLoaded
<1>1. IInv /\ IInv' /\ [Next]_vars =>
        [loaded' # loaded => /\ \A g \in Calls : net[g] = "answered"
                             /\ fetching # "crashed"]_vars
  <2> SUFFICES ASSUME IInv, IInv', [Next]_vars, loaded' # loaded
               PROVE  (\A g \in Calls : net[g] = "answered") /\ fetching # "crashed"
    OBVIOUS
  <2>1. PICK g \in Calls : Call(g)
    BY DEF Next, Fetch, Discourse!Start, Discourse!Wake, Seconds, Network, Tick, Poll,
           Wake, Supply, Dispatch, AcceptReady, SendEnds, Client, httpRest, fileppRest,
           serverRest, discourseVars, Discourse!Tick, Discourse!pollVars, vars
  <2>2. fetching = "reading" /\ calling'[g] = "returned"
    BY <2>1 DEF Call, GoesOn, Discourse!GetPostIds, Discourse!Load, Discourse!Fail,
                discourseVars
  <2>3. g = "post_ids_url" /\ Calls = {"range_url", g}
    BY <2>1, <2>2 DEF Call, Awaited, Calls
  <2>4. net'[g] = "answered"
    BY <2>1, <2>2 DEF IInv, D!HttpInv, D!WaitOK
  <2>5. net["range_url"] = "answered"
    BY <2>2 DEF IInv, IdsCame, D!HttpInv, D!WaitOK, Calls
  <2> QED
    BY <2>1, <2>2, <2>3, <2>4, <2>5, CallMoves DEF IInv
<1> QED
  BY <1>1, Invariance, PTL DEF Spec, OnlyAnswersLoaded


(* The promise to the clients of the server is kept in the program too:    *)
(* answered at most once, stored only after a 200, and what is stored      *)
(* stays, whatever the other sources write in between.                     *)
THEOREM DeliveryKept == Spec => S!ImplementsDelivery
<1>1. Init => S!Delivery!Init
  <2> SUFFICES ASSUME Init
               PROVE  S!Delivery!Init
    OBVIOUS
  <2>1. DOMAIN ServerFiles = {} /\ reply = [c \in Conn |-> 0]
    BY DEF Init, Server!Init, Server!SinkInit, ServerFiles, FilesOf
  <2> QED
    BY <2>1 DEF S!Stored, S!Delivery!Init
<1>2. IInv /\ IInv' /\ [Next]_vars => [S!Delivery!Next]_<<reply, S!Stored>>
  <2> SUFFICES ASSUME IInv, IInv', [Next]_vars
               PROVE  [S!Delivery!Next]_<<reply, S!Stored>>
    OBVIOUS
  <2>1. CASE S!Next
    BY <2>1, S!DeliveryStep, ServerAssumption DEF IInv
  <2>2. CASE ServerWaits
    BY <2>2 DEF ServerWaits, serverVars, S!Stored, S!Holds
  <2> QED
    BY <2>1, <2>2, ServerSteps DEF IInv
<1> QED
  BY <1>1, <1>2, Invariance, PTL DEF Spec, S!ImplementsDelivery, S!Delivery!Spec

(* On a disk that works every day of every window the discourse source     *)
(* handed to the sink is in the dump, in files no other source touches.    *)
THEOREM DaysReachDump ==
  ASSUME "disk" \notin Faults
  PROVE  Spec => []D!LoadedIsDumped
<1>1. Init => D!DumpInv
  <2> SUFFICES ASSUME Init
               PROVE  D!DumpInv
    OBVIOUS
  <2>1. DOMAIN SourceFiles = {} /\ clock = 0 /\ loaded = <<>>
    BY DEF Init, Discourse!Init, Discourse!SinkInit, SourceFiles, FilesOf
  <2> QED
    BY <2>1 DEF D!DumpInv, D!StampsPast, D!LoadedIsDumped
<1>2. IInv /\ D!DumpInv /\ [Next]_vars => D!DumpInv'
  <2> SUFFICES ASSUME IInv, D!DumpInv, [Next]_vars
               PROVE  D!DumpInv'
    OBVIOUS
  <2>1. CASE D!Next
    BY <2>1, D!DumpStep, TimeAssumption DEF IInv, SourceInv, D!IInv
  <2>2. CASE SourceWaits
    BY <2>2 DEF SourceWaits, discourseVars, Passes, D!DumpInv, D!StampsPast,
                D!LoadedIsDumped, D!Days, D!LastDay, D!Day
  <2> QED
    BY <2>1, <2>2, SourceSteps DEF IInv
<1>3. D!DumpInv => D!LoadedIsDumped
  BY DEF D!DumpInv
<1> QED
  BY <1>1, <1>2, <1>3, Invariance, PTL DEF Spec


-------------------------------------------------------------------------------
(* A file of the dump is of one of the program's sources, holds lines of   *)
(* that source and of one tenant, those of its name, and is stamped in the *)
(* past.                                                                   *)
Labelled(f) ==
  /\ f.source \in Source \cup {discourse_id, filepp_id}
  /\ f.stamp \in Nat /\ f.stamp < clock
  /\ \A i \in DOMAIN files[f] :
       files[f][i].source_id = f.source /\ files[f][i].tenant_id = f.tenant

FilesLabelled == clock \in Nat /\ \A f \in DOMAIN files : Labelled(f)

(* What is in the dump stays there, and as it is.                          *)
DumpStays == \A f \in DOMAIN files : f \in DOMAIN files' /\ files'[f] = files[f]

(* Whoever writes, whatever becomes of it.                                 *)
LEMMA SinkWrites ==
  ASSUME FilesLabelled, NEW id \in Source \cup {discourse_id, filepp_id},
         NEW b, LinesOf(b, id), Writes(b)
  PROVE  FilesLabelled' /\ DumpStays
<1>1. ASSUME UNCHANGED files, Passes
      PROVE  FilesLabelled' /\ DumpStays
  BY <1>1 DEF FilesLabelled, Labelled, DumpStays, Passes
<1>2. ASSUME NEW content \in {b, Sink!Torn}, Sink!Create(b, content)
      PROVE  FilesLabelled' /\ DumpStays
  <2> PICK name : name = [tenant |-> Head(b).tenant_id, source |-> Head(b).source_id,
                          stamp |-> clock]
    OBVIOUS
  <2>1. /\ clock \in Nat /\ clock' = clock + 1
        /\ files' = [f \in DOMAIN files \cup {name} |->
                       IF f = name THEN content ELSE files[f]]
    BY <1>2 DEF FilesLabelled, Sink!Create, Sink!Put, Sink!FileName
  <2>2. /\ name.stamp = clock /\ name.source = Head(b).source_id
        /\ name.tenant = Head(b).tenant_id /\ name.source = id
    BY <1>2 DEF Sink!Create, LinesOf
  <2>3. \A i \in DOMAIN content :
          content[i].source_id = Head(b).source_id /\ content[i].tenant_id = Head(b).tenant_id
    BY DEF LinesOf, Sink!Torn
  <2>4. name \notin DOMAIN files
    BY <2>1, <2>2 DEF FilesLabelled, Labelled
  <2>5. DOMAIN files' = DOMAIN files \cup {name} /\ files'[name] = content
    BY <2>1
  <2>6. \A f \in DOMAIN files : files'[f] = files[f]
    BY <2>1, <2>4
  <2>7. Labelled(name)'
    BY <2>1, <2>2, <2>3, <2>5 DEF Labelled
  <2>8. \A f \in DOMAIN files : Labelled(f)'
    BY <2>1, <2>6 DEF FilesLabelled, Labelled
  <2> QED
    BY <2>1, <2>5, <2>6, <2>7, <2>8 DEF FilesLabelled, DumpStays
<1> QED
  BY <1>1, <1>2 DEF Writes, Sink!Write, Sink!WriteThrows, Sink!sinkVars, Passes

LEMMA DumpInit == Init => FilesLabelled
BY DEF Init, Filepp!Init, Filepp!SinkInit, FilesLabelled

LEMMA DumpStep ==
  ASSUME IInv, FilesLabelled, [Next]_vars
  PROVE  FilesLabelled' /\ DumpStays
<1> DEFINE ids == Source \cup {discourse_id, filepp_id}
<1>1. CASE UNCHANGED sinkVars
  BY <1>1 DEF sinkVars, FilesLabelled, Labelled, DumpStays
<1>2. CASE \E id \in ids : \E b : LinesOf(b, id) /\ Writes(b)
  BY <1>2, SinkWrites
<1>3. UNCHANGED sinkVars \/ \E id \in ids : \E b : LinesOf(b, id) /\ Writes(b)
  <2>1. ASSUME NEW g \in Calls, Call(g)
        PROVE  UNCHANGED sinkVars \/ \E id \in ids : \E b : LinesOf(b, id) /\ Writes(b)
    BY <2>1, SourceSink DEF IInv
  <2>2. CASE Poll
    BY <2>2, FileppSink DEF IInv
  <2>3. CASE Dispatch
    BY <2>3, ServerSink, StoreSink DEF IInv
  <2> QED
    BY <2>1, <2>2, <2>3, QuietSteps DEF Next
<1> QED
  BY <1>1, <1>2, <1>3

LEMMA DumpInvariance == Spec => [](IInv /\ FilesLabelled)
<1>1. IInv /\ FilesLabelled /\ [Next]_vars => FilesLabelled'
  BY DumpStep
<1> QED
  BY <1>1, Invariance, DumpInit, PTL DEF Spec

(* No file of the dump mixes sources or tenants, or has a name that is not *)
(* theirs, whichever of the sources that share the sink wrote it; so the   *)
(* parts the components keep are the whole of it.                          *)
THEOREM DumpLabelled == Spec => []FilesLabelled
BY DumpInvariance, PTL

(* And no source overwrites a file of its own or of another: the names are *)
(* told apart by the clock alone.                                          *)
THEOREM NothingOverwritten == Spec => [][DumpStays]_vars
<1>1. IInv /\ FilesLabelled /\ [Next]_vars => [DumpStays]_vars
  BY DumpStep
<1> QED
  BY <1>1, DumpInvariance, PTL DEF Spec
===============================================================================
