------------------------- MODULE PushIngestionProofs -------------------------
(***************************************************************************)
(* Proofs about PushIngestion, for any number of sources, tenants, routes, *)
(* clients, crashes and any of the faults.                                 *)
(***************************************************************************)
EXTENDS PushIngestion, TLAPS

N == Len(StartOrder)

(* routes is what the first k sources make of it.                          *)
RoutesUpTo(k) ==
  \A path \in Route :
    \/ /\ routes[path] = NoSource
       /\ \A j \in 1..k : RouteOf[StartOrder[j]] # path
    \/ \E i \in 1..k :
         /\ routes[path] = StartOrder[i]
         /\ RouteOf[StartOrder[i]] = path
         /\ \A j \in i + 1..k : RouteOf[StartOrder[j]] # path

(* Until the accept loop first runs, the queue is what is left of the      *)
(* initial one, and nobody is connected.                                   *)
Booting ==
  server = "spawned" =>
    /\ Len(ready) \in 1..N + 1
    /\ \A i \in 1..Len(ready) : ready[i] = InitialTasks[N + 1 - Len(ready) + i]
    /\ RoutesUpTo(N + 1 - Len(ready))
    /\ \A c \in Conn : at[c] \in {"unopened", "closed"}

(* From then on all the sources have started.                              *)
Serving ==
  server # "spawned" =>
    /\ \A i \in 1..Len(ready) : ready[i] \notin Source
    /\ RoutesUpTo(N)

BacklogOK ==
  /\ \A i \in 1..Len(backlog) : at[backlog[i]] = "backlog"
  /\ \A i, j \in 1..Len(backlog) : backlog[i] = backlog[j] => i = j
  /\ server = "accepted" => backlog # <<>>

Undecided == {"unopened", "backlog", "reading", "read", "readfailed"}

(* A session's code agrees with its request and with the loader file.      *)
SessionOK(c) ==
  /\ at[c] \in Undecided => status[c] = 0
  /\ status[c] = 404 => \A s \in Source : RouteOf[s] # req[c].route
  /\ status[c] \in {200, 403} => Owns(handler[c], req[c].route)
  /\ status[c] = 200 => req[c].body # "bad_token"
  /\ at[c] \in Undecided \cup {"sending"} => reply[c] = 0
  /\ at[c] = "sent" => reply[c] = status[c]

SessionsOK == \A c \in Conn : SessionOK(c)

(* Only a session that has ended has its reviews in a file.                *)
HeldOnlyIfClosed == \A f \in DOMAIN files : \A c \in Conn : Holds(f, c) => at[c] = "closed"

DumpOK == TenantIsolation /\ ReviewsStoredOnce /\ HeldOnlyIfClosed

IInv == TypeOK /\ Booting /\ Serving /\ BacklogOK /\ SessionsOK /\ DumpOK
-------------------------------------------------------------------------------
(* What the sink does with a batch: no new file, or one with the batch or  *)
(* with nothing in it.                                                     *)
NoFile == UNCHANGED files /\ clock' \in {clock, clock + 1}

NewFile(batch) == Create(batch, batch) \/ Create(batch, Torn)

LEMMA SinkCases ==
  ASSUME NEW batch, Write(batch) \/ WriteThrows(batch)
  PROVE  NoFile \/ NewFile(batch)
BY DEF Write, WriteThrows, NoFile, NewFile, sinkVars

(* A batch has at most one line, made of the ids of the source it is for.  *)
LEMMA BatchLines ==
  ASSUME NEW c \in Conn, handler[c] \in Source
  PROVE  /\ Batch(c) \in Seq(Line)
         /\ \A i \in DOMAIN Batch(c) :
              Batch(c)[i] = [source_id |-> handler[c], tenant_id |-> TenantOf[handler[c]],
                             entry |-> c]
         /\ Batch(c) # <<>> => FileName(Batch(c), clock) =
              [tenant |-> TenantOf[handler[c]], source |-> handler[c], stamp |-> clock]
<1> DEFINE line == [source_id |-> handler[c], tenant_id |-> TenantOf[handler[c]], entry |-> c]
<1>1. TenantOf[handler[c]] \in Tenant
  BY LoaderFileAssumption
<1>2. line \in Line
  BY <1>1 DEF Line
<1>3. Batch(c) = <<>> \/ Batch(c) = <<line>>
  BY DEF Batch
<1>4. CASE Batch(c) = <<>>
  BY <1>4
<1>5. CASE Batch(c) = <<line>>
  <2>1. <<line>> \in Seq(Line)
    BY <1>2
  <2>2. DOMAIN <<line>> = {1} /\ <<line>>[1] = line /\ Head(<<line>>) = line
    OBVIOUS
  <2> QED
    BY <1>5, <2>1, <2>2 DEF FileName
<1> QED
  BY <1>3, <1>4, <1>5

(* The step adds one file, named and filled for the source that took c.    *)
Adds(c, name) ==
  /\ name = [tenant |-> TenantOf[handler[c]], source |-> handler[c], stamp |-> clock]
  /\ name \notin DOMAIN files
  /\ DOMAIN files' = DOMAIN files \cup {name}
  /\ files' = [f \in DOMAIN files' |-> files'[f]]
  /\ \A f \in DOMAIN files : files'[f] = files[f]
  /\ files'[name] \in Seq(Line)
  /\ \A i \in DOMAIN files'[name] :
       files'[name][i] = [source_id |-> handler[c], tenant_id |-> TenantOf[handler[c]],
                          entry |-> c]
  /\ clock' = clock + 1

LEMMA NewFileContent ==
  ASSUME DumpTypeOK, NEW c \in Conn, handler[c] \in Source, NewFile(Batch(c))
  PROVE  \E name \in [tenant : Tenant, source : Source, stamp : Nat] : Adds(c, name)
<1> DEFINE name == [tenant |-> TenantOf[handler[c]], source |-> handler[c], stamp |-> clock]
<1>1. PICK content \in {Batch(c), Torn} : Create(Batch(c), content)
  BY DEF NewFile
<1>2. FileName(Batch(c), clock) = name
  BY <1>1, BatchLines DEF Create
<1>3. /\ files' = [f \in DOMAIN files \cup {name} |-> IF f = name THEN content ELSE files[f]]
      /\ clock' = clock + 1
  BY <1>1, <1>2 DEF Create, Put
<1>4. /\ content \in Seq(Line)
      /\ \A i \in DOMAIN content :
           content[i] = [source_id |-> handler[c], tenant_id |-> TenantOf[handler[c]],
                         entry |-> c]
  <2>1. CASE content = Torn
    BY <2>1 DEF Torn
  <2>2. CASE content = Batch(c)
    BY <2>2, BatchLines
  <2> QED
    BY <2>1, <2>2
<1>5. name \in [tenant : Tenant, source : Source, stamp : Nat]
  BY LoaderFileAssumption DEF DumpTypeOK
<1>6. name \notin DOMAIN files
  BY DEF DumpTypeOK
<1>7. /\ DOMAIN files' = DOMAIN files \cup {name}
      /\ files' = [f \in DOMAIN files' |-> files'[f]]
      /\ files'[name] = content
      /\ \A f \in DOMAIN files : files'[f] = files[f]
  BY <1>3, <1>6
<1> QED
  BY <1>3, <1>4, <1>5, <1>6, <1>7 DEF Adds

-------------------------------------------------------------------------------
LEMMA InitialTasksFacts ==
  /\ N \in Nat
  /\ InitialTasks \in Seq(Task)
  /\ Len(InitialTasks) = N + 1
  /\ \A i \in 1..N : InitialTasks[i] = StartOrder[i] /\ StartOrder[i] \in Source
  /\ InitialTasks[N + 1] = AcceptLoop
<1>1. StartOrder \in Seq(Source)
  BY LoaderFileAssumption
<1>2. StartOrder \in Seq(Task) /\ AcceptLoop \in Task
  BY <1>1 DEF Task
<1> QED
  BY <1>1, <1>2 DEF InitialTasks, N

LEMMA SourceOfDecided ==
  ASSUME LoopTypeOK, SessionsOK, NEW c \in Conn, status[c] \in {200, 403}
  PROVE  handler[c] \in Source
BY InitialTasksFacts DEF SessionsOK, SessionOK, Owns, N

LEMMA DumpTypeStep ==
  ASSUME DumpTypeOK, NEW c \in Conn, handler[c] \in Source,
         NoFile \/ NewFile(Batch(c))
  PROVE  DumpTypeOK'
<1>1. CASE NoFile
  BY <1>1 DEF DumpTypeOK, NoFile
<1>2. CASE NewFile(Batch(c))
  <2>1. PICK name \in [tenant : Tenant, source : Source, stamp : Nat] : Adds(c, name)
    BY <1>2, NewFileContent
  <2>2. name.stamp = clock /\ clock \in Nat
    BY <2>1 DEF DumpTypeOK, Adds
  <2>3. ASSUME NEW f \in DOMAIN files
        PROVE  /\ f \in [tenant : Tenant, source : Source, stamp : Nat]
               /\ f.stamp < clock'
               /\ files'[f] \in Seq(Line)
    <3>1. f.stamp \in Nat /\ f.stamp < clock
      BY DEF DumpTypeOK
    <3> QED
      BY <2>1, <2>2, <3>1 DEF DumpTypeOK, Adds
  <2> QED
    BY <2>1, <2>2, <2>3 DEF DumpTypeOK, Adds
<1> QED
  BY <1>1, <1>2

LEMMA TypeInit == Init => TypeOK
BY InitialTasksFacts DEF Init, TypeOK, LoopTypeOK, DumpTypeOK, SinkInit, NoRoutes, Phase

LEMMA CompleteType ==
  ASSUME NEW t \in Task, ready \in Seq(Task), Complete(t)
  PROVE  ready' \in Seq(Task)
BY DEF Complete

LEMMA SuspendType ==
  ASSUME ready \in Seq(Task), ready # <<>>, Suspend
  PROVE  ready' \in Seq(Task)
BY DEF Suspend

LEMMA LoopTypeStep ==
  ASSUME LoopTypeOK, BacklogOK, [Next]_vars
  PROVE  LoopTypeOK'
<1> USE DEF LoopTypeOK
<1>0. CASE UNCHANGED vars
  BY <1>0 DEF vars, pushVars
<1>1. ASSUME NEW s \in Source, StartSource(s)
      PROVE  LoopTypeOK'
  <2>1. RouteOf[s] \in Route
    BY LoaderFileAssumption
  <2> QED
    BY <1>1, <2>1 DEF StartSource, Running, RegisterRoute, Suspend
<1>2. CASE StartServer
  BY <1>2 DEF StartServer, Running, Suspend
<1>3. CASE Accept
  <2>1. backlog # <<>>
    BY <1>3 DEF Accept, BacklogOK
  <2>2. Tail(backlog) \in Seq(Conn)
    BY <2>1
  <2>3. [at EXCEPT ![Head(backlog)] = "reading"] \in [Conn -> Phase]
    BY DEF Phase
  <2> QED
    BY <1>3, <2>2, <2>3, SuspendType DEF Accept, Running
<1>4. CASE AcceptFails
  BY <1>4 DEF AcceptFails, Running, Suspend, Phase
<1>5. ASSUME NEW c \in Conn, Session(c)
      PROVE  LoopTypeOK'
  <2>1. CASE ReadFails(c)
    BY <2>1 DEF ReadFails, Running, Suspend, Phase
  <2>2. CASE Handle(c)
    <3>1. req[c].route \in Route
      BY DEF Request
    <3>2. handler' \in [Conn -> Source \cup {NoSource}]
      BY <2>2, <3>1 DEF Handle
    <3>3. (\E v \in {200, 403, 404} : Respond(c, v)) \/ GiveUp(c)
      BY <2>2 DEF Handle, Answer
    <3>4. ASSUME NEW v \in {200, 403, 404}, Respond(c, v)
          PROVE  status' \in [Conn -> {0, 200, 403, 404}] /\ at' \in [Conn -> Phase]
      BY <3>4 DEF Respond, Phase
    <3>5. ASSUME GiveUp(c)
          PROVE  status' \in [Conn -> {0, 200, 403, 404}] /\ at' \in [Conn -> Phase]
      BY <3>5 DEF GiveUp, Phase
    <3>6. status' \in [Conn -> {0, 200, 403, 404}] /\ at' \in [Conn -> Phase]
      BY <3>3, <3>4, <3>5
    <3>7. ready' \in Seq(Task)
      BY <2>2, SuspendType DEF Handle, Running
    <3> QED
      BY <2>2, <3>2, <3>6, <3>7 DEF Handle
  <2>3. CASE Finish(c)
    BY <2>3 DEF Finish, Running, Suspend, Phase
  <2>4. CASE Store(c)
    BY <2>4 DEF Store, Storing, Running, Suspend, Phase
  <2> QED
    BY <1>5, <2>1, <2>2, <2>3, <2>4 DEF Session
<1>6. CASE AcceptReady
  BY <1>6 DEF AcceptReady, Complete, Task
<1>7. ASSUME NEW c \in Conn, Connect(c)
      PROVE  LoopTypeOK'
  BY <1>7 DEF Connect, Phase
<1>8. ASSUME NEW c \in Conn, Receive(c) \/ Disconnect(c)
      PROVE  LoopTypeOK'
  <2>1. ready' \in Seq(Task)
    BY <1>8, CompleteType DEF Receive, Disconnect, Task
  <2> QED
    BY <1>8, <2>1 DEF Receive, Disconnect, Phase
<1>9. ASSUME NEW c \in Conn, SendDone(c) \/ SendFails(c)
      PROVE  LoopTypeOK'
  <2>1. ready' \in Seq(Task)
    BY <1>9, CompleteType DEF SendDone, SendFails, Task
  <2> QED
    <3>1. CASE SendDone(c)
      <4>1. /\ status[c] \in {0, 200, 403, 404}
            /\ [at EXCEPT ![c] = "sent"] \in [Conn -> Phase]
        BY DEF Phase
      <4>2. [reply EXCEPT ![c] = status[c]] \in [Conn -> {0, 200, 403, 404}]
        BY <4>1
      <4> QED
        BY <2>1, <3>1, <4>1, <4>2 DEF SendDone
    <3>2. CASE SendFails(c)
      BY <2>1, <3>2 DEF SendFails, Phase
    <3> QED
      BY <1>9, <3>1, <3>2
<1>10. CASE Crash
  BY <1>10, InitialTasksFacts DEF Crash, NoRoutes, Phase
<1> QED
  BY <1>0, <1>1, <1>2, <1>3, <1>4, <1>5, <1>6, <1>7, <1>8, <1>9, <1>10 DEF Next, Dispatch

-------------------------------------------------------------------------------
(* Starting the sources.                                                   *)
LEMMA HeadOfQueue ==
  ASSUME ready \in Seq(Task), NEW t, Running(t)
  PROVE  Len(ready) \in Nat \ {0} /\ ready[1] = t
BY DEF Running

(* The next source registers its route.                                    *)
LEMMA RegisterStep ==
  ASSUME LoopTypeOK, NEW k \in 0..N - 1, RoutesUpTo(k),
         RegisterRoute(RouteOf[StartOrder[k + 1]], StartOrder[k + 1])
  PROVE  RoutesUpTo(k + 1)'
<1> DEFINE s == StartOrder[k + 1]
<1>1. k \in Nat /\ k + 1 \in 1..N /\ N \in Nat
  BY InitialTasksFacts
<1>2. s \in Source /\ RouteOf[s] \in Route
  BY <1>1, InitialTasksFacts, LoaderFileAssumption
<1>3. ASSUME NEW path \in Route
      PROVE  routes'[path] = IF path = RouteOf[s] THEN s ELSE routes[path]
  BY <1>2 DEF RegisterRoute, LoopTypeOK
<1>4. ASSUME NEW path \in Route, path # RouteOf[s]
      PROVE  \/ /\ routes'[path] = NoSource
                /\ \A j \in 1..k + 1 : RouteOf[StartOrder[j]] # path
             \/ \E i \in 1..k + 1 :
                  /\ routes'[path] = StartOrder[i]
                  /\ RouteOf[StartOrder[i]] = path
                  /\ \A j \in i + 1..k + 1 : RouteOf[StartOrder[j]] # path
  <2>1. \A j \in 1..k + 1 : j = k + 1 \/ j \in 1..k
    BY <1>1
  <2>2. CASE \E i \in 1..k :
               /\ routes[path] = StartOrder[i]
               /\ RouteOf[StartOrder[i]] = path
               /\ \A j \in i + 1..k : RouteOf[StartOrder[j]] # path
    <3>1. PICK i \in 1..k :
               /\ routes[path] = StartOrder[i]
               /\ RouteOf[StartOrder[i]] = path
               /\ \A j \in i + 1..k : RouteOf[StartOrder[j]] # path
      BY <2>2
    <3>2. i \in 1..k + 1 /\ \A j \in i + 1..k + 1 : j = k + 1 \/ j \in i + 1..k
      BY <1>1
    <3> QED
      BY <1>3, <1>4, <3>1, <3>2
  <2>3. CASE /\ routes[path] = NoSource
             /\ \A j \in 1..k : RouteOf[StartOrder[j]] # path
    BY <1>3, <1>4, <2>1, <2>3
  <2> QED
    BY <2>2, <2>3 DEF RoutesUpTo
<1>5. /\ routes'[RouteOf[s]] = StartOrder[k + 1]
      /\ \A j \in k + 1 + 1..k + 1 : FALSE
  BY <1>1, <1>2, <1>3
<1> QED
  BY <1>1, <1>4, <1>5 DEF RoutesUpTo

LEMMA BootingInit == Init => Booting /\ Serving
<1> SUFFICES ASSUME Init
             PROVE  Booting /\ Serving
  OBVIOUS
<1>1. RoutesUpTo(0)
  BY DEF Init, NoRoutes, RoutesUpTo
<1>2. N + 1 - Len(ready) = 0 /\ Len(ready) \in 1..N + 1
  BY InitialTasksFacts DEF Init
<1> QED
  BY <1>1, <1>2 DEF Init, Booting, Serving

(* Once the accept loop runs, nothing starts a source again.               *)
LEMMA ServingGoesOn ==
  ASSUME LoopTypeOK, Serving, server # "spawned", server' # "spawned", routes' = routes,
         \/ ready' = ready
         \/ ready # <<>> /\ Suspend
         \/ \E t \in Conn \cup {AcceptLoop} : Complete(t)
  PROVE  Booting' /\ Serving'
<1>1. /\ \A i \in 1..Len(ready) : ready[i] \notin Source
      /\ RoutesUpTo(N)'
  BY DEF Serving, RoutesUpTo
<1>2. \A i \in 1..Len(ready') : ready'[i] \notin Source
  <2>1. CASE ready # <<>> /\ Suspend
    <3>1. /\ Len(ready') = Len(ready) - 1
          /\ \A i \in 1..Len(ready') : ready'[i] = ready[i + 1]
      BY <2>1 DEF Suspend, LoopTypeOK
    <3> QED
      BY <1>1, <2>1, <3>1 DEF LoopTypeOK
  <2>2. ASSUME NEW t \in Conn \cup {AcceptLoop}, Complete(t)
        PROVE  \A i \in 1..Len(ready') : ready'[i] \notin Source
    <3>1. t \in Task /\ t \notin Source
      BY TaskAssumption DEF Task
    <3>2. /\ Len(ready') = Len(ready) + 1
          /\ \A i \in 1..Len(ready') :
               ready'[i] = IF i = Len(ready) + 1 THEN t ELSE ready[i]
      BY <2>2, <3>1 DEF Complete, LoopTypeOK
    <3> QED
      BY <1>1, <3>1, <3>2 DEF LoopTypeOK
  <2> QED
    BY <1>1, <2>1, <2>2
<1> QED
  BY <1>1, <1>2 DEF Booting, Serving

LEMMA BootingStep ==
  ASSUME LoopTypeOK, Booting, Serving, BacklogOK, [Next]_vars
  PROVE  Booting' /\ Serving'
<1> DEFINE k == N + 1 - Len(ready)
<1>0. CASE UNCHANGED vars
  BY <1>0 DEF vars, pushVars, Booting, Serving, RoutesUpTo
<1>1. ASSUME NEW s \in Source, StartSource(s)
      PROVE  Booting' /\ Serving'
  <2>1. Len(ready) \in Nat \ {0} /\ ready[1] = s
    BY <1>1, HeadOfQueue DEF StartSource, LoopTypeOK
  <2>2. server = "spawned"
    BY <2>1 DEF Serving
  <2>3. /\ Len(ready) \in 1..N + 1
        /\ \A i \in 1..Len(ready) : ready[i] = InitialTasks[k + i]
        /\ RoutesUpTo(k)
        /\ \A c \in Conn : at[c] \in {"unopened", "closed"}
    BY <2>2 DEF Booting
  <2>4. s = InitialTasks[k + 1] /\ k + 1 # N + 1
    BY <2>1, <2>3, InitialTasksFacts, TaskAssumption
  <2>5. PICK m \in 0..N - 1 : m = k /\ s = StartOrder[m + 1]
    BY <2>3, <2>4, InitialTasksFacts
  <2>6. /\ Len(ready') = Len(ready) - 1
        /\ \A i \in 1..Len(ready') : ready'[i] = ready[i + 1]
    BY <1>1, <2>1 DEF StartSource, Suspend, Running, LoopTypeOK
  <2>7. RoutesUpTo(m + 1)'
    BY <1>1, <2>3, <2>5, RegisterStep DEF StartSource
  <2>8. /\ N + 1 - Len(ready') = m + 1
        /\ Len(ready') \in 1..N + 1
        /\ \A i \in 1..Len(ready') : ready'[i] = InitialTasks[m + 1 + i]
    <3>1. N \in Nat /\ Len(ready) = N + 1 - m /\ Len(ready') = N - m
      BY <2>1, <2>5, <2>6, InitialTasksFacts
    <3>2. ASSUME NEW i \in 1..Len(ready')
          PROVE  ready'[i] = InitialTasks[m + 1 + i]
      <4>1. i + 1 \in 1..Len(ready) /\ k + (i + 1) = m + 1 + i
        BY <2>5, <3>1
      <4> QED
        BY <2>3, <2>6, <4>1
    <3> QED
      BY <3>1, <3>2
  <2>9. server' = server /\ at' = at
    BY <1>1 DEF StartSource
  <2> QED
    BY <2>2, <2>3, <2>7, <2>8, <2>9 DEF Booting, Serving
<1>2. CASE StartServer
  <2>1. /\ Len(ready) \in Nat \ {0} /\ ready[1] = AcceptLoop
        /\ server = "spawned"
    BY <1>2, HeadOfQueue DEF StartServer, LoopTypeOK
  <2>2. /\ Len(ready) \in 1..N + 1
        /\ AcceptLoop = InitialTasks[k + 1]
        /\ RoutesUpTo(k)
    BY <2>1 DEF Booting
  <2>3. Len(ready) = 1 /\ k = N
    <3>1. k \in 0..N
      BY <2>2, InitialTasksFacts
    <3>2. ASSUME NEW i \in 1..N, i = k + 1
          PROVE  FALSE
      <4>1. InitialTasks[i] = AcceptLoop
        BY <2>2, <3>2
      <4>2. InitialTasks[i] \in Source
        BY InitialTasksFacts
      <4> QED
        BY <4>1, <4>2, TaskAssumption
    <3>3. N \in Nat /\ (k \in 0..N - 1 => k + 1 \in 1..N)
      BY InitialTasksFacts
    <3>4. k \notin 0..N - 1
      BY <3>2, <3>3
    <3> HIDE DEF k
    <3>5. k = N
      BY <3>1, <3>3, <3>4
    <3>6. Len(ready) = N + 1 - k
      BY <2>2, <3>3 DEF k
    <3> QED
      BY <3>3, <3>5, <3>6
  <2>4. Len(ready') = 0 /\ server' # "spawned" /\ routes' = routes
    BY <1>2, <2>1, <2>3 DEF StartServer, Suspend, Running, LoopTypeOK
  <2>5. RoutesUpTo(N)'
    BY <2>2, <2>3, <2>4 DEF RoutesUpTo
  <2> QED
    BY <2>4, <2>5 DEF Booting, Serving
<1>3. CASE Accept \/ AcceptFails
  <2>1. /\ server # "spawned" /\ server' # "spawned"
        /\ routes' = routes /\ ready # <<>> /\ Suspend
    BY <1>3 DEF Accept, AcceptFails, Running
  <2> QED
    BY <2>1, ServingGoesOn
<1>4. CASE AcceptReady
  <2>1. /\ server # "spawned" /\ server' # "spawned"
        /\ routes' = routes /\ Complete(AcceptLoop)
    BY <1>4 DEF AcceptReady
  <2> QED
    BY <2>1, ServingGoesOn
<1>5. ASSUME NEW c \in Conn, Session(c)
      PROVE  Booting' /\ Serving'
  <2>1. /\ at[c] \notin {"unopened", "closed"} /\ server' = server
        /\ routes' = routes /\ ready # <<>> /\ Suspend
    BY <1>5 DEF Session, ReadFails, Handle, Finish, Store, Storing, Running
  <2>2. server # "spawned"
    BY <2>1 DEF Booting
  <2> QED
    BY <2>1, <2>2, ServingGoesOn
<1>6. ASSUME NEW c \in Conn, Connect(c)
      PROVE  Booting' /\ Serving'
  <2>1. /\ server # "spawned" /\ server' = server
        /\ routes' = routes /\ ready' = ready
    BY <1>6 DEF Connect, Listening
  <2> QED
    BY <2>1, ServingGoesOn
<1>7. ASSUME NEW c \in Conn, Receive(c) \/ Disconnect(c) \/ SendDone(c) \/ SendFails(c)
      PROVE  Booting' /\ Serving'
  <2>1. /\ at[c] \notin {"unopened", "closed"} /\ server' = server
        /\ routes' = routes /\ Complete(c)
    BY <1>7 DEF Receive, Disconnect, SendDone, SendFails
  <2>2. server # "spawned"
    BY <2>1 DEF Booting
  <2> QED
    BY <2>1, <2>2, ServingGoesOn
<1>8. CASE Crash
  <2>1. /\ server' = "spawned" /\ ready' = InitialTasks /\ routes' = NoRoutes
        /\ \A c \in Conn : at'[c] \in {"unopened", "closed"}
    BY <1>8 DEF Crash
  <2>2. RoutesUpTo(0)'
    BY <2>1 DEF NoRoutes, RoutesUpTo
  <2>3. N + 1 - Len(ready') = 0 /\ Len(ready') \in 1..N + 1
    BY <2>1, InitialTasksFacts
  <2> QED
    BY <2>1, <2>2, <2>3 DEF Booting, Serving
<1> QED
  BY <1>0, <1>1, <1>2, <1>3, <1>4, <1>5, <1>6, <1>7, <1>8 DEF Next, Dispatch

-------------------------------------------------------------------------------
(* The backlog and the sessions.                                           *)

(* Steps that leave the backlog alone move no connection into it or in it. *)
LEMMA BacklogAlone ==
  ASSUME LoopTypeOK, BacklogOK, NEW c \in Conn, NEW v \in Phase,
         at' = [at EXCEPT ![c] = v], at[c] # "backlog",
         backlog' = backlog, server' = server
  PROVE  BacklogOK'
BY DEF BacklogOK, LoopTypeOK

LEMMA BacklogStep ==
  ASSUME LoopTypeOK, BacklogOK, [Next]_vars
  PROVE  BacklogOK'
<1>0. CASE UNCHANGED vars
  BY <1>0 DEF vars, pushVars, BacklogOK
<1>1. ASSUME NEW s \in Source, StartSource(s)
      PROVE  BacklogOK'
  BY <1>1 DEF StartSource, BacklogOK
<1>2. CASE StartServer \/ AcceptReady
  BY <1>2 DEF StartServer, AcceptReady, BacklogOK
<1>3. CASE Accept
  <2>1. /\ backlog # <<>> /\ server' # "accepted" /\ backlog' = Tail(backlog)
        /\ at' = [at EXCEPT ![Head(backlog)] = "reading"]
    BY <1>3 DEF Accept, BacklogOK
  <2>2. /\ Len(backlog) \in Nat \ {0} /\ Head(backlog) = backlog[1]
        /\ Len(backlog') = Len(backlog) - 1
        /\ \A i \in 1..Len(backlog') : backlog'[i] = backlog[i + 1] /\ backlog[i + 1] \in Conn
    BY <2>1 DEF LoopTypeOK
  <2>3. ASSUME NEW i \in 1..Len(backlog')
        PROVE  /\ i + 1 \in 1..Len(backlog) /\ i + 1 # 1 /\ 1 \in 1..Len(backlog)
               /\ backlog'[i] = backlog[i + 1]
    BY <2>2
  <2>4. ASSUME NEW i \in 1..Len(backlog')
        PROVE  at'[backlog'[i]] = "backlog"
    <3>1. backlog[i + 1] # backlog[1] /\ at[backlog[i + 1]] = "backlog"
      BY <2>3 DEF BacklogOK
    <3> QED
      BY <2>1, <2>2, <3>1 DEF LoopTypeOK
  <2>5. ASSUME NEW i \in 1..Len(backlog'), NEW j \in 1..Len(backlog'),
               backlog'[i] = backlog'[j]
        PROVE  i = j
    <3>1. i + 1 = j + 1
      BY <2>3, <2>5 DEF BacklogOK
    <3> QED
      BY <2>2, <3>1
  <2> QED
    BY <2>1, <2>4, <2>5 DEF BacklogOK
<1>4. CASE AcceptFails \/ Crash
  BY <1>4 DEF AcceptFails, Crash, BacklogOK
<1>5. ASSUME NEW c \in Conn, Session(c)
      PROVE  BacklogOK'
  <2>1. at[c] # "backlog" /\ backlog' = backlog /\ server' = server
    BY <1>5 DEF Session, ReadFails, Handle, Finish, Store, Storing
  <2>2. \E v \in {"closed", "sending"} : at' = [at EXCEPT ![c] = v]
    BY <1>5 DEF Session, ReadFails, Handle, Answer, Respond, GiveUp, Finish, Store
  <2> QED
    BY <2>1, <2>2, BacklogAlone DEF Phase
<1>6. ASSUME NEW c \in Conn, Connect(c)
      PROVE  BacklogOK'
  <2>1. /\ at[c] = "unopened" /\ backlog' = Append(backlog, c) /\ server' = server
        /\ at' = [at EXCEPT ![c] = "backlog"]
    BY <1>6 DEF Connect
  <2>2. /\ Len(backlog) \in Nat /\ Len(backlog') = Len(backlog) + 1
        /\ \A i \in 1..Len(backlog) : backlog'[i] = backlog[i] /\ backlog[i] \in Conn
        /\ backlog'[Len(backlog) + 1] = c
    BY <2>1 DEF LoopTypeOK
  <2>3. \A i \in 1..Len(backlog) : backlog[i] # c /\ at[backlog[i]] = "backlog"
    BY <2>1 DEF BacklogOK
  <2>4. \A i \in 1..Len(backlog') : i \in 1..Len(backlog) \/ i = Len(backlog) + 1
    BY <2>2
  <2>5. \A i \in 1..Len(backlog') : at'[backlog'[i]] = "backlog"
    BY <2>1, <2>2, <2>3, <2>4 DEF LoopTypeOK
  <2>6. \A i, j \in 1..Len(backlog') : backlog'[i] = backlog'[j] => i = j
    BY <2>2, <2>3, <2>4 DEF BacklogOK
  <2>7. backlog' # <<>>
    BY <2>2
  <2> QED
    BY <2>1, <2>5, <2>6, <2>7 DEF BacklogOK
<1>7. ASSUME NEW c \in Conn, Receive(c) \/ Disconnect(c) \/ SendDone(c) \/ SendFails(c)
      PROVE  BacklogOK'
  <2>1. at[c] # "backlog" /\ backlog' = backlog /\ server' = server
    BY <1>7 DEF Receive, Disconnect, SendDone, SendFails
  <2>2. \E v \in {"read", "readfailed", "sent", "unsent"} : at' = [at EXCEPT ![c] = v]
    BY <1>7 DEF Receive, Disconnect, SendDone, SendFails
  <2> QED
    BY <2>1, <2>2, BacklogAlone DEF Phase
<1> QED
  BY <1>0, <1>1, <1>2, <1>3, <1>4, <1>5, <1>6, <1>7 DEF Next, Dispatch

(* Moving a connection on without a decision or an answer.                 *)
LEMMA SessionMoves ==
  ASSUME LoopTypeOK, SessionsOK, NEW c \in Conn, NEW v \in Phase,
         at' = [at EXCEPT ![c] = v],
         v \in Undecided => at[c] \in Undecided,
         v \notin {"sending", "sent"},
         UNCHANGED <<req, handler, status, reply>>
  PROVE  SessionsOK'
BY DEF SessionsOK, SessionOK, LoopTypeOK, Undecided, Owns

(* The handler decides by the route's owner, because all have registered.  *)
LEMMA HandleStep ==
  ASSUME LoopTypeOK, Booting, Serving, SessionsOK, NEW c \in Conn, Handle(c)
  PROVE  SessionsOK'
<1> DEFINE path == req[c].route
<1>1. path \in Route /\ at[c] = "read" /\ handler' = [handler EXCEPT ![c] = routes[path]]
  BY DEF Handle, LoopTypeOK, Request
<1>2. RoutesUpTo(N)
  BY <1>1 DEF Booting, Serving
<1>3. handler'[c] = routes[path]
  BY <1>1 DEF LoopTypeOK
<1>4. /\ status[c] = 0 /\ reply[c] = 0
      /\ UNCHANGED <<req, reply>>
  BY <1>1 DEF SessionsOK, SessionOK, Undecided, Handle
<1>5. \A d \in Conn \ {c} : handler'[d] = handler[d]
  BY <1>1 DEF LoopTypeOK
<1>6. CASE handler'[c] = NoSource
  <2>1. \A j \in 1..N : RouteOf[StartOrder[j]] # path
    <3>1. \A i \in 1..N : routes[path] # StartOrder[i]
      BY <1>3, <1>6, InitialTasksFacts, TaskAssumption
    <3> QED
      BY <1>1, <1>2, <3>1 DEF RoutesUpTo
  <2>2. \A s \in Source : RouteOf[s] # path
    BY <2>1, LoaderFileAssumption DEF N
  <2>3. Respond(c, 404)
    BY <1>6 DEF Handle
  <2> QED
    BY <1>4, <1>5, <2>2, <2>3 DEF Respond, SessionsOK, SessionOK, LoopTypeOK, Undecided, Owns
<1>7. CASE handler'[c] # NoSource
  <2>1. Owns(routes[path], path)
    BY <1>1, <1>2, <1>3, <1>7 DEF RoutesUpTo, Owns, N
  <2>2. Answer(c)
    BY <1>7 DEF Handle
  <2>3. ASSUME NEW code \in {200, 403}, Respond(c, code),
               code = 200 => req[c].body # "bad_token"
        PROVE  SessionsOK'
    <3>1. /\ status' = [status EXCEPT ![c] = code]
          /\ at' = [at EXCEPT ![c] = "sending"]
      BY <2>3 DEF Respond
    <3>2. SessionOK(c)'
      <4>1. status'[c] = code /\ at'[c] = "sending" /\ reply'[c] = 0
        BY <1>4, <3>1 DEF LoopTypeOK
      <4>2. Owns(handler[c], req[c].route)'
        BY <1>3, <1>4, <2>1 DEF Owns
      <4> QED
        BY <1>4, <2>3, <4>1, <4>2 DEF SessionOK, Undecided
    <3>3. ASSUME NEW d \in Conn \ {c}
          PROVE  SessionOK(d)'
      <4>1. status'[d] = status[d] /\ at'[d] = at[d] /\ SessionOK(d)
        BY <3>1 DEF LoopTypeOK, SessionsOK
      <4> QED
        BY <1>4, <1>5, <4>1 DEF SessionOK, Owns
    <3> QED
      BY <3>2, <3>3 DEF SessionsOK
  <2>4. ASSUME GiveUp(c)
        PROVE  SessionsOK'
    <3>1. SessionOK(c)'
      <4>1. status'[c] = 0 /\ at'[c] = "closed"
        BY <1>4, <2>4 DEF GiveUp, LoopTypeOK
      <4> QED
        BY <4>1 DEF SessionOK, Undecided
    <3>2. ASSUME NEW d \in Conn \ {c}
          PROVE  SessionOK(d)'
      <4>1. status'[d] = status[d] /\ at'[d] = at[d] /\ SessionOK(d)
        BY <2>4 DEF GiveUp, LoopTypeOK, SessionsOK
      <4> QED
        BY <1>4, <1>5, <4>1 DEF SessionOK, Owns
    <3> QED
      BY <3>1, <3>2 DEF SessionsOK
  <2> QED
    BY <2>2, <2>3, <2>4 DEF Answer
<1> QED
  BY <1>6, <1>7

LEMMA SessionsStep ==
  ASSUME LoopTypeOK, Booting, Serving, BacklogOK, SessionsOK, [Next]_vars
  PROVE  SessionsOK'
<1>0. CASE UNCHANGED vars
  BY <1>0 DEF vars, pushVars, SessionsOK, SessionOK, Owns
<1>1. ASSUME UNCHANGED <<at, req, handler, status, reply>>
      PROVE  SessionsOK'
  BY <1>1 DEF SessionsOK, SessionOK, Owns
<1>2. ASSUME NEW s \in Source, StartSource(s)
      PROVE  SessionsOK'
  BY <1>1, <1>2 DEF StartSource
<1>3. CASE StartServer \/ AcceptReady
  BY <1>1, <1>3 DEF StartServer, AcceptReady
<1>4. CASE Accept
  <2>1. backlog # <<>> /\ Head(backlog) \in Conn /\ at[Head(backlog)] = "backlog"
    BY <1>4 DEF Accept, BacklogOK, LoopTypeOK
  <2> QED
    BY <1>4, <2>1, SessionMoves DEF Accept, Phase, Undecided
<1>5. CASE AcceptFails \/ Crash
  <2>1. /\ UNCHANGED <<req, handler, status, reply>>
        /\ \A c \in Conn : at'[c] = at[c] \/ at'[c] = "closed"
    BY <1>5 DEF AcceptFails, Crash
  <2> QED
    BY <2>1 DEF SessionsOK, SessionOK, Undecided, Owns
<1>6. ASSUME NEW c \in Conn, ReadFails(c) \/ Finish(c) \/ Store(c)
      PROVE  SessionsOK'
  BY <1>6, SessionMoves DEF ReadFails, Finish, Store, Phase, Undecided
<1>7. ASSUME NEW c \in Conn, Connect(c) \/ Receive(c) \/ Disconnect(c) \/ SendFails(c)
      PROVE  SessionsOK'
  BY <1>7, SessionMoves DEF Connect, Receive, Disconnect, SendFails, Phase, Undecided
<1>8. ASSUME NEW c \in Conn, SendDone(c)
      PROVE  SessionsOK'
  <2>1. /\ at[c] = "sending" /\ at' = [at EXCEPT ![c] = "sent"]
        /\ reply' = [reply EXCEPT ![c] = status[c]]
        /\ UNCHANGED <<req, handler, status>>
    BY <1>8 DEF SendDone
  <2>2. ASSUME NEW d \in Conn
        PROVE  SessionOK(d)'
    <3>1. SessionOK(d) /\ (Owns(handler[d], req[d].route) => Owns(handler[d], req[d].route)')
      BY <2>1 DEF SessionsOK, Owns
    <3>2. CASE d = c
      <4>1. at'[d] = "sent" /\ reply'[d] = status[d]
        BY <2>1, <3>2 DEF LoopTypeOK
      <4> QED
        BY <2>1, <3>1, <3>2, <4>1 DEF SessionOK, Undecided
    <3>3. CASE d # c
      <4>1. at'[d] = at[d] /\ reply'[d] = reply[d]
        BY <2>1, <3>3 DEF LoopTypeOK
      <4> QED
        BY <2>1, <3>1, <4>1 DEF SessionOK, Undecided
    <3> QED
      BY <3>2, <3>3
  <2> QED
    BY <2>2 DEF SessionsOK
<1> QED
  BY <1>0, <1>2, <1>3, <1>4, <1>5, <1>6, <1>7, <1>8, HandleStep DEF Next, Dispatch, Session

-------------------------------------------------------------------------------
(* The dump.                                                               *)

(* Steps that create no file.                                              *)
LEMMA DumpAlone ==
  ASSUME DumpTypeOK, DumpOK, UNCHANGED <<files, req>>,
         \A c \in Conn : at[c] = "closed" => at'[c] = "closed",
         \A c \in Conn : reply[c] = 200 => reply'[c] = 200
  PROVE  DumpOK'
<1>1. \A f \in DOMAIN files : \A i \in DOMAIN files[f] : files[f][i].entry \in Conn
  <2> SUFFICES ASSUME NEW f \in DOMAIN files, NEW i \in DOMAIN files[f]
               PROVE  files[f][i].entry \in Conn
    OBVIOUS
  <2>1. files[f] \in Seq(Line)
    BY DEF DumpTypeOK
  <2>2. files[f][i] \in Line
    BY <2>1
  <2> QED
    BY <2>2 DEF Line
<1>2. TenantIsolation'
  BY <1>1 DEF DumpOK, TenantIsolation, Isolated, Owns
<1>3. ReviewsStoredOnce' /\ HeldOnlyIfClosed'
  BY DEF DumpOK, ReviewsStoredOnce, HeldOnlyIfClosed, Holds
<1> QED
  BY <1>2, <1>3 DEF DumpOK

(* A session that stores its batch, or leaves a torn file of it.           *)
LEMMA DumpGrows ==
  ASSUME LoopTypeOK, DumpTypeOK, SessionsOK, DumpOK, NEW c \in Conn,
         at[c] = "sent", status[c] = 200, NewFile(Batch(c)), at'[c] = "closed",
         \A d \in Conn : at[d] = "closed" => at'[d] = "closed",
         UNCHANGED <<req, reply>>
  PROVE  DumpOK'
<1> DEFINE src == handler[c]
<1>1. /\ src \in Source /\ Owns(src, req[c].route)
      /\ reply[c] = 200 /\ req[c].body # "bad_token"
  BY SourceOfDecided DEF SessionsOK, SessionOK
<1>2. PICK name \in [tenant : Tenant, source : Source, stamp : Nat] : Adds(c, name)
  BY <1>1, NewFileContent
<1>3. ASSUME NEW f \in DOMAIN files', f # name
      PROVE  f \in DOMAIN files /\ files'[f] = files[f]
  BY <1>2, <1>3 DEF Adds
<1>4. \A f \in DOMAIN files : ~ Holds(f, c)
  BY DEF DumpOK, HeldOnlyIfClosed
<1>5. \A d \in Conn : Holds(name, d)' => d = c
  BY <1>2 DEF Holds, Adds
<1>6. \A d \in Conn : \A f \in DOMAIN files : Holds(f, d)' <=> Holds(f, d)
  BY <1>2 DEF Holds, Adds
<1>7. TenantIsolation'
  <2>1. ASSUME NEW f \in DOMAIN files, NEW i \in DOMAIN files[f]
        PROVE  Isolated(f, files[f][i])'
    <3>1. Isolated(f, files[f][i]) /\ files'[f] = files[f]
      BY <1>2 DEF DumpOK, TenantIsolation, Adds
    <3> QED
      BY <3>1 DEF Isolated, Owns
  <2>2. ASSUME NEW i \in DOMAIN files'[name]
        PROVE  Isolated(name, files[name][i])'
    <3>1. files'[name][i] = [source_id |-> src, tenant_id |-> TenantOf[src], entry |-> c]
      BY <1>2 DEF Adds
    <3>2. name.source = src /\ name.tenant = TenantOf[src]
      BY <1>2 DEF Adds
    <3>3. /\ files'[name][i].source_id = src
          /\ files'[name][i].tenant_id = TenantOf[src]
          /\ files'[name][i].entry = c
      BY <3>1
    <3>4. Owns(src, req'[c].route) /\ req'[c].body # "bad_token" /\ reply'[c] = 200
      BY <1>1
    <3>5. /\ Owns(name.source, req'[files'[name][i].entry].route)
          /\ req'[files'[name][i].entry].body # "bad_token"
          /\ reply'[files'[name][i].entry] = 200
      BY <3>2, <3>3, <3>4
    <3> QED
      BY <3>2, <3>3, <3>5 DEF Isolated, Owns
  <2> QED
    BY <1>2, <1>3, <2>1, <2>2 DEF TenantIsolation, Adds
<1>8. ReviewsStoredOnce'
  <2> SUFFICES ASSUME NEW f \in DOMAIN files', NEW g \in DOMAIN files', NEW d \in Conn,
                      Holds(f, d)', Holds(g, d)'
               PROVE  f = g
    BY DEF ReviewsStoredOnce
  <2>1. CASE d = c
    BY <1>3, <1>4, <1>6, <2>1
  <2>2. CASE d # c
    BY <1>3, <1>5, <1>6, <2>2 DEF DumpOK, ReviewsStoredOnce
  <2> QED
    BY <2>1, <2>2
<1>9. HeldOnlyIfClosed'
  BY <1>3, <1>5, <1>6 DEF DumpOK, HeldOnlyIfClosed
<1> QED
  BY <1>7, <1>8, <1>9 DEF DumpOK

(* The dump changes only when a session stores its batch, or is killed     *)
(* storing it.                                                             *)
LEMMA SinkSteps ==
  ASSUME LoopTypeOK, [Next]_vars
  PROVE  \/ UNCHANGED sinkVars
         \/ \E c \in Conn : /\ Storing(c)
                            /\ NoFile \/ NewFile(Batch(c))
                            /\ Store(c) \/ Crash
<1>1. ASSUME NEW c \in Conn, Store(c)
      PROVE  Storing(c) /\ (NoFile \/ NewFile(Batch(c)))
  BY <1>1, SinkCases DEF Store
<1>2. CASE Crash
  BY <1>2 DEF Crash, NewFile
<1>3. ASSUME NEW c \in Conn, ReadFails(c) \/ Handle(c) \/ Finish(c) \/ Connect(c)
                \/ Receive(c) \/ Disconnect(c) \/ SendDone(c) \/ SendFails(c)
      PROVE  UNCHANGED sinkVars
  BY <1>3 DEF ReadFails, Handle, Finish, Connect, Receive, Disconnect, SendDone, SendFails
<1>4. ASSUME NEW s \in Source, StartSource(s)
      PROVE  UNCHANGED sinkVars
  BY <1>4 DEF StartSource
<1>5. ASSUME StartServer \/ Accept \/ AcceptFails \/ AcceptReady
      PROVE  UNCHANGED sinkVars
  BY <1>5 DEF StartServer, Accept, AcceptFails, AcceptReady
<1>6. ASSUME UNCHANGED vars
      PROVE  UNCHANGED sinkVars
  BY <1>6 DEF vars
<1> QED
  BY <1>1, <1>2, <1>3, <1>4, <1>5, <1>6 DEF Next, Dispatch, Session

LEMMA ClosedForever ==
  ASSUME LoopTypeOK, BacklogOK, [Next]_vars
  PROVE  \A c \in Conn : at[c] = "closed" => at'[c] = "closed"
<1> SUFFICES ASSUME NEW c \in Conn, at[c] = "closed"
             PROVE  at'[c] = "closed"
  OBVIOUS
<1>1. CASE Accept
  <2>1. at[Head(backlog)] = "backlog" /\ Head(backlog) \in Conn
    BY <1>1 DEF Accept, BacklogOK, LoopTypeOK
  <2> QED
    BY <1>1, <2>1 DEF Accept, LoopTypeOK
<1>2. ASSUME NEW d \in Conn, Session(d)
      PROVE  at'[c] = "closed"
  <2>1. /\ at[d] # "closed"
        /\ \E v \in {"closed", "sending"} : at' = [at EXCEPT ![d] = v]
    BY <1>2 DEF Session, ReadFails, Handle, Answer, Respond, GiveUp, Finish, Store, Storing
  <2> QED
    BY <2>1 DEF LoopTypeOK
<1>3. ASSUME NEW d \in Conn,
             Connect(d) \/ Receive(d) \/ Disconnect(d) \/ SendDone(d) \/ SendFails(d)
      PROVE  at'[c] = "closed"
  BY <1>3 DEF Connect, Receive, Disconnect, SendDone, SendFails, LoopTypeOK
<1>4. ASSUME NEW s \in Source, StartSource(s)
      PROVE  at'[c] = "closed"
  BY <1>4 DEF StartSource
<1>5. CASE StartServer \/ AcceptReady \/ AcceptFails \/ Crash \/ UNCHANGED vars
  BY <1>5 DEF StartServer, AcceptReady, AcceptFails, Crash, vars, pushVars
<1> QED
  BY <1>1, <1>2, <1>3, <1>4, <1>5 DEF Next, Dispatch

(* A request is answered at most once, and req is what it is.              *)
LEMMA ReplySteps ==
  ASSUME LoopTypeOK, SessionsOK, [Next]_vars
  PROVE  /\ req' = req
         /\ \/ reply' = reply
            \/ \E c \in Conn : /\ reply[c] = 0
                               /\ reply' = [reply EXCEPT ![c] = status[c]]
                               /\ UNCHANGED sinkVars
<1>1. ASSUME NEW c \in Conn, SendDone(c)
      PROVE  /\ reply[c] = 0 /\ req' = req /\ UNCHANGED sinkVars
             /\ reply' = [reply EXCEPT ![c] = status[c]]
  BY <1>1 DEF SendDone, SessionsOK, SessionOK
<1>2. ASSUME NEW c \in Conn, Session(c)
      PROVE  UNCHANGED <<req, reply>>
  BY <1>2 DEF Session, ReadFails, Handle, Finish, Store
<1>3. ASSUME NEW c \in Conn, Connect(c) \/ Receive(c) \/ Disconnect(c) \/ SendFails(c)
      PROVE  UNCHANGED <<req, reply>>
  BY <1>3 DEF Connect, Receive, Disconnect, SendFails
<1>4. ASSUME NEW s \in Source, StartSource(s)
      PROVE  UNCHANGED <<req, reply>>
  BY <1>4 DEF StartSource
<1>5. ASSUME StartServer \/ Accept \/ AcceptFails \/ AcceptReady \/ Crash \/ UNCHANGED vars
      PROVE  UNCHANGED <<req, reply>>
  BY <1>5 DEF StartServer, Accept, AcceptFails, AcceptReady, Crash, vars, pushVars
<1> QED
  BY <1>1, <1>2, <1>3, <1>4, <1>5 DEF Next, Dispatch

LEMMA DumpStep ==
  ASSUME LoopTypeOK, DumpTypeOK, BacklogOK, SessionsOK, DumpOK, [Next]_vars
  PROVE  DumpTypeOK' /\ DumpOK'
<1>1. /\ \A c \in Conn : at[c] = "closed" => at'[c] = "closed"
      /\ \A c \in Conn : reply[c] = 200 => reply'[c] = 200
      /\ req' = req
  BY ClosedForever, ReplySteps DEF LoopTypeOK
<1>2. CASE UNCHANGED sinkVars
  BY <1>1, <1>2, DumpAlone DEF sinkVars, DumpTypeOK
<1>3. ASSUME NEW c \in Conn, Storing(c), NoFile \/ NewFile(Batch(c)), Store(c) \/ Crash
      PROVE  DumpTypeOK' /\ DumpOK'
  <2>1. at[c] = "sent" /\ status[c] = 200 /\ handler[c] \in Source
    BY <1>3, SourceOfDecided DEF Storing
  <2>2. at'[c] = "closed" /\ reply' = reply
    BY <1>3, <2>1 DEF Store, Crash, LoopTypeOK
  <2>3. DumpTypeOK'
    BY <1>3, <2>1, DumpTypeStep
  <2>4. CASE NoFile
    BY <1>1, <2>3, <2>4, DumpAlone DEF NoFile
  <2>5. CASE NewFile(Batch(c))
    BY <1>1, <2>3, <2>1, <2>2, <2>5, DumpGrows
  <2> QED
    BY <1>3, <2>3, <2>4, <2>5
<1> QED
  BY <1>2, <1>3, SinkSteps

-------------------------------------------------------------------------------
LEMMA InvInit == Init => IInv
<1> SUFFICES ASSUME Init
             PROVE  IInv
  OBVIOUS
<1>1. BacklogOK /\ SessionsOK
  BY DEF Init, BacklogOK, SessionsOK, SessionOK, Undecided
<1>2. DumpOK
  BY DEF Init, SinkInit, DumpOK, TenantIsolation, ReviewsStoredOnce, HeldOnlyIfClosed
<1> QED
  BY <1>1, <1>2, TypeInit, BootingInit DEF IInv

LEMMA InvStep == IInv /\ [Next]_vars => IInv'
BY LoopTypeStep, BootingStep, BacklogStep, SessionsStep, DumpStep DEF IInv, TypeOK

LEMMA Invariance == Spec => []IInv
BY InvInit, InvStep, PTL DEF Spec

(* The variables of the event loop and of the dump keep their types: the   *)
(* accept loop never takes from an empty backlog.                          *)
THEOREM TypeCorrect == Spec => []TypeOK
<1>1. IInv => TypeOK
  BY DEF IInv
<1> QED
  BY <1>1, Invariance, PTL

(* Whatever the loader file and however often the process is killed, a     *)
(* client of a configured route is never answered 404.                     *)
THEOREM RoutesReady == Spec => []ConfiguredRouteNever404
<1>1. IInv => ConfiguredRouteNever404
  BY DEF IInv, SessionsOK, SessionOK, ConfiguredRouteNever404
<1> QED
  BY <1>1, Invariance, PTL

(* No tenant ever gets reviews that were sent to somebody else's route.    *)
THEOREM TenantsIsolated == Spec => []TenantIsolation
<1>1. IInv => TenantIsolation
  BY DEF IInv, DumpOK
<1> QED
  BY <1>1, Invariance, PTL

(* The reviews of a request are in one file at most.                       *)
THEOREM StoredOnce == Spec => []ReviewsStoredOnce
<1>1. IInv => ReviewsStoredOnce
  BY DEF IInv, DumpOK
<1> QED
  BY <1>1, Invariance, PTL

-------------------------------------------------------------------------------
LEMMA DeliveryInit == Init => Delivery!Init
BY DEF Init, SinkInit, Stored, Delivery!Init

LEMMA DeliveryStep == IInv /\ IInv' /\ [Next]_vars => [Delivery!Next]_<<reply, Stored>>
<1> SUFFICES ASSUME IInv, IInv', [Next]_vars
             PROVE  [Delivery!Next]_<<reply, Stored>>
  OBVIOUS
<1> USE DEF IInv, TypeOK
<1>1. UNCHANGED sinkVars => Stored' = Stored
  BY DEF sinkVars, Stored, Holds
<1>2. ASSUME NEW c \in Conn, reply[c] = 0, UNCHANGED sinkVars,
             reply' = [reply EXCEPT ![c] = status[c]]
      PROVE  [Delivery!Next]_<<reply, Stored>>
  <2>1. status[c] = 0 \/ status[c] \in {200, 403, 404}
    BY DEF LoopTypeOK
  <2>2. CASE status[c] = 0
    <3>1. reply' = reply
      BY <1>2, <2>2 DEF LoopTypeOK
    <3> QED
      BY <1>1, <1>2, <3>1
  <2>3. CASE status[c] \in {200, 403, 404}
    <3>1. Delivery!Answer(c, status[c])
      BY <1>1, <1>2 DEF Delivery!Answer
    <3> QED
      BY <2>3, <3>1 DEF Delivery!Next
  <2> QED
    BY <2>1, <2>2, <2>3
<1>3. ASSUME NEW c \in Conn, Storing(c), NoFile \/ NewFile(Batch(c)), reply' = reply
      PROVE  [Delivery!Next]_<<reply, Stored>>
  <2>1. reply[c] = 200 /\ handler[c] \in Source
    BY <1>3, SourceOfDecided DEF Storing, SessionsOK, SessionOK
  <2>2. CASE NoFile
    BY <1>3, <2>2 DEF NoFile, Stored, Holds
  <2>3. CASE NewFile(Batch(c))
    <3>1. PICK name \in [tenant : Tenant, source : Source, stamp : Nat] : Adds(c, name)
      BY <2>1, <2>3, NewFileContent
    <3>2. \A d \in Conn : Holds(name, d)' => d = c
      BY <3>1 DEF Holds, Adds
    <3>3. \A d \in Conn : \A f \in DOMAIN files : Holds(f, d)' <=> Holds(f, d)
      BY <3>1 DEF Holds, Adds
    <3>4. DOMAIN files' = DOMAIN files \cup {name}
      BY <3>1 DEF Adds
    <3>5. \A d \in Conn : d \in Stored => d \in Stored'
      BY <3>3, <3>4 DEF Stored
    <3>6. \A d \in Conn : d \in Stored' => d \in Stored \/ d = c
      BY <3>2, <3>3, <3>4 DEF Stored
    <3>7. Stored \subseteq Conn /\ Stored' \subseteq Conn
      BY DEF Stored
    <3>8. Stored' = Stored \/ Stored' = Stored \cup {c}
      BY <3>5, <3>6, <3>7
    <3>9. Stored' = Stored \cup {c} => Delivery!Store(c)
      BY <1>3, <2>1 DEF Delivery!Store
    <3> QED
      BY <1>3, <3>8, <3>9 DEF Delivery!Next
  <2> QED
    BY <1>3, <2>2, <2>3
<1>4. CASE reply' = reply /\ UNCHANGED sinkVars
  BY <1>1, <1>4
<1>5. ASSUME NEW c \in Conn, Store(c) \/ Crash
      PROVE  reply' = reply
  BY <1>5 DEF Store, Crash
<1> QED
  BY <1>2, <1>3, <1>4, <1>5, SinkSteps, ReplySteps

(* The push side keeps its promise to the clients: answered at most once,  *)
(* stored only after a 200, and what is stored stays.                      *)
THEOREM DeliveryRefined == Spec => ImplementsDelivery
<1>1. Spec => []IInv
  BY Invariance
<1> QED
  BY <1>1, DeliveryInit, DeliveryStep, PTL DEF Spec, ImplementsDelivery, Delivery!Spec
===============================================================================
