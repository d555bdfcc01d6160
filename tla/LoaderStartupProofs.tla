-------------------------- MODULE LoaderStartupProofs --------------------------
(***************************************************************************)
(* Proofs about LoaderStartup, for loader files of any length and content, *)
(* whatever an uninitialised int holds.                                    *)
(***************************************************************************)
EXTENDS LoaderStartup, TLAPS

(* What is not filled yet.                                                 *)
Unfilled ==
  /\ phase \in {"stopped", "tenant"} => entries = <<>> /\ infos = <<>> /\ spawned = <<>>
  /\ phase = "stopped" => tenants = <<>> /\ DOMAIN entry_map = {}

(* The tenant registry holds the tenants of the file's first lines, and    *)
(* the others are still to be read.                                        *)
TenantsRead ==
  /\ Len(tenants) <= Len(tenantFile)
  /\ \A i \in 1..Len(tenants) : tenants[i] = tenantFile[i].who
  /\ phase = "tenant" =>
       /\ Len(todo) = Len(tenantFile) - Len(tenants)
       /\ \A i \in 1..Len(todo) : todo[i] = tenantFile[Len(tenants) + i]

(* A directory belongs to the tenant of the line with its number.          *)
DirectoriesAreLines ==
  \A d \in dump :
    d.dir \in 0..Len(tenantFile) - 1 /\ d.who = tenantFile[d.dir + 1].who

PushEntriesSingle ==
  phase = "notifyu" => \A i \in DOMAIN entries : DOMAIN entries[i].tenants = {1}

IInv ==
  /\ TypeOK
  /\ Unfilled
  /\ TenantsRead
  /\ DirectoriesAreLines
  /\ PushEntriesSingle
  /\ OneSubscriberPerPushSource

-------------------------------------------------------------------------------
(* Sequences.                                                              *)
LEMMA SeqElements ==
  ASSUME NEW S, NEW s \in Seq(S)
  PROVE  Len(s) \in Nat /\ DOMAIN s = 1..Len(s) /\ \A i \in DOMAIN s : s[i] \in S
OBVIOUS

LEMMA ConcatElements ==
  ASSUME NEW S, NEW s \in Seq(S), NEW t \in Seq(S)
  PROVE  /\ s \o t \in Seq(S)
         /\ \A i \in DOMAIN (s \o t) :
              \/ i \in DOMAIN s /\ (s \o t)[i] = s[i]
              \/ i - Len(s) \in DOMAIN t /\ (s \o t)[i] = t[i - Len(s)]
OBVIOUS

LEMMA ConcatParts ==
  ASSUME NEW S, NEW s \in Seq(S), NEW t \in Seq(S)
  PROVE  /\ Len(s \o t) = Len(s) + Len(t)
         /\ DOMAIN (s \o t) = 1..Len(s) + Len(t)
         /\ \A i \in 1..Len(s) : (s \o t)[i] = s[i]
         /\ \A i \in 1..Len(t) : (s \o t)[Len(s) + i] = t[i]
OBVIOUS

LEMMA ConcatThree ==
  ASSUME NEW S, NEW s \in Seq(S), NEW t \in Seq(S), NEW u \in Seq(S)
  PROVE  /\ Len(s \o t \o u) = Len(s) + Len(t) + Len(u)
         /\ DOMAIN (s \o t \o u) = 1..Len(s) + Len(t) + Len(u)
         /\ \A i \in 1..Len(s) : (s \o t \o u)[i] = s[i]
         /\ \A i \in 1..Len(t) : (s \o t \o u)[Len(s) + i] = t[i]
         /\ \A i \in 1..Len(u) : (s \o t \o u)[Len(s) + Len(t) + i] = u[i]
OBVIOUS

(* The elements of spawned.                                                *)
LEMMA StartType ==
  ASSUME TypeOK
  PROVE  \A i \in DOMAIN spawned :
           /\ spawned[i].source_id \in Nat /\ spawned[i].source_id < Len(infos)
           /\ spawned[i].tenant_id \in Nat /\ spawned[i].tenant_id < Len(tenants)
<1>1. \A i \in DOMAIN spawned :
        spawned[i] \in [source_id : Nat, tenant_id : Nat, kind : SourceFile]
  BY SeqElements DEF TypeOK
<1> QED
  BY <1>1 DEF TypeOK

(* What get_loader_entry reads of a line is a sequence of numbers, and a   *)
(* single one of a notifyu line.                                           *)
LEMMA ReadsType ==
  ASSUME NEW line \in SourceLine, NEW i \in Int
  PROVE  Reads(line, i) \subseteq Int
BY LineAssumption, NumberAssumption DEF Reads

LEMMA SubscribersType ==
  ASSUME NEW f \in SourceFile, NEW line \in SourceLine, NEW read \in Subscribers(f, line)
  PROVE  /\ \E n \in Nat : DOMAIN read = 1..n
         /\ f = "notifyu" => DOMAIN read = {1}
<1>1. CASE f = "notifyu"
  <2>1. PICK x \in Reads(line, 1) : read = <<x>>
    BY <1>1 DEF Subscribers
  <2>2. DOMAIN read = 1..1
    BY <2>1
  <2> QED
    BY <2>2
<1>2. CASE f # "notifyu"
  <2>1. PICK n \in Reads(line, 1) : DOMAIN read = 1..n
    BY <1>2 DEF Subscribers, CountedTenants
  <2>2. n \in Int
    BY ReadsType
  <2>3. CASE n \in Nat
    BY <1>2, <2>1, <2>3
  <2>4. CASE n < 0
    <3>1. DOMAIN read = 1..0
      BY <2>1, <2>2, <2>4
    <3> QED
      BY <1>2, <3>1
  <2> QED
    BY <2>2, <2>3, <2>4
<1> QED
  BY <1>1, <1>2

LEMMA LineType ==
  /\ \A l \in TenantLine : l.who \in Who /\ l.index \in Int
  /\ \A l \in SourceLine : l.info \in Info
BY LineAssumption DEF Who, Info

-------------------------------------------------------------------------------
LEMMA InitIInv == Init => IInv
BY DEF Init, NoKeys, IInv, TypeOK, Unfilled, TenantsRead, DirectoriesAreLines,
       PushEntriesSingle, OneSubscriberPerPushSource

(* Adding a line at the end moves none of the others.                      *)
LEMMA EditIInv ==
  ASSUME IInv, Edit
  PROVE  IInv'
<1> USE DEF IInv, Edit, loadVars
<1>1. TypeOK'
  <2>1. CASE \E l \in TenantLine : tenantFile' = Append(tenantFile, l) /\ UNCHANGED sourceFile
    BY <2>1 DEF TypeOK
  <2>2. ASSUME NEW l \in SourceLine, NEW f \in SourceFile, UNCHANGED tenantFile,
               sourceFile' = [sourceFile EXCEPT ![f] = Append(@, l)]
        PROVE  TypeOK'
    <3>1. Append(sourceFile[f], l) \in Seq(SourceLine)
      BY DEF TypeOK
    <3>2. sourceFile' \in [SourceFile -> Seq(SourceLine)]
      BY <2>2, <3>1 DEF TypeOK
    <3> QED
      BY <2>2, <3>2 DEF TypeOK
  <2> QED
    BY <2>1, <2>2
<1>2. /\ Len(tenantFile) <= Len(tenantFile')
      /\ \A i \in 1..Len(tenantFile) : tenantFile'[i] = tenantFile[i]
  BY DEF TypeOK
<1>3. Len(tenantFile) \in Nat /\ Len(tenantFile') \in Nat /\ Len(tenants) = 0
  BY <1>1 DEF TypeOK, Unfilled
<1>4. DirectoriesAreLines'
  <2> SUFFICES ASSUME NEW d \in dump
               PROVE  /\ d.dir \in 0..Len(tenantFile') - 1
                      /\ d.who = tenantFile'[d.dir + 1].who
    BY DEF DirectoriesAreLines
  <2>1. d.dir \in 0..Len(tenantFile) - 1 /\ d.who = tenantFile[d.dir + 1].who
    BY DEF DirectoriesAreLines
  <2>2. d.dir + 1 \in 1..Len(tenantFile)
    BY <1>3, <2>1
  <2> QED
    BY <1>2, <1>3, <2>1, <2>2
<1>5. TenantsRead'
  BY <1>3 DEF TenantsRead
<1> QED
  BY <1>1, <1>4, <1>5 DEF Unfilled, PushEntriesSingle, OneSubscriberPerPushSource

LEMMA StartIInv ==
  ASSUME IInv, Start
  PROVE  IInv'
<1> USE DEF IInv, Start, fileVars
<1>1. TypeOK'
  BY DEF TypeOK, SourceFile
<1>2. TenantsRead'
  <2>1. tenants = <<>> /\ Len(tenantFile) \in Nat
    BY DEF TypeOK, Unfilled
  <2> QED
    BY <2>1 DEF TenantsRead
<1> QED
  BY <1>1, <1>2 DEF Unfilled, DirectoriesAreLines, PushEntriesSingle,
                    OneSubscriberPerPushSource

LEMMA StopIInv ==
  ASSUME IInv, Stop
  PROVE  IInv'
<1> USE DEF IInv, Stop, fileVars, NoKeys
<1>1. TypeOK'
  BY DEF TypeOK, SourceFile
<1>2. Len(tenantFile) \in Nat
  BY DEF TypeOK
<1> QED
  BY <1>1, <1>2 DEF Unfilled, TenantsRead, DirectoriesAreLines, PushEntriesSingle,
                    OneSubscriberPerPushSource

LEMMA RegisterTenantIInv ==
  ASSUME IInv, RegisterTenant
  PROVE  IInv'
<1> USE DEF IInv, RegisterTenant, fileVars
<1>1. /\ todo \in Seq(TenantLine) /\ todo # <<>> /\ tenants \in Seq(Who)
      /\ entries = <<>> /\ infos = <<>> /\ spawned = <<>>
  BY DEF TypeOK, Unfilled
<1>2. Head(todo) = todo[1] /\ Head(todo) \in TenantLine /\ Len(todo) \in Nat \ {0}
  BY <1>1
<1>3. /\ todo' \in Seq(TenantLine)
      /\ Len(todo') = Len(todo) - 1
      /\ \A i \in 1..Len(todo') : todo'[i] = todo[i + 1]
  BY <1>1
<1>4. /\ tenants' \in Seq(Who)
      /\ Len(tenants') = Len(tenants) + 1
      /\ \A i \in 1..Len(tenants) : tenants'[i] = tenants[i]
      /\ tenants'[Len(tenants) + 1] = Head(todo).who
  BY <1>1, <1>2, LineType
<1>5. Len(tenants) \in Nat /\ Len(tenantFile) \in Nat
  BY DEF TypeOK
<1>6. /\ DOMAIN entry_map' \subseteq Int
      /\ \A x \in DOMAIN entry_map' : entry_map'[x] \in 0..Len(tenants') - 1
  BY <1>2, <1>4, <1>5, LineType DEF TypeOK
<1>7. TypeOK'
  BY <1>1, <1>3, <1>4, <1>6 DEF TypeOK, SourceFile
<1>8. TenantsRead'
  <2>1. Head(todo) = tenantFile[Len(tenants) + 1]
    BY <1>2, <1>5 DEF TenantsRead
  <2>2. \A i \in 1..Len(tenants') : tenants'[i] = tenantFile[i].who
    BY <1>4, <1>5, <2>1 DEF TenantsRead
  <2>3. Len(todo') = Len(tenantFile) - Len(tenants')
    BY <1>2, <1>3, <1>4, <1>5 DEF TenantsRead
  <2>4. \A i \in 1..Len(todo') : todo'[i] = tenantFile[Len(tenants') + i]
    BY <1>2, <1>3, <1>4, <1>5 DEF TenantsRead
  <2>5. Len(tenants') <= Len(tenantFile)
    BY <1>2, <1>4, <1>5 DEF TenantsRead
  <2> QED
    BY <2>2, <2>3, <2>4, <2>5 DEF TenantsRead
<1> QED
  BY <1>1, <1>7, <1>8 DEF Unfilled, DirectoriesAreLines, PushEntriesSingle,
                          OneSubscriberPerPushSource

LEMMA OpenFileIInv ==
  ASSUME IInv, NEW before, NEW f \in SourceFile, OpenFile(before, f)
  PROVE  IInv'
<1> USE DEF IInv, OpenFile, fileVars
<1>1. sourceFile[f] \in Seq(SourceLine)
  BY DEF TypeOK
<1>2. TypeOK'
  BY <1>1 DEF TypeOK, SourceFile
<1> QED
  BY <1>2 DEF Unfilled, TenantsRead, DirectoriesAreLines, PushEntriesSingle,
              OneSubscriberPerPushSource, SourceFile

LEMMA ReadLineIInv ==
  ASSUME IInv, ReadLine
  PROVE  IInv'
<1> USE DEF IInv, ReadLine, fileVars
<1>1. todo \in Seq(SourceLine) /\ todo # <<>> /\ phase \in SourceFile
  BY DEF TypeOK
<1>2. Head(todo) \in SourceLine /\ todo' \in Seq(SourceLine)
  BY <1>1
<1>3. PICK read \in Subscribers(phase, Head(todo)) :
        IF \A j \in DOMAIN read : read[j] \in DOMAIN entry_map
        THEN /\ entries' = Append(entries,
                 [info |-> Head(todo).info,
                  tenants |-> [j \in DOMAIN read |-> entry_map[read[j]]]])
             /\ UNCHANGED phase
        ELSE phase' = "aborted" /\ UNCHANGED entries
  OBVIOUS
<1>4. CASE phase' = "aborted" /\ UNCHANGED entries
  <2>1. TypeOK'
    BY <1>4 DEF TypeOK, SourceFile
  <2> QED
    BY <2>1, <1>4 DEF Unfilled, TenantsRead, DirectoriesAreLines, PushEntriesSingle,
                      OneSubscriberPerPushSource
<1>5. CASE \A j \in DOMAIN read : read[j] \in DOMAIN entry_map
  <2> DEFINE subscribers == [j \in DOMAIN read |-> entry_map[read[j]]]
             entry == [info |-> Head(todo).info, tenants |-> subscribers]
  <2>1. PICK n \in Nat : DOMAIN read = 1..n
    BY <1>1, <1>2, SubscribersType
  <2>2. phase = "notifyu" => DOMAIN read = {1}
    BY <1>1, <1>2, SubscribersType
  <2>3. \A j \in 1..n : subscribers[j] \in Nat /\ subscribers[j] < Len(tenants)
    <3>1. \A x \in DOMAIN entry_map : entry_map[x] \in Nat /\ entry_map[x] < Len(tenants)
      BY DEF TypeOK
    <3> QED
      BY <1>5, <2>1, <3>1
  <2>4. subscribers \in Seq(Nat) /\ DOMAIN subscribers = DOMAIN read
    BY <2>1, <2>3
  <2> HIDE DEF subscribers
  <2>5. entry \in [info : Info, tenants : Seq(Nat)]
    BY <1>2, <2>4, LineType
  <2>6. entry.tenants = subscribers
    OBVIOUS
  <2>7. entries' = Append(entries, entry) /\ UNCHANGED phase
    BY <1>3, <1>5 DEF subscribers
  <2> HIDE DEF entry
  <2>8. /\ entries' \in Seq([info : Info, tenants : Seq(Nat)])
        /\ \A i \in DOMAIN entries' : i \in DOMAIN entries \/ entries'[i] = entry
        /\ \A i \in DOMAIN entries : entries'[i] = entries[i]
    BY <2>5, <2>7 DEF TypeOK
  <2>9. \A i \in DOMAIN entries' : \A j \in DOMAIN entries'[i].tenants :
          entries'[i].tenants[j] < Len(tenants)
    BY <2>1, <2>3, <2>4, <2>6, <2>8 DEF TypeOK
  <2>10. TypeOK'
    BY <1>1, <1>2, <2>7, <2>8, <2>9 DEF TypeOK, SourceFile
  <2>11. PushEntriesSingle'
    BY <2>2, <2>4, <2>6, <2>7, <2>8 DEF PushEntriesSingle
  <2> QED
    BY <1>1, <2>7, <2>10, <2>11 DEF Unfilled, TenantsRead, DirectoriesAreLines,
                                   OneSubscriberPerPushSource, SourceFile
<1> QED
  BY <1>3, <1>4, <1>5

LEMMA RegisterSourceIInv ==
  ASSUME IInv, RegisterSource
  PROVE  IInv'
<1> USE DEF IInv, RegisterSource, fileVars
<1> DEFINE entry == Head(entries)
           starts == [i \in DOMAIN entry.tenants |->
                        [source_id |-> Len(infos), tenant_id |-> entry.tenants[i],
                         kind |-> phase]]
<1>1. /\ entries \in Seq([info : Info, tenants : Seq(Nat)]) /\ entries # <<>>
      /\ infos \in Seq(Info) /\ phase \in SourceFile
      /\ spawned \in Seq([source_id : Nat, tenant_id : Nat, kind : SourceFile])
  BY DEF TypeOK
<1>2. /\ entry = entries[1] /\ 1 \in DOMAIN entries
      /\ entry \in [info : Info, tenants : Seq(Nat)]
      /\ entry.info \in Info /\ entry.tenants \in Seq(Nat)
      /\ \A j \in DOMAIN entry.tenants : entry.tenants[j] < Len(tenants)
  <2>1. entry = entries[1] /\ 1 \in DOMAIN entries
    BY <1>1
  <2>2. entries[1] \in [info : Info, tenants : Seq(Nat)]
    BY <1>1, <2>1, SeqElements
  <2> HIDE DEF entry
  <2> QED
    BY <2>1, <2>2 DEF TypeOK
<1>3. /\ entries' \in Seq([info : Info, tenants : Seq(Nat)])
      /\ \A i \in DOMAIN entries' : i + 1 \in DOMAIN entries /\ entries'[i] = entries[i + 1]
  BY <1>1
<1>4. /\ infos' \in Seq(Info) /\ Len(infos) \in Nat
      /\ Len(infos') = Len(infos) + 1
  <2> HIDE DEF entry
  <2>1. infos' = Append(infos, entry.info)
    BY DEF entry
  <2> QED
    BY <1>1, <1>2, <2>1
<1>5. /\ \A i \in DOMAIN starts : starts[i].source_id = Len(infos)
                                 /\ starts[i].tenant_id = entry.tenants[i]
                                 /\ starts[i].kind = phase
      /\ DOMAIN starts = DOMAIN entry.tenants
  OBVIOUS
<1>6. starts \in Seq([source_id : Nat, tenant_id : Nat, kind : SourceFile])
  <2> DEFINE Started(i) == [source_id |-> Len(infos), tenant_id |-> entry.tenants[i],
                            kind |-> phase]
  <2> HIDE DEF entry
  <2>1. PICK n \in Nat : DOMAIN entry.tenants = 1..n
    BY <1>2
  <2>2. \A i \in 1..n : entry.tenants[i] \in Nat
    BY <1>2, <2>1
  <2>3. \A i \in 1..n : Started(i) \in [source_id : Nat, tenant_id : Nat, kind : SourceFile]
    BY <1>1, <1>4, <2>2
  <2>4. starts = [i \in 1..n |-> Started(i)]
    BY <2>1
  <2> HIDE DEF starts, Started
  <2> QED
    BY <2>3, <2>4
<1>7. spawned' = spawned \o starts
  OBVIOUS
<1> HIDE DEF entry, starts
<1>8. /\ spawned' \in Seq([source_id : Nat, tenant_id : Nat, kind : SourceFile])
      /\ \A i \in DOMAIN spawned' :
           \/ i \in DOMAIN spawned /\ spawned'[i] = spawned[i]
           \/ i - Len(spawned) \in DOMAIN starts /\ spawned'[i] = starts[i - Len(spawned)]
  <2> DEFINE Records == [source_id : Nat, tenant_id : Nat, kind : SourceFile]
  <2>1. spawned \in Seq(Records) /\ starts \in Seq(Records)
    BY <1>1, <1>6
  <2> HIDE DEF Records
  <2>2. /\ spawned \o starts \in Seq(Records)
        /\ \A i \in DOMAIN (spawned \o starts) :
             \/ i \in DOMAIN spawned /\ (spawned \o starts)[i] = spawned[i]
             \/ i - Len(spawned) \in DOMAIN starts
                /\ (spawned \o starts)[i] = starts[i - Len(spawned)]
    BY <2>1, ConcatElements
  <2> QED
    BY <1>7, <2>2 DEF Records
<1>9. \A i \in DOMAIN spawned' :
        spawned'[i].source_id < Len(infos') /\ spawned'[i].tenant_id < Len(tenants)
  <2>1. \A i \in DOMAIN spawned :
          spawned[i].source_id \in Nat /\ spawned[i].source_id < Len(infos)
          /\ spawned[i].tenant_id < Len(tenants)
    BY StartType
  <2>2. \A i \in DOMAIN starts :
          starts[i].source_id = Len(infos) /\ starts[i].tenant_id < Len(tenants)
    BY <1>2, <1>5
  <2> SUFFICES ASSUME NEW i \in DOMAIN spawned'
               PROVE  /\ spawned'[i].source_id < Len(infos')
                      /\ spawned'[i].tenant_id < Len(tenants)
    OBVIOUS
  <2>3. CASE i \in DOMAIN spawned /\ spawned'[i] = spawned[i]
    <3>1. /\ spawned'[i].source_id \in Nat /\ spawned'[i].source_id < Len(infos)
          /\ spawned'[i].tenant_id < Len(tenants)
      BY <2>1, <2>3
    <3> QED
      BY <1>4, <3>1
  <2>4. CASE i - Len(spawned) \in DOMAIN starts /\ spawned'[i] = starts[i - Len(spawned)]
    <3>1. spawned'[i].source_id = Len(infos) /\ spawned'[i].tenant_id < Len(tenants)
      BY <2>2, <2>4
    <3> QED
      BY <1>4, <3>1
  <2> QED
    BY <1>8, <2>3, <2>4
<1>10. TypeOK'
  <2>1. \A i \in DOMAIN entries' : \A j \in DOMAIN entries'[i].tenants :
          entries'[i].tenants[j] < Len(tenants)
    BY <1>3 DEF TypeOK
  <2> QED
    BY <1>3, <1>4, <1>8, <1>9, <2>1 DEF TypeOK
<1>11. PushEntriesSingle'
  BY <1>3 DEF PushEntriesSingle
<1>12. OneSubscriberPerPushSource'
  <2> SUFFICES ASSUME NEW i \in DOMAIN spawned', NEW j \in DOMAIN spawned',
                      spawned'[i].kind = "notifyu", spawned'[j].kind = "notifyu",
                      spawned'[i].source_id = spawned'[j].source_id
               PROVE  i = j
    BY DEF OneSubscriberPerPushSource
  <2>1. \A k \in DOMAIN spawned : spawned[k].source_id # Len(infos)
    BY <1>4, StartType
  <2>2. CASE i \in DOMAIN spawned /\ spawned'[i] = spawned[i]
    <3>1. j \in DOMAIN spawned /\ spawned'[j] = spawned[j]
      BY <1>5, <1>8, <2>1, <2>2
    <3> QED
      BY <2>2, <3>1 DEF OneSubscriberPerPushSource
  <2>3. CASE i - Len(spawned) \in DOMAIN starts /\ spawned'[i] = starts[i - Len(spawned)]
    <3>1. j - Len(spawned) \in DOMAIN starts
      BY <1>5, <1>8, <2>1, <2>3
    <3>2. phase = "notifyu"
      BY <1>5, <2>3
    <3>3. DOMAIN starts = {1}
      BY <1>2, <1>5, <3>2 DEF PushEntriesSingle
    <3>4. i \in Int /\ j \in Int /\ Len(spawned) \in Nat
      BY <1>1, <1>8
    <3> QED
      BY <2>3, <3>1, <3>3, <3>4
  <2> QED
    BY <1>8, <2>2, <2>3
<1> QED
  BY <1>1, <1>10, <1>11, <1>12 DEF Unfilled, TenantsRead, DirectoriesAreLines, SourceFile

LEMMA RunIInv ==
  ASSUME IInv, Run
  PROVE  IInv'
<1> USE DEF IInv, Run, fileVars, loadVars
<1>1. TypeOK'
  BY DEF TypeOK, SourceFile
<1> QED
  BY <1>1 DEF Unfilled, TenantsRead, DirectoriesAreLines, PushEntriesSingle,
              OneSubscriberPerPushSource

LEMMA WriteIInv ==
  ASSUME IInv, Write
  PROVE  IInv'
<1> USE DEF IInv, Write, fileVars, loadVars
<1>1. PICK i \in DOMAIN spawned :
        dump' = dump \cup {[dir |-> Directory(spawned[i]),
                            who |-> tenants[spawned[i].tenant_id + 1]]}
  OBVIOUS
<1>2. spawned[i].tenant_id \in Nat /\ spawned[i].tenant_id < Len(tenants)
  BY StartType
<1>3. /\ Len(tenants) \in Nat /\ Len(tenantFile) \in Nat /\ Len(tenants) <= Len(tenantFile)
      /\ tenants[spawned[i].tenant_id + 1] = tenantFile[spawned[i].tenant_id + 1].who
  <2>1. Len(tenants) \in Nat /\ Len(tenantFile) \in Nat
    BY DEF TypeOK
  <2>2. spawned[i].tenant_id + 1 \in 1..Len(tenants)
    BY <1>2, <2>1
  <2> QED
    BY <2>1, <2>2 DEF TenantsRead
<1>4. DirectoriesAreLines'
  BY <1>1, <1>2, <1>3 DEF DirectoriesAreLines, Directory
<1>5. TypeOK'
  BY DEF TypeOK
<1> QED
  BY <1>4, <1>5 DEF Unfilled, TenantsRead, PushEntriesSingle, OneSubscriberPerPushSource

LEMMA NextIInv == IInv /\ [Next]_vars => IInv'
<1> SUFFICES ASSUME IInv, [Next]_vars
             PROVE  IInv'
  OBVIOUS
<1>1. CASE Edit
  BY <1>1, EditIInv
<1>2. CASE Start
  BY <1>2, StartIInv
<1>3. CASE Stop
  BY <1>3, StopIInv
<1>4. CASE RegisterTenant
  BY <1>4, RegisterTenantIInv
<1>5. CASE OpenFile("tenant", "discourse")
  BY <1>5, OpenFileIInv DEF SourceFile
<1>6. CASE OpenFile("discourse", "filepp")
  BY <1>6, OpenFileIInv DEF SourceFile
<1>7. CASE OpenFile("filepp", "notifyu")
  BY <1>7, OpenFileIInv DEF SourceFile
<1>8. CASE ReadLine
  BY <1>8, ReadLineIInv
<1>9. CASE RegisterSource
  BY <1>9, RegisterSourceIInv
<1>10. CASE Run
  BY <1>10, RunIInv
<1>11. CASE Write
  BY <1>11, WriteIInv
<1>12. CASE UNCHANGED vars
  BY <1>12 DEF vars, fileVars, loadVars, IInv, TypeOK, Unfilled, TenantsRead,
               DirectoriesAreLines, PushEntriesSingle, OneSubscriberPerPushSource
<1> QED
  BY <1>1, <1>2, <1>3, <1>4, <1>5, <1>6, <1>7, <1>8, <1>9, <1>10, <1>11, <1>12 DEF Next

LEMMA IInvHolds == Spec => []IInv
BY InitIInv, NextIInv, PTL DEF Spec

(* Whatever the loader files hold, the registries stay consistent.         *)
THEOREM TypeCorrect == Spec => []TypeOK
<1>1. IInv => TypeOK
  BY DEF IInv
<1> QED
  BY <1>1, IInvHolds, PTL

(* No notifyu source is ever started for two tenants.                      *)
THEOREM PushSourcesSingle == Spec => []OneSubscriberPerPushSource
<1>1. IInv => OneSubscriberPerPushSource
  BY DEF IInv
<1> QED
  BY <1>1, IInvHolds, PTL

(* Lines added at the end of the loader files never give the directory of  *)
(* one tenant to another.                                                  *)
THEOREM DirectoriesStable == Spec => []DirectoryKeepsItsTenant
<1>1. IInv => DirectoryKeepsItsTenant
  BY DEF IInv, DirectoriesAreLines, DirectoryKeepsItsTenant
<1> QED
  BY <1>1, IInvHolds, PTL

-------------------------------------------------------------------------------
(* Who is started for whom.                                                *)
(* A number of the tenant file stands for the last of the tenants read with*)
(* it, and behind the tenant file for the last in the file.                *)
KeysAreLast ==
  /\ \A x \in DOMAIN entry_map :
       /\ tenantFile[entry_map[x] + 1].index = x
       /\ \A j \in entry_map[x] + 2..Len(tenants) : tenantFile[j].index # x
  /\ phase \in SourceFile \cup {"running"} => Len(tenants) = Len(tenantFile)

(* The sources of the files up to and with f.                              *)
UpTo(f) ==
  CASE f = "discourse" -> Len(sourceFile["discourse"])
    [] f = "filepp" -> Len(sourceFile["discourse"]) + Len(sourceFile["filepp"])
    [] OTHER -> Len(sourceFile["discourse"]) + Len(sourceFile["filepp"])
                  + Len(sourceFile["notifyu"])

(* The keys of an entry are those of the subscribers its line states.      *)
KeysAsStated(keys, f, line) ==
  /\ DOMAIN keys = 1..Len(Stated(f, line))
  /\ \A i \in DOMAIN keys : Names(Stated(f, line)[i], tenants[keys[i] + 1])

(* The sources registered, the entries to register and the lines to read   *)
(* are the sources of the files, in their order.                           *)
InOrder ==
  /\ \A k \in 1..Len(infos) : k <= Len(AllSources) /\ infos[k] = AllSources[k].line.info
  /\ phase = "running" => Len(infos) = Len(AllSources)
  /\ phase \in SourceFile =>
       /\ Len(infos) + Len(entries) + Len(todo) = UpTo(phase)
       /\ \A i \in 1..Len(entries) :
            LET s == AllSources[Len(infos) + i]
            IN /\ s.file = phase /\ entries[i].info = s.line.info
               /\ Complete(phase, s.line) => KeysAsStated(entries[i].tenants, phase, s.line)
       /\ \A i \in 1..Len(todo) :
            AllSources[Len(infos) + Len(entries) + i] = [file |-> phase, line |-> todo[i]]

(* The start()s of every source registered so far.                         *)
StartedSoFar ==
  \A k \in 1..Len(infos) :
    LET s == AllSources[k]
    IN Complete(s.file, s.line) => StartedAsStated(k - 1, s.file, s.line)

Subscribed == KeysAreLast /\ InOrder /\ StartedSoFar

(* The sources of a file stand behind those of the files before it.        *)
LEMMA SourceOrder ==
  ASSUME TypeOK
  PROVE  /\ \A f \in SourceFile : Len(sourceFile[f]) \in Nat
         /\ UpTo("discourse") = Len(sourceFile["discourse"])
         /\ UpTo("filepp") = UpTo("discourse") + Len(sourceFile["filepp"])
         /\ UpTo("notifyu") = UpTo("filepp") + Len(sourceFile["notifyu"])
         /\ Len(AllSources) = UpTo("notifyu") /\ DOMAIN AllSources = 1..UpTo("notifyu")
         /\ \A k \in DOMAIN AllSources : AllSources[k] \in [file : SourceFile, line : SourceLine]
         /\ \A f \in SourceFile : \A i \in 1..Len(sourceFile[f]) :
              AllSources[UpTo(f) - Len(sourceFile[f]) + i]
                = [file |-> f, line |-> sourceFile[f][i]]
<1> DEFINE Source == [file : SourceFile, line : SourceLine]
<1>1. \A f \in SourceFile : sourceFile[f] \in Seq(SourceLine) /\ Len(sourceFile[f]) \in Nat
  BY DEF TypeOK
<1>2. ASSUME NEW f \in SourceFile
      PROVE  /\ Tagged(f) \in Seq(Source) /\ Len(Tagged(f)) = Len(sourceFile[f])
             /\ \A i \in 1..Len(sourceFile[f]) :
                  Tagged(f)[i] = [file |-> f, line |-> sourceFile[f][i]]
  <2> DEFINE Tag(i) == [file |-> f, line |-> sourceFile[f][i]]
  <2>1. PICK n \in Nat : sourceFile[f] \in [1..n -> SourceLine] /\ Len(sourceFile[f]) = n
    BY <1>1
  <2>2. \A i \in 1..n : Tag(i) \in Source
    BY <2>1
  <2>3. Tagged(f) = [i \in 1..n |-> Tag(i)]
    BY <2>1 DEF Tagged
  <2> HIDE DEF Source, Tag
  <2>4. Tagged(f) \in Seq(Source) /\ Len(Tagged(f)) = n
        /\ \A i \in 1..n : Tagged(f)[i] = Tag(i)
    BY <2>2, <2>3
  <2> QED
    BY <2>1, <2>4 DEF Tag
<1>3. "discourse" \in SourceFile /\ "filepp" \in SourceFile /\ "notifyu" \in SourceFile
      /\ \A f \in SourceFile : f \in {"discourse", "filepp", "notifyu"}
  BY DEF SourceFile
<1>4. /\ UpTo("discourse") = Len(sourceFile["discourse"])
      /\ UpTo("filepp") = UpTo("discourse") + Len(sourceFile["filepp"])
      /\ UpTo("notifyu") = UpTo("filepp") + Len(sourceFile["notifyu"])
  BY DEF UpTo
<1> DEFINE d == Tagged("discourse")
           p == Tagged("filepp")
           n == Tagged("notifyu")
<1>5. /\ d \in Seq(Source) /\ p \in Seq(Source) /\ n \in Seq(Source)
      /\ Len(d) = Len(sourceFile["discourse"]) /\ Len(p) = Len(sourceFile["filepp"])
      /\ Len(n) = Len(sourceFile["notifyu"])
  BY <1>2, <1>3
<1> HIDE DEF Source, d, p, n
<1>6. /\ Len(d \o p \o n) = Len(d) + Len(p) + Len(n)
      /\ DOMAIN (d \o p \o n) = 1..Len(d) + Len(p) + Len(n)
      /\ \A i \in 1..Len(d) : (d \o p \o n)[i] = d[i]
      /\ \A i \in 1..Len(p) : (d \o p \o n)[Len(d) + i] = p[i]
      /\ \A i \in 1..Len(n) : (d \o p \o n)[Len(d) + Len(p) + i] = n[i]
  <2>1. d \in Seq(Source) /\ p \in Seq(Source) /\ n \in Seq(Source)
    BY <1>5
  <2> QED
    BY <2>1, ConcatThree
<1>7. AllSources = d \o p \o n
  BY DEF AllSources, d, p, n
<1>8. Len(AllSources) = UpTo("notifyu") /\ DOMAIN AllSources = 1..UpTo("notifyu")
  BY <1>1, <1>3, <1>4, <1>5, <1>6, <1>7
<1> DEFINE Count(f) == Len(sourceFile[f])
<1>9. Count("discourse") \in Nat /\ Count("filepp") \in Nat /\ Count("notifyu") \in Nat
  BY <1>1, <1>3
<1>10. ASSUME NEW f \in SourceFile, NEW i \in 1..Len(sourceFile[f])
      PROVE  AllSources[UpTo(f) - Len(sourceFile[f]) + i] = Tagged(f)[i]
  <2>1. CASE f = "discourse"
    <3>1. UpTo(f) - Len(sourceFile[f]) + i = i
      BY <1>1, <1>4, <2>1
    <3> QED
      BY <1>5, <1>6, <1>7, <2>1, <3>1 DEF d
  <2>2. CASE f = "filepp"
    <3>1. UpTo(f) = Count("discourse") + Count(f)
      BY <1>4, <2>2
    <3>2. i \in Int /\ Len(d) = Count("discourse") /\ Count(f) \in Nat
      BY <1>5, <1>9, <2>2
    <3> HIDE DEF Count
    <3>3. UpTo(f) - Count(f) + i = Len(d) + i
      BY <1>9, <3>1, <3>2
    <3> QED
      BY <1>5, <1>6, <1>7, <2>2, <3>3 DEF p, Count
  <2>3. CASE f = "notifyu"
    <3>1. UpTo(f) = Count("discourse") + Count("filepp") + Count(f)
      BY <1>4, <2>3
    <3>2. /\ i \in Int /\ Len(d) = Count("discourse") /\ Len(p) = Count("filepp")
          /\ Count(f) \in Nat
      BY <1>5, <1>9, <2>3
    <3> HIDE DEF Count
    <3>3. UpTo(f) - Count(f) + i = Len(d) + Len(p) + i
      BY <1>9, <3>1, <3>2
    <3> QED
      BY <1>5, <1>6, <1>7, <2>3, <3>3 DEF n, Count
  <2> QED
    BY <1>3, <2>1, <2>2, <2>3
<1>11. \A k \in DOMAIN AllSources : AllSources[k] \in [file : SourceFile, line : SourceLine]
  <2>1. d \in Seq(Source) /\ p \in Seq(Source) /\ n \in Seq(Source)
    BY <1>5
  <2>2. d \o p \o n \in Seq(Source)
    BY <2>1
  <2> QED
    BY <1>7, <2>2, SeqElements DEF Source
<1> QED
  BY <1>1, <1>2, <1>4, <1>8, <1>10, <1>11

LEMMA StatedType ==
  ASSUME NEW f, NEW line \in SourceLine, Complete(f, line)
  PROVE  Len(Stated(f, line)) \in Nat
<1> DEFINE x == line.numbers
<1>1. x \in Seq(Int) /\ Len(x) \in Nat /\ Len(x) >= 1 /\ x[1] \in Int
  BY LineAssumption DEF Complete
<1>2. Stated(f, line) = IF f = "notifyu" THEN <<x[1]>> ELSE SubSeq(x, 2, x[1] + 1)
  BY DEF Stated
<1>3. f # "notifyu" => Len(x) > x[1]
  BY DEF Complete
<1> HIDE DEF x
<1>4. ASSUME Len(x) > x[1]
      PROVE  Len(SubSeq(x, 2, x[1] + 1)) \in Nat
  BY <1>1, <1>4
<1>5. Len(<<x[1]>>) \in Nat
  OBVIOUS
<1> QED
  BY <1>2, <1>3, <1>4, <1>5

(* Of a line that states all its subscribers these are read.               *)
LEMMA CompleteRead ==
  ASSUME NEW f \in SourceFile, NEW line \in SourceLine, Complete(f, line),
         NEW read \in Subscribers(f, line)
  PROVE  /\ Len(Stated(f, line)) \in Nat
         /\ DOMAIN read = 1..Len(Stated(f, line))
         /\ \A i \in DOMAIN read : read[i] = Stated(f, line)[i]
<1> DEFINE x == line.numbers
<1>1. x \in Seq(Int) /\ Len(x) \in Nat /\ Len(x) >= 1
  BY LineAssumption DEF Complete
<1>2. \A i \in 1..Len(x) : Reads(line, i) = {x[i]} /\ x[i] \in Int
  BY <1>1 DEF Reads
<1>3. CASE f = "notifyu"
  <2>1. read = <<x[1]>> /\ Stated(f, line) = <<x[1]>>
    BY <1>1, <1>2, <1>3 DEF Subscribers, Stated
  <2> QED
    BY <2>1
<1>4. CASE f # "notifyu"
  <2>1. x[1] \in Int /\ Len(x) > x[1]
    BY <1>1, <1>2, <1>4 DEF Complete
  <2>2. /\ DOMAIN read = 1..x[1]
        /\ \A i \in 1..x[1] : read[i] \in Reads(line, i + 1)
    BY <1>1, <1>2, <1>4 DEF Subscribers, CountedTenants
  <2>3. ASSUME NEW i \in 1..x[1]
        PROVE  read[i] = x[i + 1]
    <3>1. i + 1 \in 1..Len(x)
      BY <1>1, <2>1
    <3>2. Reads(line, i + 1) = {x[i + 1]}
      BY <1>2, <3>1
    <3> QED
      BY <2>2, <3>2
  <2>4. Stated(f, line) = SubSeq(x, 2, x[1] + 1)
    BY <1>4 DEF Stated
  <2> HIDE DEF x
  <2>5. CASE x[1] \in Nat
    <3>1. /\ Len(SubSeq(x, 2, x[1] + 1)) = x[1]
          /\ \A i \in 1..x[1] : SubSeq(x, 2, x[1] + 1)[i] = x[i + 1]
      BY <1>1, <2>1, <2>5
    <3> QED
      BY <2>2, <2>3, <2>4, <2>5, <3>1
  <2>6. CASE x[1] < 0
    <3>1. Len(SubSeq(x, 2, x[1] + 1)) = 0
      BY <1>1, <2>1, <2>6
    <3> QED
      BY <2>1, <2>2, <2>4, <2>6, <3>1
  <2> QED
    BY <2>1, <2>5, <2>6
<1> QED
  BY <1>3, <1>4

(* A number of the tenant file names the tenant with its key.              *)
LEMMA KeyNames ==
  ASSUME IInv, Subscribed, phase \in SourceFile, NEW x \in DOMAIN entry_map
  PROVE  Names(x, tenants[entry_map[x] + 1])
<1> DEFINE i == entry_map[x] + 1
<1>1. entry_map[x] \in 0..Len(tenants) - 1 /\ Len(tenants) \in Nat
      /\ Len(tenants) = Len(tenantFile) /\ tenantFile \in Seq(TenantLine)
  BY DEF IInv, TypeOK, Subscribed, KeysAreLast
<1>2. i \in 1..Len(tenants) /\ i \in DOMAIN tenantFile /\ tenantFile[i] \in TenantLine
  BY <1>1
<1>3. tenants[i] = tenantFile[i].who /\ tenantFile[i].index = x
  BY <1>2 DEF IInv, TenantsRead, Subscribed, KeysAreLast
<1>4. tenantFile[i] = [index |-> x, who |-> tenants[i]]
  BY <1>2, <1>3, LineAssumption
<1>5. \A j \in i + 1..Len(tenantFile) : tenantFile[j].index # x
  <2>1. entry_map[x] + 2 = i + 1
    BY <1>1
  <2> QED
    BY <1>1, <2>1 DEF Subscribed, KeysAreLast
<1> QED
  BY <1>2, <1>4, <1>5 DEF Names

-------------------------------------------------------------------------------
(* Before the first source is registered nothing is claimed of any.        *)
LEMMA SubscribedEarly ==
  ASSUME phase \in {"stopped", "tenant"}, infos = <<>>, KeysAreLast
  PROVE  Subscribed
<1>1. 1..Len(infos) = {} /\ phase \notin SourceFile \cup {"running"}
  BY DEF SourceFile
<1> QED
  BY <1>1 DEF Subscribed, InOrder, StartedSoFar

(* A step that leaves the files, the tenants and the start()s alone leaves *)
(* alone whatever is said of them.                                         *)
LEMMA FilesFrame ==
  ASSUME UNCHANGED <<tenantFile, sourceFile, tenants>>
  PROVE  /\ AllSources' = AllSources
         /\ \A f : UpTo(f)' = UpTo(f)
         /\ \A keys, f, line : KeysAsStated(keys, f, line) => KeysAsStated(keys, f, line)'
         /\ UNCHANGED spawned =>
              \A k, f, line : StartedAsStated(k, f, line) => StartedAsStated(k, f, line)'
BY DEF AllSources, Tagged, UpTo, KeysAsStated, Names, StartedAsStated, Starts

LEMMA InitSubscribed == Init => Subscribed
<1> SUFFICES ASSUME Init PROVE Subscribed
  OBVIOUS
<1>1. KeysAreLast
  BY DEF Init, NoKeys, KeysAreLast, SourceFile
<1> QED
  BY <1>1, SubscribedEarly DEF Init

LEMMA OperatorSubscribed ==
  ASSUME IInv, Subscribed, Edit \/ Start \/ Stop
  PROVE  Subscribed'
<1>1. phase' \in {"stopped", "tenant"} /\ infos' = <<>> /\ DOMAIN entry_map' = {}
  BY DEF IInv, Unfilled, Edit, Start, Stop, loadVars, NoKeys
<1>2. KeysAreLast'
  BY <1>1 DEF KeysAreLast, SourceFile
<1>3. (phase \in {"stopped", "tenant"} /\ infos = <<>> /\ KeysAreLast)'
  BY <1>1, <1>2
<1> QED
  BY <1>3, SubscribedEarly, PTL

LEMMA RegisterTenantSubscribed ==
  ASSUME IInv, Subscribed, RegisterTenant
  PROVE  Subscribed'
<1>1. /\ phase = "tenant" /\ phase' = "tenant" /\ infos' = <<>>
      /\ todo \in Seq(TenantLine) /\ todo # <<>> /\ UNCHANGED tenantFile
  BY DEF IInv, TypeOK, Unfilled, RegisterTenant, fileVars
<1>2. Len(tenants) \in Nat /\ Len(tenants') = Len(tenants) + 1
  BY DEF IInv, TypeOK, RegisterTenant
<1>3. Head(todo) = tenantFile[Len(tenants) + 1]
  <2>1. Head(todo) = todo[1] /\ 1 \in 1..Len(todo)
    BY <1>1
  <2> QED
    BY <1>1, <2>1 DEF IInv, TenantsRead
<1>4. ASSUME NEW x \in DOMAIN entry_map'
      PROVE  /\ tenantFile[entry_map'[x] + 1].index = x
             /\ \A j \in entry_map'[x] + 2..Len(tenants') : tenantFile[j].index # x
  <2>1. CASE x = Head(todo).index
    <3>1. entry_map'[x] = Len(tenants)
      BY <2>1 DEF RegisterTenant
    <3> QED
      BY <1>2, <1>3, <2>1, <3>1
  <2>2. CASE x # Head(todo).index
    <3>1. x \in DOMAIN entry_map /\ entry_map'[x] = entry_map[x]
      BY <2>2 DEF RegisterTenant
    <3>2. /\ entry_map[x] \in Nat
          /\ tenantFile[entry_map[x] + 1].index = x
          /\ \A j \in entry_map[x] + 2..Len(tenants) : tenantFile[j].index # x
      BY <3>1 DEF IInv, TypeOK, Subscribed, KeysAreLast
    <3>3. ASSUME NEW j \in entry_map[x] + 2..Len(tenants) + 1
          PROVE  tenantFile[j].index # x
      <4>1. j \in entry_map[x] + 2..Len(tenants) \/ j = Len(tenants) + 1
        BY <1>2, <3>2
      <4> QED
        BY <1>3, <2>2, <3>2, <4>1
    <3> QED
      BY <1>2, <3>1, <3>2, <3>3
  <2> QED
    BY <2>1, <2>2
<1>5. KeysAreLast'
  BY <1>1, <1>4 DEF KeysAreLast, SourceFile
<1>6. (phase \in {"stopped", "tenant"} /\ infos = <<>> /\ KeysAreLast)'
  BY <1>1, <1>5
<1> QED
  BY <1>6, SubscribedEarly, PTL

(* The next file is opened when all sources of the last are registered.    *)
LEMMA OpenFileSubscribed ==
  ASSUME IInv, Subscribed, NEW before, NEW f,
         <<before, f>> \in {<<"tenant", "discourse">>, <<"discourse", "filepp">>,
                            <<"filepp", "notifyu">>},
         OpenFile(before, f)
  PROVE  Subscribed'
<1>1. /\ phase = before /\ phase' = f /\ todo = <<>> /\ entries = <<>> /\ entries' = <<>>
      /\ todo' = sourceFile[f] /\ f \in SourceFile
      /\ UNCHANGED <<tenantFile, sourceFile, entry_map, tenants, infos, spawned>>
  BY DEF OpenFile, fileVars, SourceFile
<1>2. /\ AllSources' = AllSources /\ UpTo(f)' = UpTo(f)
      /\ \A k, g, line : StartedAsStated(k, g, line) => StartedAsStated(k, g, line)'
  BY <1>1, FilesFrame
<1>3. Len(infos) \in Nat /\ Len(sourceFile[f]) \in Nat /\ Len(tenants) \in Nat
      /\ Len(tenantFile) \in Nat
  BY <1>1 DEF IInv, TypeOK
<1>4. Len(tenants) = Len(tenantFile)
  <2>1. CASE before = "tenant"
    BY <1>1, <1>3, <2>1 DEF IInv, TenantsRead
  <2>2. CASE before # "tenant"
    BY <1>1, <2>2 DEF Subscribed, KeysAreLast, SourceFile
  <2> QED
    BY <2>1, <2>2
<1>5. KeysAreLast'
  BY <1>1, <1>4 DEF Subscribed, KeysAreLast
<1>6. Len(infos) = UpTo(f) - Len(sourceFile[f])
  <2>1. CASE before = "tenant"
    <3>1. Len(infos) = 0 /\ f = "discourse"
      BY <1>1, <2>1 DEF IInv, Unfilled
    <3> QED
      BY <1>3, <3>1 DEF UpTo
  <2>2. CASE before \in {"discourse", "filepp"}
    <3>1. Len(infos) = UpTo(before)
      <4>1. Len(infos) + Len(entries) + Len(todo) = UpTo(before)
        BY <1>1, <2>2 DEF Subscribed, InOrder, SourceFile
      <4> QED
        BY <1>1, <1>3, <4>1
    <3>2. UpTo(f) = UpTo(before) + Len(sourceFile[f])
      BY <2>2, SourceOrder DEF IInv
    <3> QED
      BY <1>3, <3>1, <3>2
  <2> QED
    BY <2>1, <2>2
<1>7. \A i \in 1..Len(sourceFile[f]) :
        AllSources[Len(infos) + 0 + i] = [file |-> f, line |-> sourceFile[f][i]]
  <2>1. Len(infos) + 0 = Len(infos)
    BY <1>3
  <2> QED
    BY <1>1, <1>6, <2>1, SourceOrder DEF IInv
<1>8. Len(infos) + 0 + Len(sourceFile[f]) = UpTo(f)
  <2>1. UpTo(f) \in Int
    BY <1>1, SourceOrder DEF IInv, SourceFile
  <2> QED
    BY <1>3, <1>6, <2>1
<1>9. InOrder'
  <2>1. Len(entries') = 0 /\ phase' # "running"
    BY <1>1 DEF SourceFile
  <2>2. \A k \in 1..Len(infos) : k <= Len(AllSources) /\ infos[k] = AllSources[k].line.info
    BY DEF Subscribed, InOrder
  <2> QED
    BY <1>1, <1>2, <1>7, <1>8, <2>1, <2>2 DEF InOrder
<1>10. StartedSoFar'
  BY <1>1, <1>2 DEF Subscribed, StartedSoFar
<1> QED
  BY <1>5, <1>9, <1>10 DEF Subscribed

LEMMA ReadLineSubscribed ==
  ASSUME IInv, Subscribed, ReadLine
  PROVE  Subscribed'
<1>1. /\ phase \in SourceFile /\ todo \in Seq(SourceLine) /\ todo # <<>>
      /\ todo' = Tail(todo) /\ phase' \in {phase, "aborted"}
      /\ UNCHANGED <<tenantFile, sourceFile, entry_map, tenants, infos, spawned>>
  BY DEF IInv, TypeOK, ReadLine, fileVars
<1>2. /\ AllSources' = AllSources /\ \A f : UpTo(f)' = UpTo(f)
      /\ \A keys, f, line : KeysAsStated(keys, f, line) => KeysAsStated(keys, f, line)'
      /\ \A k, f, line : StartedAsStated(k, f, line) => StartedAsStated(k, f, line)'
  BY <1>1, FilesFrame
<1>3. KeysAreLast' /\ StartedSoFar'
  BY <1>1, <1>2 DEF Subscribed, KeysAreLast, StartedSoFar, SourceFile
<1>4. \A k \in 1..Len(infos) : k <= Len(AllSources) /\ infos[k] = AllSources[k].line.info
  BY DEF Subscribed, InOrder
<1>5. CASE phase' = "aborted"
  <2>1. InOrder'
    BY <1>1, <1>2, <1>4, <1>5 DEF InOrder, SourceFile
  <2> QED
    BY <1>3, <2>1 DEF Subscribed
<1>6. CASE phase' # "aborted"
  <2>1. PICK read \in Subscribers(phase, Head(todo)) :
          /\ \A j \in DOMAIN read : read[j] \in DOMAIN entry_map
          /\ entries' = Append(entries, [info |-> Head(todo).info,
                                         tenants |-> [j \in DOMAIN read |-> entry_map[read[j]]]])
    BY <1>6 DEF ReadLine
  <2> DEFINE line == Head(todo)
             keys == [j \in DOMAIN read |-> entry_map[read[j]]]
             m == Len(entries)
  <2>2. /\ line = todo[1] /\ line \in SourceLine
        /\ Len(todo) \in Nat \ {0} /\ Len(todo') = Len(todo) - 1
        /\ \A i \in 1..Len(todo') : todo'[i] = todo[i + 1]
    BY <1>1
  <2>3. m \in Nat /\ Len(infos) \in Nat
    BY DEF IInv, TypeOK
  <2>4. AllSources[Len(infos) + m + 1] = [file |-> phase, line |-> line]
    BY <1>1, <2>2 DEF Subscribed, InOrder
  <2>5. ASSUME Complete(phase, line)
        PROVE  KeysAsStated(keys, phase, line)
    <3>1. /\ DOMAIN read = 1..Len(Stated(phase, line))
          /\ \A i \in DOMAIN read : read[i] = Stated(phase, line)[i]
      BY <1>1, <2>2, <2>5, CompleteRead
    <3>2. \A i \in DOMAIN read : Names(read[i], tenants[keys[i] + 1])
      BY <1>1, <2>1, KeyNames
    <3>3. DOMAIN keys = DOMAIN read
      OBVIOUS
    <3> HIDE DEF keys, line
    <3> QED
      BY <3>1, <3>2, <3>3 DEF KeysAsStated
  <2> HIDE DEF keys, line
  <2>6. /\ Len(entries') = m + 1
        /\ \A i \in 1..m : entries'[i] = entries[i]
        /\ entries'[m + 1] = [info |-> line.info, tenants |-> keys]
    <3> DEFINE entry == [info |-> line.info, tenants |-> keys]
    <3>1. entries' = Append(entries, entry)
      BY <2>1 DEF line, keys
    <3>2. \E S : entries \in Seq(S)
      BY DEF IInv, TypeOK
    <3> HIDE DEF entry
    <3>3. /\ Len(entries') = m + 1
          /\ \A i \in 1..m : entries'[i] = entries[i]
          /\ entries'[m + 1] = entry
      BY <3>1, <3>2
    <3> QED
      BY <3>3 DEF entry
  <2>7. ASSUME NEW i \in 1..m + 1
        PROVE  /\ AllSources[Len(infos) + i].file = phase
               /\ entries'[i].info = AllSources[Len(infos) + i].line.info
               /\ Complete(phase, AllSources[Len(infos) + i].line) =>
                    KeysAsStated(entries'[i].tenants, phase, AllSources[Len(infos) + i].line)
    <3>1. CASE i \in 1..m
      BY <1>1, <2>6, <3>1 DEF Subscribed, InOrder
    <3>2. CASE i = m + 1
      <4>1. Len(infos) + i = Len(infos) + m + 1
        BY <2>3, <3>2
      <4> QED
        BY <2>4, <2>5, <2>6, <3>2, <4>1
    <3> QED
      BY <2>3, <3>1, <3>2
  <2>8. ASSUME NEW i \in 1..Len(todo')
        PROVE  AllSources[Len(infos) + (m + 1) + i] = [file |-> phase, line |-> todo'[i]]
    <3>1. Len(infos) + (m + 1) + i = Len(infos) + m + (i + 1) /\ i + 1 \in 1..Len(todo)
      BY <2>2, <2>3
    <3> QED
      BY <1>1, <2>2, <3>1 DEF Subscribed, InOrder
  <2>9. Len(infos) + (m + 1) + Len(todo') = UpTo(phase)
    <3>1. Len(infos) + m + Len(todo) = UpTo(phase)
      BY <1>1 DEF Subscribed, InOrder
    <3> QED
      BY <2>2, <2>3, <3>1
  <2>10. phase' = phase /\ phase # "running"
    BY <1>1, <1>6 DEF SourceFile
  <2> HIDE DEF m
  <2>11. InOrder'
    BY <1>1, <1>2, <1>4, <2>6, <2>7, <2>8, <2>9, <2>10 DEF InOrder
  <2> QED
    BY <1>3, <2>11 DEF Subscribed
<1> QED
  BY <1>5, <1>6

(* The start()s of a source that is registered stand behind all others, and*)
(* carry a key that none of them has.                                      *)
LEMMA RegisterSourceSubscribed ==
  ASSUME IInv, Subscribed, RegisterSource
  PROVE  Subscribed'
<1> DEFINE entry == Head(entries)
           n == Len(infos)
           m == Len(spawned)
           source == AllSources[n + 1]
<1>1. /\ phase \in SourceFile /\ phase' = phase /\ phase # "running"
      /\ todo = <<>> /\ todo' = <<>> /\ entries # <<>> /\ entries' = Tail(entries)
      /\ infos' = Append(infos, entry.info)
      /\ UNCHANGED <<tenantFile, sourceFile, entry_map, tenants>>
  BY DEF RegisterSource, fileVars, SourceFile
<1>2. /\ AllSources' = AllSources /\ \A f : UpTo(f)' = UpTo(f)
      /\ \A keys, f, line : KeysAsStated(keys, f, line) => KeysAsStated(keys, f, line)'
  BY <1>1, FilesFrame
<1>3. /\ entries \in Seq([info : Info, tenants : Seq(Nat)]) /\ infos \in Seq(Info)
      /\ n \in Nat /\ m \in Nat
  BY DEF IInv, TypeOK
<1>4. /\ entry = entries[1] /\ Len(entries) \in Nat \ {0}
      /\ Len(entries') = Len(entries) - 1
      /\ \A i \in 1..Len(entries') : entries'[i] = entries[i + 1]
  BY <1>1, <1>3
<1>5. entry.info \in Info /\ entry.tenants \in Seq(Nat)
  <2>1. entries[1] \in [info : Info, tenants : Seq(Nat)]
    <3>1. 1 \in DOMAIN entries
      BY <1>1, <1>3
    <3> QED
      BY <1>3, <3>1, SeqElements
  <2> HIDE DEF entry
  <2> QED
    BY <1>4, <2>1
<1>6. /\ source.file = phase /\ entry.info = source.line.info
      /\ Complete(phase, source.line) => KeysAsStated(entry.tenants, phase, source.line)
  <2>1. 1 \in 1..Len(entries)
    BY <1>4
  <2> HIDE DEF entry
  <2> QED
    BY <1>1, <1>4, <2>1 DEF Subscribed, InOrder
<1> HIDE DEF entry
<1>7. /\ Len(infos') = n + 1 /\ infos'[n + 1] = entry.info
      /\ \A k \in 1..n : infos'[k] = infos[k]
  BY <1>1, <1>3, <1>5
<1>8. n + Len(entries) = UpTo(phase) /\ UpTo(phase) <= Len(AllSources)
  <2>1. n + Len(entries) + Len(todo) = UpTo(phase) /\ Len(todo) = 0
    BY <1>1 DEF Subscribed, InOrder
  <2>2. UpTo(phase) <= UpTo("notifyu")
    BY <1>1, SourceOrder DEF IInv, SourceFile
  <2> QED
    BY <1>3, <1>4, <2>1, <2>2, SourceOrder DEF IInv
<1>9. KeysAreLast'
  BY <1>1 DEF Subscribed, KeysAreLast
<1>10. InOrder'
  <2>1. ASSUME NEW k \in 1..n + 1
        PROVE  k <= Len(AllSources) /\ infos'[k] = AllSources[k].line.info
    <3>1. CASE k \in 1..n
      BY <1>7, <3>1 DEF Subscribed, InOrder
    <3>2. CASE k = n + 1
      <4>1. Len(AllSources) \in Nat
        BY SourceOrder DEF IInv, SourceFile
      <4>2. n + 1 <= Len(AllSources)
        BY <1>3, <1>4, <1>8, <4>1, SourceOrder DEF IInv, SourceFile
      <4> QED
        BY <1>6, <1>7, <3>2, <4>2
    <3> QED
      BY <1>3, <3>1, <3>2
  <2>2. (n + 1) + Len(entries') + Len(todo') = UpTo(phase) /\ Len(todo') = 0
    BY <1>1, <1>3, <1>4, <1>8
  <2>3. ASSUME NEW i \in 1..Len(entries')
        PROVE  /\ AllSources[n + 1 + i].file = phase
               /\ entries'[i].info = AllSources[n + 1 + i].line.info
               /\ Complete(phase, AllSources[n + 1 + i].line) =>
                    KeysAsStated(entries'[i].tenants, phase, AllSources[n + 1 + i].line)
    <3>1. i + 1 \in 1..Len(entries) /\ n + 1 + i = n + (i + 1)
      BY <1>3, <1>4
    <3> QED
      BY <1>1, <1>4, <3>1 DEF Subscribed, InOrder
  <2> HIDE DEF n
  <2> QED
    BY <1>1, <1>2, <1>7, <2>1, <2>2, <2>3 DEF InOrder
<1> DEFINE starts == [i \in DOMAIN entry.tenants |->
                        [source_id |-> n, tenant_id |-> entry.tenants[i], kind |-> phase]]
           c == Len(entry.tenants)
<1>11. spawned' = spawned \o starts
  BY DEF RegisterSource, entry
<1>12. /\ c \in Nat /\ Len(starts) = c
       /\ \A i \in 1..c : /\ starts[i].source_id = n /\ starts[i].kind = phase
                          /\ starts[i].tenant_id = entry.tenants[i]
  BY <1>5
<1>13. /\ DOMAIN spawned = 1..m /\ Len(spawned') = m + c /\ DOMAIN spawned' = 1..m + c
       /\ \A i \in 1..m : spawned'[i] = spawned[i]
       /\ \A i \in 1..c : spawned'[m + i] = starts[i]
  <2> DEFINE Op == [source_id : Nat, tenant_id : Nat, kind : SourceFile]
             Started(i) == [source_id |-> n, tenant_id |-> entry.tenants[i], kind |-> phase]
  <2>1. spawned \in Seq(Op)
    BY DEF IInv, TypeOK
  <2>2. \A i \in 1..c : entry.tenants[i] \in Nat
    BY <1>5
  <2>3. \A i \in 1..c : Started(i) \in Op
    BY <1>1, <1>3, <2>2
  <2>4. starts = [i \in 1..c |-> Started(i)]
    BY <1>5
  <2> HIDE DEF starts, Started, Op, c
  <2>5. starts \in Seq(Op)
    BY <1>12, <2>3, <2>4
  <2>6. /\ Len(spawned \o starts) = m + Len(starts)
        /\ DOMAIN (spawned \o starts) = 1..m + Len(starts)
        /\ \A i \in 1..m : (spawned \o starts)[i] = spawned[i]
        /\ \A i \in 1..Len(starts) : (spawned \o starts)[m + i] = starts[i]
    BY <2>1, <2>5, ConcatParts
  <2>7. DOMAIN spawned = 1..m
    BY <2>1, SeqElements
  <2> QED
    BY <1>11, <1>12, <2>6, <2>7
<1> HIDE DEF starts
<1>14. \A i \in 1..m : spawned[i].source_id \in Nat /\ spawned[i].source_id < n
  BY <1>13, StartType DEF IInv
<1>15. ASSUME NEW k \in 1..n
       PROVE  Starts(k - 1)' = Starts(k - 1)
  <2>1. \A i \in 1..m + c : spawned'[i].source_id = k - 1 <=>
                             i \in 1..m /\ spawned[i].source_id = k - 1
    <3> SUFFICES ASSUME NEW i \in 1..m + c
                 PROVE  spawned'[i].source_id = k - 1 <=>
                          i \in 1..m /\ spawned[i].source_id = k - 1
      OBVIOUS
    <3>1. CASE i \in 1..m
      BY <1>13, <3>1
    <3>2. CASE i - m \in 1..c
      <4>1. spawned'[m + (i - m)] = starts[i - m] /\ m + (i - m) = i
        BY <1>3, <1>12, <1>13, <3>2
      <4>2. spawned'[i].source_id = n /\ i \notin 1..m
        BY <1>3, <1>12, <3>2, <4>1
      <4> QED
        BY <1>3, <4>2
    <3> QED
      BY <1>3, <1>12, <3>1, <3>2
  <2>2. 1..m \subseteq 1..m + c
    BY <1>3, <1>12
  <2> HIDE DEF m, c
  <2> QED
    BY <1>13, <2>1, <2>2 DEF Starts
<1>16. {i \in DOMAIN spawned' : spawned'[i].source_id = n} = m + 1..m + c
  <2>1. \A i \in 1..m + c : spawned'[i].source_id = n <=> i \in m + 1..m + c
    <3> SUFFICES ASSUME NEW i \in 1..m + c
                 PROVE  spawned'[i].source_id = n <=> i \in m + 1..m + c
      OBVIOUS
    <3>1. CASE i \in 1..m
      <4>1. spawned'[i].source_id \in Nat /\ spawned'[i].source_id < n
        BY <1>13, <1>14, <3>1
      <4> QED
        BY <1>3, <1>12, <3>1, <4>1
    <3>2. CASE i - m \in 1..c
      <4>1. spawned'[m + (i - m)] = starts[i - m] /\ m + (i - m) = i
        BY <1>3, <1>12, <1>13, <3>2
      <4> QED
        BY <1>3, <1>12, <3>2, <4>1
    <3> QED
      BY <1>3, <1>12, <3>1, <3>2
  <2>2. m + 1..m + c \subseteq 1..m + c
    BY <1>3, <1>12
  <2> HIDE DEF m, c
  <2> QED
    BY <1>13, <2>1, <2>2
<1>17. StartedSoFar'
  <2> SUFFICES ASSUME NEW k \in 1..n + 1, NEW f, NEW line, Complete(f, line),
                      f = AllSources[k].file, line = AllSources[k].line
               PROVE  StartedAsStated(k - 1, f, line)'
    BY <1>2, <1>7 DEF StartedSoFar
  <2> DEFINE w == Len(Stated(f, line))
  <2>1. k \in DOMAIN AllSources /\ f \in SourceFile /\ line \in SourceLine /\ w \in Nat
    <3>1. k <= Len(AllSources) /\ k \in 1..Len(AllSources)
      BY <1>2, <1>3, <1>7, <1>10, SourceOrder DEF InOrder, IInv, SourceFile
    <3>2. k \in DOMAIN AllSources
      BY <3>1, SourceOrder DEF IInv
    <3>3. f \in SourceFile /\ line \in SourceLine
      BY <3>2, SourceOrder DEF IInv
    <3> QED
      BY <3>2, <3>3, StatedType
  <2>2. CASE k \in 1..n
    <3>1. StartedAsStated(k - 1, f, line)
      BY <2>2 DEF Subscribed, StartedSoFar
    <3>2. PICK first \in 0..m :
            /\ Starts(k - 1) = first + 1..first + w
            /\ \A i \in 1..w :
                 /\ spawned[first + i].kind = f
                 /\ Names(Stated(f, line)[i], tenants[spawned[first + i].tenant_id + 1])
      BY <3>1 DEF StartedAsStated
    <3>3. Starts(k - 1) \subseteq 1..m
      BY <1>13 DEF Starts
    <3>4. ASSUME NEW i \in 1..w
          PROVE  spawned'[first + i] = spawned[first + i]
      <4>1. first + i \in first + 1..first + w
        BY <2>1
      <4> HIDE DEF w
      <4>2. first + i \in 1..m
        BY <3>2, <3>3, <4>1
      <4> QED
        BY <1>13, <4>2
    <3>5. first \in 0..Len(spawned')
      BY <1>3, <1>12, <1>13
    <3>6. Starts(k - 1)' = first + 1..first + w
      BY <1>15, <2>2, <3>2
    <3>7. ASSUME NEW i \in 1..w
          PROVE  /\ spawned'[first + i].kind = f
                 /\ Names(Stated(f, line)[i], tenants[spawned'[first + i].tenant_id + 1])
      BY <3>2, <3>4
    <3> HIDE DEF m, w
    <3> QED
      BY <1>1, <3>5, <3>6, <3>7 DEF StartedAsStated, Names, w
  <2>3. CASE k = n + 1
    <3>1. f = phase /\ KeysAsStated(entry.tenants, f, line)
      BY <1>6, <2>3
    <3>2. k - 1 = n
      BY <1>3, <2>3
    <3>3. /\ DOMAIN entry.tenants = 1..w
          /\ \A i \in 1..w : Names(Stated(f, line)[i], tenants[entry.tenants[i] + 1])
      BY <3>1 DEF KeysAsStated
    <3>4. w = c
      BY <1>5, <1>12, <2>1, <3>3
    <3>5. \A i \in 1..c : /\ spawned'[m + i].kind = f
                         /\ spawned'[m + i].tenant_id = entry.tenants[i]
      BY <1>12, <1>13, <3>1
    <3>6. m \in 0..Len(spawned')
      BY <1>3, <1>12, <1>13
    <3>7. Starts(k - 1)' = m + 1..m + w
      BY <1>16, <3>2, <3>4 DEF Starts
    <3>8. ASSUME NEW i \in 1..w
          PROVE  /\ spawned'[m + i].kind = f
                 /\ Names(Stated(f, line)[i], tenants[spawned'[m + i].tenant_id + 1])
      BY <3>3, <3>4, <3>5
    <3> HIDE DEF m, w
    <3> QED
      BY <1>1, <3>6, <3>7, <3>8 DEF StartedAsStated, Names, w
  <2> QED
    BY <1>3, <2>2, <2>3
<1> QED
  BY <1>9, <1>10, <1>17 DEF Subscribed

(* The sources run when those of all files are registered.                 *)
LEMMA RunSubscribed ==
  ASSUME IInv, Subscribed, Run
  PROVE  Subscribed'
<1>1. /\ phase = "notifyu" /\ phase' = "running" /\ todo = <<>> /\ entries = <<>>
      /\ UNCHANGED <<tenantFile, sourceFile, entry_map, tenants, infos, spawned>>
  BY DEF Run, fileVars, loadVars
<1>2. /\ AllSources' = AllSources
      /\ \A k, f, line : StartedAsStated(k, f, line) => StartedAsStated(k, f, line)'
  BY <1>1, FilesFrame
<1>3. KeysAreLast' /\ StartedSoFar'
  BY <1>1, <1>2 DEF Subscribed, KeysAreLast, StartedSoFar, SourceFile
<1>4. Len(infos) = Len(AllSources)
  <2>1. Len(infos) + Len(entries) + Len(todo) = UpTo("notifyu")
    BY <1>1 DEF Subscribed, InOrder, SourceFile
  <2>2. Len(infos) \in Nat /\ Len(entries) = 0 /\ Len(todo) = 0
    BY <1>1 DEF IInv, TypeOK
  <2> QED
    BY <2>1, <2>2, SourceOrder DEF IInv
<1>5. InOrder'
  BY <1>1, <1>2, <1>4 DEF Subscribed, InOrder, SourceFile
<1> QED
  BY <1>3, <1>5 DEF Subscribed

LEMMA SubscribedFrame ==
  ASSUME Subscribed, UNCHANGED <<fileVars, phase, loadVars>>
  PROVE  Subscribed'
<1>1. /\ AllSources' = AllSources /\ \A f : UpTo(f)' = UpTo(f)
      /\ \A keys, f, line : KeysAsStated(keys, f, line) => KeysAsStated(keys, f, line)'
      /\ \A k, f, line : StartedAsStated(k, f, line) => StartedAsStated(k, f, line)'
  BY FilesFrame DEF fileVars, loadVars
<1>2. UNCHANGED <<tenantFile, phase, todo, entries, entry_map, tenants, infos, spawned>>
  BY DEF fileVars, loadVars
<1>3. KeysAreLast' /\ StartedSoFar'
  BY <1>1, <1>2 DEF Subscribed, KeysAreLast, StartedSoFar
<1>4. InOrder'
  BY <1>1, <1>2 DEF Subscribed, InOrder
<1> QED
  BY <1>3, <1>4 DEF Subscribed

LEMMA NextSubscribed == IInv /\ Subscribed /\ [Next]_vars => Subscribed'
<1> SUFFICES ASSUME IInv, Subscribed, [Next]_vars
             PROVE  Subscribed'
  OBVIOUS
<1>1. CASE Edit \/ Start \/ Stop
  BY <1>1, OperatorSubscribed
<1>2. CASE RegisterTenant
  BY <1>2, RegisterTenantSubscribed
<1>3. CASE \/ OpenFile("tenant", "discourse")
           \/ OpenFile("discourse", "filepp")
           \/ OpenFile("filepp", "notifyu")
  BY <1>3, OpenFileSubscribed
<1>4. CASE ReadLine
  BY <1>4, ReadLineSubscribed
<1>5. CASE RegisterSource
  BY <1>5, RegisterSourceSubscribed
<1>6. CASE Run
  BY <1>6, RunSubscribed
<1>7. CASE Write \/ UNCHANGED vars
  BY <1>7, SubscribedFrame DEF Write, vars
<1> QED
  BY <1>1, <1>2, <1>3, <1>4, <1>5, <1>6, <1>7 DEF Next

(* Once the program runs, every source of the files has its key, and those *)
(* whose lines are complete are started for exactly the tenants stated.    *)
THEOREM SubscriptionsRight == Spec => []SubscriptionsMatchFiles
<1>1. IInv /\ Subscribed => SubscriptionsMatchFiles
  <2> SUFFICES ASSUME IInv, Subscribed, phase = "running"
               PROVE  SubscriptionsMatchFiles
    BY DEF SubscriptionsMatchFiles
  <2>1. Len(infos) = Len(AllSources) /\ DOMAIN AllSources = 1..Len(infos)
    BY SourceOrder DEF IInv, Subscribed, InOrder
  <2> QED
    BY <2>1 DEF Subscribed, InOrder, StartedSoFar, SubscriptionsMatchFiles
<1> QED
  BY <1>1, InitSubscribed, NextSubscribed, IInvHolds, PTL DEF Spec
===============================================================================
