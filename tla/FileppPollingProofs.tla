------------------------- MODULE FileppPollingProofs -------------------------
(***************************************************************************)
(* Proofs about FileppPolling, for any versions of the input file and any  *)
(* number of calls and restarts.                                           *)
(***************************************************************************)
EXTENDS FileppPolling, TLAPS

IInv == TypeOK /\ DumpsFollowVersions

-------------------------------------------------------------------------------
LEMMA VersionType ==
  /\ Len(Versions) \in Nat
  /\ DOMAIN Versions = 1..Len(Versions)
  /\ \A v \in 1..Len(Versions) : Versions[v] \in Seq(Conversation)
BY VersionAssumption

LEMMA BatchType ==
  ASSUME NEW text \in Seq(Conversation)
  PROVE  /\ Batch(text) \in Seq(Line)
         /\ DOMAIN Batch(text) = DOMAIN text
         /\ \A i \in DOMAIN text : Batch(text)[i].entry = text[i]
<1>1. /\ Len(text) \in Nat
      /\ DOMAIN text = 1..Len(text)
      /\ \A i \in 1..Len(text) : text[i] \in Conversation
  OBVIOUS
<1>2. Batch(text) \in [1..Len(text) -> Line]
  BY <1>1 DEF Batch, Line
<1> QED
  BY <1>1, <1>2 DEF Batch

(* Two texts never make the same batch.                                    *)
LEMMA BatchInjective ==
  ASSUME NEW text \in Seq(Conversation), NEW other \in Seq(Conversation),
         Batch(text) = Batch(other)
  PROVE  text = other
<1>1. DOMAIN text = DOMAIN other /\ \A i \in DOMAIN text : text[i] = other[i]
  BY BatchType
<1> QED
  BY <1>1

LEMMA BatchNotTorn ==
  ASSUME NEW text \in Seq(Conversation), text # <<>>
  PROVE  Batch(text) # Torn
<1>1. Len(text) \in Nat /\ DOMAIN text = 1..Len(text) /\ Len(text) # 0
  OBVIOUS
<1>2. 1 \in DOMAIN Batch(text)
  BY <1>1 DEF Batch
<1> QED
  BY <1>2 DEF Torn

LEMMA Below ==
  ASSUME NEW m \in Nat, NEW n \in Nat, m <= n, NEW v \in 1..m - 1
  PROVE  v \in 1..n - 1
OBVIOUS

LEMMA SpliceType ==
  ASSUME NEW v \in 1..Len(Versions) - 1, NEW text \in Splices(v)
  PROVE  text \in Seq(Conversation)
<1>1. v \in 1..Len(Versions) /\ v + 1 \in 1..Len(Versions)
  BY VersionType
<1>2. Versions[v] \in Seq(Conversation) /\ Versions[v + 1] \in Seq(Conversation)
  BY <1>1, VersionType
<1>3. PICK i \in 0..Len(Versions[v]), j \in 1..Len(Versions[v + 1]) + 1, cut \in Cuts :
        text = Splice(v, i, j, cut)
  BY DEF Splices
<1>4. cut \in Seq(Conversation)
  <2>1. CASE cut = <<>>
    BY <2>1
  <2>2. ASSUME NEW c \in Conversation, cut = <<c>>
        PROVE  cut \in Seq(Conversation)
    BY <2>2
  <2> QED
    BY <2>1, <2>2 DEF Cuts
<1>5. SubSeq(Versions[v], 1, i) \in Seq(Conversation)
  BY <1>2
<1>6. SubSeq(Versions[v + 1], j, Len(Versions[v + 1])) \in Seq(Conversation)
  BY <1>2
<1> QED
  BY <1>3, <1>4, <1>5, <1>6 DEF Splice

(* What a read finds, and what it marks.                                   *)
LEMMA ReadFacts ==
  ASSUME TypeOK, NEW text, Read(text)
  PROVE  /\ text \in Seq(Conversation)
         /\ partial' = partial /\ spliced' \subseteq Nat
         /\ input \in 1..Len(Versions) /\ input' \in input..Len(Versions)
         /\ \A n : n # clock => (n \in spliced' <=> n \in spliced)
         /\ \/ clock \notin spliced' /\ text = Versions[input] /\ input' = input
            \/ clock \in spliced' /\ input' = input + 1 /\ text \in Splices(input)
<1>1. input \in 1..Len(Versions) /\ clock \in Nat
  BY VersionType DEF TypeOK, Read, ReadQuietly, ReadOvertaken, Whole
<1>2. CASE ReadQuietly(text)
  <2>1. input' = input /\ partial' = partial /\ spliced' = spliced \ {clock}
        /\ text = Versions[input]
    BY <1>2 DEF ReadQuietly
  <2>2. text \in Seq(Conversation) /\ input' \in input..Len(Versions)
    BY <1>1, <2>1, VersionType
  <2>3. spliced' \subseteq Nat /\ clock \notin spliced'
        /\ \A n : n # clock => (n \in spliced' <=> n \in spliced)
    BY <2>1 DEF TypeOK
  <2> QED
    BY <1>1, <2>1, <2>2, <2>3
<1>3. CASE ReadOvertaken(text)
  <2>1. input \in 1..Len(Versions) - 1 /\ input + 1 \in input..Len(Versions)
    BY <1>1, <1>3, VersionType DEF ReadOvertaken
  <2>2. text \in Seq(Conversation)
    BY <1>3, <2>1, SpliceType DEF ReadOvertaken
  <2> QED
    BY <1>1, <1>3, <2>1, <2>2 DEF ReadOvertaken, TypeOK
<1> QED
  BY <1>2, <1>3 DEF Read

-------------------------------------------------------------------------------
LEMMA InitIInv == Init => IInv
<1> SUFFICES ASSUME Init
             PROVE  IInv
  OBVIOUS
<1>1. DOMAIN files = {} /\ clock = 0
  BY DEF Init, SinkInit
<1>2. input \in 0..Len(Versions)
  <2>1. Len(Versions) # 0
    BY VersionAssumption
  <2> QED
    BY <2>1, VersionType DEF Init
<1> QED
  BY <1>1, <1>2 DEF Init, IInv, TypeOK, DumpsFollowVersions

(* The dump has no version that is still to come.                          *)
LEMMA HeldBefore ==
  ASSUME IInv, NEW f \in DOMAIN files, NEW v \in 1..Len(Versions), Holds(f, v)
  PROVE  v \in 1..input
<1>1. Versions[v] \in Seq(Conversation) /\ Versions[v] # <<>>
  BY VersionType DEF Holds
<1>2. files[f] # Torn
  BY <1>1, BatchNotTorn DEF Holds
<1>3. PICK w \in 1..input : Holds(f, w)
  BY <1>2 DEF IInv, DumpsFollowVersions, Holds
<1>4. w \in 1..Len(Versions)
  BY VersionType DEF IInv, TypeOK
<1>5. Versions[v] = Versions[w]
  BY <1>1, <1>3, <1>4, VersionType, BatchInjective DEF Holds
<1>6. v = w
  BY <1>4, <1>5, VersionAssumption, VersionType
<1> QED
  BY <1>6

(* A file that was not there before.                                       *)
Fits(f, content, marked, text) ==
  /\ f.stamp = clock
  /\ content \in {Torn, Batch(text)}
  /\ text \in Seq(Conversation) /\ HasSchemas(text)
  /\ \/ clock \notin marked /\ text = Versions[input] /\ input' = input
     \/ clock \in marked /\ input' = input + 1 /\ text \in Splices(input)

(* The dump grows by a new file, stamped with the present, or by none.     *)
LEMMA DumpGrows ==
  ASSUME IInv, input' \in input..Len(Versions),
         \A f \in DOMAIN files :
           /\ f \in DOMAIN files' /\ files'[f] = files[f]
           /\ f.stamp \in spliced' <=> f.stamp \in spliced,
         \A f \in DOMAIN files' :
           f \in DOMAIN files
             \/ (input \in 1..Len(Versions) /\ \E text : Fits(f, files'[f], spliced', text))
  PROVE  DumpsFollowVersions'
<1>1. input \in 0..Len(Versions) /\ clock \in Nat /\ input \in Nat /\ input' \in Nat
      /\ input' >= input /\ input' <= Len(Versions)
  BY VersionType DEF IInv, TypeOK
<1>2. \A f \in DOMAIN files : f.stamp \in 0..clock - 1
  BY DEF IInv, TypeOK
<1>3. \A f \in DOMAIN files : \A v : Holds(f, v)' <=> Holds(f, v)
  BY DEF Holds, Batch
<1>4. \A v \in 1..input : v \in 1..input'
  BY <1>1
<1>5. ASSUME NEW v \in 1..input - 1
      PROVE  v \in 1..input' - 1
  BY <1>1, Below
<1>6. \A v : Splices(v)' = Splices(v)
  BY DEF Splices, Splice, Cuts
<1>7. \A f \in DOMAIN files' :
        \/ files'[f] = Torn
        \/ \E v \in 1..input' : Holds(f, v)'
        \/ f.stamp \in spliced' /\ \E v \in 1..input' - 1 : \E text \in Splices(v) :
                                    files'[f] = Batch(text)
  <2> SUFFICES ASSUME NEW f \in DOMAIN files', files'[f] # Torn
               PROVE  \/ \E v \in 1..input' : Holds(f, v)'
                      \/ f.stamp \in spliced' /\ \E v \in 1..input' - 1 : \E text \in Splices(v) :
                                                  files'[f] = Batch(text)
    OBVIOUS
  <2>1. CASE f \in DOMAIN files
    <3>1. CASE \E v \in 1..input : Holds(f, v)
      BY <2>1, <3>1, <1>3, <1>4
    <3>2. CASE f.stamp \in spliced /\ \E v \in 1..input - 1 : \E text \in Splices(v) :
                                        files[f] = Batch(text)
      <4>1. PICK v \in 1..input - 1 : \E text \in Splices(v) : files[f] = Batch(text)
        BY <3>2
      <4>2. v \in 1..input' - 1 /\ f.stamp \in spliced' /\ files'[f] = files[f]
        BY <2>1, <3>2, <4>1, <1>5
      <4> QED
        BY <4>1, <4>2
    <3> QED
      BY <2>1, <3>1, <3>2 DEF IInv, DumpsFollowVersions
  <2>2. CASE input \in 1..Len(Versions) /\ \E text : Fits(f, files'[f], spliced', text)
    <3>1. PICK text : Fits(f, files'[f], spliced', text)
      BY <2>2
    <3>2. files'[f] = Batch(text) /\ f.stamp = clock /\ text \in Seq(Conversation)
      BY <3>1 DEF Fits
    <3>3. CASE clock \notin spliced' /\ text = Versions[input] /\ input' = input
      <4>1. Versions[input] # <<>>
        <5>1. ASSUME text = <<>>
              PROVE  files'[f] = Torn
          BY <3>2, <5>1 DEF Batch, Torn
        <5> QED
          BY <3>3, <5>1
      <4>2. Holds(f, input)'
        BY <3>2, <3>3, <4>1 DEF Holds, Batch
      <4>3. input \in 1..input'
        BY <2>2, <3>3
      <4> QED
        BY <3>3, <4>2, <4>3
    <3>4. CASE clock \in spliced' /\ input' = input + 1 /\ text \in Splices(input)
      <4>1. input \in 1..input' - 1
        BY <2>2, <3>4, <1>1
      <4> QED
        BY <3>2, <3>4, <4>1
    <3> QED
      BY <3>1, <3>3, <3>4 DEF Fits
  <2> QED
    BY <2>1, <2>2
<1>8. \A f \in DOMAIN files' : \A i \in DOMAIN files'[f] : files'[f][i].entry \notin Malformed
  <2> SUFFICES ASSUME NEW f \in DOMAIN files', NEW i \in DOMAIN files'[f]
               PROVE  files'[f][i].entry \notin Malformed
    OBVIOUS
  <2>1. CASE f \in DOMAIN files
    BY <2>1 DEF IInv, DumpsFollowVersions
  <2>2. ASSUME NEW text, Fits(f, files'[f], spliced', text)
        PROVE  files'[f][i].entry \notin Malformed
    <3>1. files'[f] = Batch(text) /\ text \in Seq(Conversation) /\ HasSchemas(text)
      BY <2>2 DEF Fits, Torn
    <3> QED
      BY <3>1, BatchType DEF HasSchemas
  <2> QED
    BY <2>1, <2>2
<1>9. ASSUME NEW f \in DOMAIN files', NEW g \in DOMAIN files',
             NEW v \in 1..input', NEW w \in 1..input',
             f.stamp < g.stamp, Holds(f, v)', Holds(g, w)'
      PROVE  v <= w
  <2>0. v \in 1..Len(Versions) /\ w \in 1..Len(Versions)
    BY <1>1
  <2>1. f \in DOMAIN files
    <3>1. ASSUME f.stamp = clock
          PROVE  FALSE
      <4>1. g \in DOMAIN files => g.stamp < clock
        BY <1>1, <1>2
      <4>2. g.stamp = clock => FALSE
        BY <1>1, <1>9, <3>1
      <4> QED
        BY <1>1, <1>9, <3>1, <4>1, <4>2, <1>2 DEF Fits
    <3> QED
      BY <3>1 DEF Fits
  <2>2. v \in 1..input
    BY <1>3, <1>9, <2>0, <2>1, HeldBefore
  <2>3. CASE g \in DOMAIN files
    <3>1. w \in 1..input
      BY <1>3, <1>9, <2>0, <2>3, HeldBefore
    <3> QED
      BY <1>3, <1>9, <2>1, <2>2, <2>3, <3>1 DEF IInv, DumpsFollowVersions
  <2>4. ASSUME input \in 1..Len(Versions), NEW text, Fits(g, files'[g], spliced', text)
        PROVE  v <= w
    <3>1. g.stamp \notin spliced' /\ Versions[w] # <<>> /\ files'[g] = Batch(Versions[w])
      BY <1>9 DEF Holds, Batch
    <3>2. Versions[w] \in Seq(Conversation)
      BY <2>0, VersionType
    <3>4. files'[g] # Torn
      BY <3>1, <3>2, BatchNotTorn
    <3>5. /\ files'[g] = Batch(text) /\ text = Versions[input]
          /\ text \in Seq(Conversation)
      BY <2>4, <3>1, <3>4 DEF Fits
    <3>6. Versions[w] = Versions[input]
      BY <3>1, <3>2, <3>5, BatchInjective
    <3>7. w = input
      BY <2>0, <2>4, <3>6, VersionAssumption, VersionType
    <3> QED
      BY <2>2, <3>7
  <2> QED
    BY <2>3, <2>4
<1> QED
  BY <1>7, <1>8, <1>9, <1>6 DEF DumpsFollowVersions, Batch, Torn, HasSchemas

(* A read and what becomes of its batch: nothing, a file with it, a torn   *)
(* one, or only a reading of the clock.                                    *)
LEMMA ReadIInv ==
  ASSUME IInv, NEW text, Read(text),
         \/ UNCHANGED files /\ clock' \in {clock, clock + 1}
         \/ HasSchemas(text) /\ \E content \in {Torn, Batch(text)} : Create(Batch(text), content)
  PROVE  /\ DumpsFollowVersions' /\ clock' \in Nat
         /\ input' \in 0..Len(Versions) /\ partial' \in BOOLEAN /\ spliced' \subseteq Nat
         /\ \A f \in DOMAIN files' :
              /\ f \in [tenant : {tenant_id}, source : {source_id}, stamp : 0..clock' - 1]
              /\ files'[f] \in Seq(Line)
<1>0. TypeOK
  BY DEF IInv
<1>1. /\ text \in Seq(Conversation)
      /\ partial' = partial /\ spliced' \subseteq Nat
      /\ input \in 1..Len(Versions) /\ input' \in input..Len(Versions)
      /\ \A n : n # clock => (n \in spliced' <=> n \in spliced)
      /\ \/ clock \notin spliced' /\ text = Versions[input] /\ input' = input
         \/ clock \in spliced' /\ input' = input + 1 /\ text \in Splices(input)
  BY <1>0, ReadFacts
<1>2. input' \in 0..Len(Versions) /\ partial' \in BOOLEAN
  BY <1>0, <1>1, VersionType DEF TypeOK
<1>3. \A f \in DOMAIN files :
        f.stamp \in 0..clock - 1 /\ (f.stamp \in spliced' <=> f.stamp \in spliced)
  BY <1>0, <1>1 DEF TypeOK
<1>4. CASE UNCHANGED files /\ clock' \in {clock, clock + 1}
  <2>1. DumpsFollowVersions'
    BY <1>1, <1>3, <1>4, DumpGrows
  <2> QED
    BY <1>0, <1>1, <1>2, <1>4, <2>1 DEF TypeOK
<1>5. ASSUME HasSchemas(text), NEW content \in {Torn, Batch(text)}, Create(Batch(text), content)
      PROVE  /\ DumpsFollowVersions' /\ clock' \in Nat
             /\ \A f \in DOMAIN files' :
                  /\ f \in [tenant : {tenant_id}, source : {source_id}, stamp : 0..clock' - 1]
                  /\ files'[f] \in Seq(Line)
  <2> DEFINE name == FileName(Batch(text), clock)
  <2>1. clock \in Nat /\ clock' = clock + 1 /\ Batch(text) \in Seq(Line) /\ Batch(text) # <<>>
    BY <1>0, <1>1, <1>5, BatchType DEF TypeOK, Create
  <2>2. Head(Batch(text)) \in Line
    BY <2>1
  <2>3. name = [tenant |-> tenant_id, source |-> source_id, stamp |-> clock]
    BY <2>2 DEF FileName, Line
  <2>4. /\ DOMAIN files' = DOMAIN files \cup {name}
        /\ files'[name] = content
        /\ \A f \in DOMAIN files : f # name => files'[f] = files[f]
    BY <1>5 DEF Create, Put
  <2>5. \A f \in DOMAIN files : f # name
    BY <1>3, <2>1, <2>3
  <2>6. content \in Seq(Line)
    <3>1. <<>> \in Seq(Line)
      OBVIOUS
    <3> QED
      BY <2>1, <3>1 DEF Torn
  <2>7. name.stamp = clock
    BY <2>3
  <2>8. Fits(name, files'[name], spliced', text)
    BY <1>1, <1>5, <2>4, <2>7 DEF Fits
  <2>9. name \in [tenant : {tenant_id}, source : {source_id}, stamp : 0..clock' - 1]
    BY <2>1, <2>3
  <2>10. \A f \in DOMAIN files :
           f \in [tenant : {tenant_id}, source : {source_id}, stamp : 0..clock' - 1]
    BY <1>0, <2>1 DEF TypeOK
  <2> HIDE DEF name
  <2>11. DumpsFollowVersions'
    BY <1>1, <1>3, <2>4, <2>5, <2>8, DumpGrows
  <2> QED
    BY <1>0, <2>1, <2>4, <2>5, <2>6, <2>9, <2>10, <2>11 DEF TypeOK
<1> QED
  BY <1>1, <1>2, <1>4, <1>5

(* The steps that leave the dump alone.                                    *)
LEMMA QuietIInv ==
  ASSUME IInv, UNCHANGED <<spliced, sinkVars>>, input' \in input..Len(Versions)
  PROVE  DumpsFollowVersions'
BY DumpGrows DEF sinkVars

LEMMA NextIInv == IInv /\ [Next]_vars => IInv'
<1> SUFFICES ASSUME IInv, [Next]_vars
             PROVE  IInv'
  OBVIOUS
<1>0. input \in 0..Len(Versions) /\ input \in input..Len(Versions)
  BY VersionType DEF IInv, TypeOK
<1>1. CASE BeginVersion
  BY <1>0, <1>1, QuietIInv DEF IInv, TypeOK, BeginVersion, sinkVars, pollVars
<1>2. CASE EndVersion
  <2>1. input' \in 0..Len(Versions) /\ input' \in input..Len(Versions)
    BY <1>0, <1>2, VersionType DEF EndVersion
  <2> QED
    BY <1>2, <2>1, QuietIInv DEF IInv, TypeOK, EndVersion, sinkVars, pollVars
<1>3. CASE Load
  <2>1. PICK text \in Texts : Read(text) /\ HasSchemas(text) /\ Write(Batch(text))
    BY <1>3 DEF Load
  <2>2. \/ UNCHANGED files /\ clock' \in {clock, clock + 1}
        \/ \E content \in {Torn, Batch(text)} : Create(Batch(text), content)
    BY <2>1 DEF Write, sinkVars
  <2>3. phase' = "sleeping" /\ polls' = polls + 1 /\ restarts' = restarts
    BY <1>3 DEF Load, Poll
  <2> QED
    BY <2>1, <2>2, <2>3, ReadIInv DEF IInv, TypeOK
<1>4. CASE Fail
  <2>1. phase' = "crashed" /\ polls' = polls + 1 /\ restarts' = restarts /\ UNCHANGED sinkVars
    BY <1>4 DEF Fail, Poll, WriteThrows
  <2>2. CASE UNCHANGED <<input, partial, spliced, sinkVars>>
    BY <1>0, <2>1, <2>2, QuietIInv DEF IInv, TypeOK, sinkVars
  <2>3. CASE \E text \in Texts : Read(text)
    BY <2>1, <2>3, ReadIInv DEF IInv, TypeOK, sinkVars
  <2> QED
    BY <1>4, <2>2, <2>3 DEF Fail
<1>5. CASE Wake
  BY <1>0, <1>5, QuietIInv DEF IInv, TypeOK, Wake, sinkVars
<1>6. CASE Restart
  <2>1. phase' = "due" /\ polls' = 0 /\ restarts' = restarts + 1
    BY <1>6 DEF Restart
  <2>2. CASE UNCHANGED <<input, partial, spliced, sinkVars>>
    BY <1>0, <2>1, <2>2, QuietIInv DEF IInv, TypeOK, sinkVars
  <2>3. ASSUME NEW text \in Texts, Read(text), HasSchemas(text), Create(Batch(text), Torn)
        PROVE  IInv'
    BY <2>1, <2>3, ReadIInv DEF IInv, TypeOK
  <2> QED
    BY <1>6, <2>2, <2>3 DEF Restart
<1>7. CASE UNCHANGED vars
  BY <1>0, <1>7, QuietIInv DEF IInv, TypeOK, vars, pollVars, sinkVars
<1> QED
  BY <1>1, <1>2, <1>3, <1>4, <1>5, <1>6, <1>7 DEF Next

LEMMA IInvHolds == Spec => []IInv
BY InitIInv, NextIInv, PTL DEF Spec

(* The variables have their types, whatever fails and however often.       *)
THEOREM TypeCorrect == Spec => []TypeOK
<1>1. IInv => TypeOK
  BY DEF IInv
<1> QED
  BY <1>1, IInvHolds, PTL

(* No file of the dump mixes versions of the input file or lacks a part of *)
(* one, unless one was written over the other under the read, and the time *)
(* stamps order the files as the versions.                                 *)
THEOREM VersionsInOrder == Spec => []DumpsFollowVersions
<1>1. IInv => DumpsFollowVersions
  BY DEF IInv
<1> QED
  BY <1>1, IInvHolds, PTL
===============================================================================
