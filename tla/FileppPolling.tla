---------------------------- MODULE FileppPolling ----------------------------
(***************************************************************************)
(* A filepp source: execute_every (include/timer/asio_timer.hpp) calls its *)
(* extract_transform_and_load at the start and then half an hour after     *)
(* each call returned; each call reads the whole input file, parses it and *)
(* writes what it holds to the sink.  Neither the read nor the write       *)
(* suspends the coroutine: a call is one step.                             *)
(*                                                                         *)
(* Whoever supplies the file is another process, which goes on meanwhile.  *)
(* It replaces the file by the next version at once, by a rename, or writes*)
(* over it, so that for a time there is only a part of the version.  A part*)
(* of a JSON array, like a file that is empty or missing, does not parse.  *)
(* But read_file streams the file, and a writer who passes it leaves it    *)
(* with the beginning of one version and the end of the next, cut anywhere,*)
(* which may well parse.  One read is overtaken once at most.              *)
(***************************************************************************)
EXTENDS Integers, Sequences, JsonSink

CONSTANTS
  source_id,
  tenant_id,
  Conversation,   \* what a supplier may put into the input file
  Malformed,      \* those of them that have a field of the wrong type
  Versions,       \* the conversations in each version of the file
  MaxPolls,       \* bounds for TLC: on the calls of one process,
  MaxRestarts     \* and on how often it is killed

ASSUME VersionAssumption ==
  /\ Versions \in Seq(Seq(Conversation)) /\ Versions # <<>>
  /\ \A v, w \in DOMAIN Versions : Versions[v] = Versions[w] => v = w

ASSUME BoundAssumption == MaxPolls \in Nat /\ MaxRestarts \in Nat

VARIABLES
  input,          \* the version the input file has, 0 while there was none
  partial,        \* is a part of the next version all there is
  spliced,        \* history: the stamps of what was read across two versions
  phase,          \* where the coroutine of start() is suspended
  polls,          \* the calls of this process
  restarts

pollVars == <<phase, polls>>
vars == <<input, partial, spliced, pollVars, restarts, sinkVars>>

Init ==
  /\ input \in 0..1
  /\ partial = FALSE
  /\ spliced = {}
  /\ phase = "due"
  /\ polls = 0
  /\ restarts = 0
  /\ SinkInit

-------------------------------------------------------------------------------
(* The supplier of the file, who may also replace it at once.              *)
BeginVersion ==
  /\ input < Len(Versions) /\ ~ partial
  /\ partial' = TRUE
  /\ UNCHANGED <<input, spliced, pollVars, restarts, sinkVars>>

EndVersion ==
  /\ input < Len(Versions)
  /\ input' = input + 1
  /\ partial' = FALSE
  /\ UNCHANGED <<spliced, pollVars, restarts, sinkVars>>

-------------------------------------------------------------------------------
(* read_file.  What it leaves of two versions when the second is written   *)
(* over the first: the conversation at the cut is gone, or is another one. *)
Splice(v, i, j, cut) ==
  SubSeq(Versions[v], 1, i) \o cut \o SubSeq(Versions[v + 1], j, Len(Versions[v + 1]))

Cuts == {<<>>} \cup {<<c>> : c \in Conversation}

Splices(v) ==
  {Splice(v, i, j, cut) :
     i \in 0..Len(Versions[v]), j \in 1..Len(Versions[v + 1]) + 1, cut \in Cuts}

Whole == input # 0 /\ ~ partial

ReadQuietly(text) ==
  /\ Whole
  /\ text = Versions[input]
  /\ spliced' = spliced \ {clock}
  /\ UNCHANGED <<input, partial>>

ReadOvertaken(text) ==
  /\ Whole /\ input < Len(Versions)
  /\ text \in Splices(input)
  /\ spliced' = spliced \cup {clock}
  /\ input' = input + 1
  /\ UNCHANGED partial

Read(text) == ReadQuietly(text) \/ ReadOvertaken(text)

Texts ==
  {Versions[v] : v \in DOMAIN Versions} \cup UNION {Splices(v) : v \in 1..Len(Versions) - 1}

-------------------------------------------------------------------------------
(* json::parse takes what is whole; to_schema then throws at a malformed   *)
(* conversation.                                                           *)
HasSchemas(text) == \A i \in DOMAIN text : text[i] \notin Malformed

Batch(text) ==
  [i \in DOMAIN text |->
     [source_id |-> source_id, tenant_id |-> tenant_id, entry |-> text[i]]]

Poll ==
  /\ phase = "due" /\ polls < MaxPolls
  /\ polls' = polls + 1
  /\ UNCHANGED restarts

(* Faulty variant: the conversations of the version before are kept.       *)
LoadWithLast ==
  /\ Poll
  /\ \E text \in Texts :
       /\ Read(text) /\ HasSchemas(text)
       /\ Write((IF input > 1 THEN Batch(Versions[input - 1]) ELSE <<>>) \o Batch(text))
  /\ phase' = "sleeping"

(* extract_transform_and_load, then the timer is set.                      *)
Load ==
  /\ Poll
  /\ \E text \in Texts : Read(text) /\ HasSchemas(text) /\ Write(Batch(text))
  /\ phase' = "sleeping"

(* The exception of the JSON parser, of to_schema or of the sink leaves the*)
(* loop of execute_every; start() logs it and returns, and nobody calls it *)
(* again.                                                                  *)
Fail ==
  /\ Poll
  /\ \/ ~ Whole /\ UNCHANGED <<input, partial, spliced, sinkVars>>
     \/ \E text \in Texts :
          /\ Read(text)
          /\ \/ ~ HasSchemas(text) /\ UNCHANGED sinkVars
             \/ HasSchemas(text) /\ WriteThrows(Batch(text))
  /\ phase' = "crashed"

Wake ==
  /\ phase = "sleeping"
  /\ phase' = "due"
  /\ UNCHANGED <<input, partial, spliced, polls, restarts, sinkVars>>

(* The process is killed, perhaps in the middle of a dump file, and started*)
(* again.                                                                  *)
Restart ==
  /\ restarts < MaxRestarts
  /\ restarts' = restarts + 1
  /\ \/ UNCHANGED <<input, partial, spliced, sinkVars>>
     \/ /\ phase = "due"
        /\ \E text \in Texts : Read(text) /\ HasSchemas(text) /\ Create(Batch(text), Torn)
  /\ phase' = "due"
  /\ polls' = 0

Next == BeginVersion \/ EndVersion \/ Load \/ Fail \/ Wake \/ Restart

Spec == Init /\ [][Next]_vars

-------------------------------------------------------------------------------
Line == [source_id : {source_id}, tenant_id : {tenant_id}, entry : Conversation]

(* The types of the variables; the files of the dump are named after this  *)
(* source and its tenant, and stamped in the past.                         *)
TypeOK ==
  /\ input \in 0..Len(Versions)
  /\ partial \in BOOLEAN
  /\ spliced \subseteq Nat
  /\ phase \in {"due", "sleeping", "crashed"}
  /\ polls \in Nat
  /\ restarts \in Nat
  /\ clock \in Nat
  /\ \A f \in DOMAIN files :
       /\ f \in [tenant : {tenant_id}, source : {source_id}, stamp : 0..clock - 1]
       /\ files[f] \in Seq(Line)

Holds(f, v) ==
  f.stamp \notin spliced /\ Versions[v] # <<>> /\ files[f] = Batch(Versions[v])

(* Every file of the dump is one version of the input as a whole, none of  *)
(* it missing and none of another version with it, or was left empty by a  *)
(* failure, or was read across two versions, of which nothing but one      *)
(* conversation at the cut is other than they were; none has a malformed   *)
(* conversation.  The time stamps order the whole files as the versions,   *)
(* across restarts too.                                                    *)
DumpsFollowVersions ==
  /\ \A f \in DOMAIN files :
       \/ files[f] = Torn
       \/ \E v \in 1..input : Holds(f, v)
       \/ f.stamp \in spliced /\ \E v \in 1..input - 1 : \E text \in Splices(v) :
                                  files[f] = Batch(text)
  /\ \A f \in DOMAIN files : \A i \in DOMAIN files[f] : files[f][i].entry \notin Malformed
  /\ \A f, g \in DOMAIN files : \A v, w \in 1..input :
       f.stamp < g.stamp /\ Holds(f, v) /\ Holds(g, w) => v <= w
===============================================================================
