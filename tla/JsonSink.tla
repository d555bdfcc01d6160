------------------------------- MODULE JsonSink -------------------------------
(***************************************************************************)
(* rd::json_sink_t (include/sink/json_sink.hpp): every batch of schemas    *)
(* becomes one JSON file, named after the tenant and the source of the     *)
(* batch's first schema and the system clock.                              *)
(*                                                                         *)
(* write() reads the clock once per file.  Two readings of the system      *)
(* clock with a file write between them differ, as long as nobody sets the *)
(* clock back; clock counts those readings.                                *)
(***************************************************************************)
EXTENDS Naturals, Sequences

CONSTANT Faults     \* the failures the environment may cause, "disk" among them

VARIABLES
  files,            \* the dump directory: a function from file names to batches
  clock             \* the system clock, as far as file names can tell it apart

sinkVars == <<files, clock>>

(* What is left of a batch in a file that was created but not written out. *)
Torn == <<>>

SinkInit ==
  /\ files = [f \in {} |-> Torn]
  /\ clock = 0

-------------------------------------------------------------------------------
(* Faulty variant: a name that leaves the time stamp out.                  *)
FileNameWithoutStamp(batch, now) ==
  [tenant |-> Head(batch).tenant_id, source |-> Head(batch).source_id, stamp |-> 0]

(* Faulty variant: the two ids in each other's place.                      *)
FileNameSwapped(batch, now) ==
  [tenant |-> Head(batch).source_id, source |-> Head(batch).tenant_id, stamp |-> now]
-------------------------------------------------------------------------------

(* create_dir_name and create_json_file_name.                              *)
FileName(batch, now) ==
  [tenant |-> Head(batch).tenant_id, source |-> Head(batch).source_id, stamp |-> now]

(* std::ofstream truncates a file that is already there.                   *)
Put(name, content) ==
  files' = [f \in DOMAIN files \cup {name} |-> IF f = name THEN content ELSE files[f]]

Create(batch, content) ==
  /\ batch # <<>>
  /\ Put(FileName(batch, clock), content)
  /\ clock' = clock + 1

(* Faulty variant: a batch of one schema is taken for an empty one.        *)
WriteUnlessSingle(batch) ==
  IF Len(batch) <= 1 THEN UNCHANGED sinkVars ELSE Create(batch, batch)

(* write() when it returns: nothing to do for an empty batch; otherwise a  *)
(* file with the batch.  With a failing disk the stream goes bad, nobody   *)
(* looks, and the file is missing or torn.                                 *)
Write(batch) ==
  \/ batch = <<>> /\ UNCHANGED sinkVars
  \/ Create(batch, batch)
  \/ "disk" \in Faults /\ Create(batch, Torn)
  \/ "disk" \in Faults /\ batch # <<>> /\ clock' = clock + 1 /\ UNCHANGED files

(* write() when it throws: create_directories fails, before the file name  *)
(* is made.                                                                *)
WriteThrows(batch) ==
  /\ "disk" \in Faults
  /\ batch # <<>>
  /\ UNCHANGED sinkVars
===============================================================================
