----------------------------- MODULE LoaderStartup -----------------------------
(***************************************************************************)
(* What main() does before ctx.run(): read the tenants, then the discourse,*)
(* filepp and notifyu files, register every source, and spawn an operation *)
(* state for each of its subscribers.  Between two runs of the program the *)
(* operator adds lines to the files; the dump stays.                       *)
(*                                                                         *)
(* A file is the sequence of its lines that are not blank.  A line of a    *)
(* source file is what it says of the source and the numbers behind that;  *)
(* a word in place of a number reads as a 0 that ends the line.  To read   *)
(* past the end of a line leaves an int uninitialised.                     *)
(*                                                                         *)
(* Nothing is ever removed from the registries, so that register_value     *)
(* returns the number of values it has already taken (InMemoryRegistry).   *)
(***************************************************************************)
EXTENDS Integers, Sequences

CONSTANTS
  TenantLine,     \* the lines the tenant file may have, and
  SourceLine,     \* those the source files may have
  Garbage,        \* what an uninitialised int may hold
  MaxLines,       \* bounds for TLC: on the lines of all files together,
  MaxRuns         \* and on the runs of the program

ASSUME LineAssumption ==
  /\ \A l \in TenantLine : l = [index |-> l.index, who |-> l.who] /\ l.index \in Int
  /\ \A l \in SourceLine : l = [info |-> l.info, numbers |-> l.numbers] /\ l.numbers \in Seq(Int)

ASSUME NumberAssumption == Garbage \subseteq Int /\ MaxLines \in Nat /\ MaxRuns \in Nat

SourceFile == {"discourse", "filepp", "notifyu"}

VARIABLES
  tenantFile,     \* loader_files/tenant.txt
  sourceFile,     \* the other three loader files
  phase,          \* "stopped", the file main() is at, "running" or "aborted"
  todo,           \* the lines of that file that are still to be read, and
  entries,        \* the entries made of the others, still to be registered
  entry_map,      \* from the numbers of the tenant file to keys
  tenants,        \* tenant_registry: key k at k + 1
  infos,          \* data_source_info_registry, likewise
  spawned,        \* data_source_operation_state_registry: the spawned start()s
  dump,           \* who wrote what into which directory, in all runs
  runs

fileVars == <<tenantFile, sourceFile>>
loadVars == <<todo, entries, entry_map, tenants, infos, spawned>>
vars == <<fileVars, phase, loadVars, dump, runs>>

NoKeys == [x \in {} |-> 0]

Init ==
  /\ tenantFile = <<>>
  /\ sourceFile = [f \in SourceFile |-> <<>>]
  /\ phase = "stopped"
  /\ todo = <<>>
  /\ entries = <<>>
  /\ entry_map = NoKeys
  /\ tenants = <<>>
  /\ infos = <<>>
  /\ spawned = <<>>
  /\ dump = {}
  /\ runs = 0

-------------------------------------------------------------------------------
(* The operator: add a line at the end of a file, start the program, and   *)
(* stop it again.                                                          *)
Size == Len(tenantFile) + Len(sourceFile["discourse"])
          + Len(sourceFile["filepp"]) + Len(sourceFile["notifyu"])

Edit ==
  /\ phase = "stopped"
  /\ Size < MaxLines
  /\ \/ \E l \in TenantLine : tenantFile' = Append(tenantFile, l) /\ UNCHANGED sourceFile
     \/ \E l \in SourceLine, f \in SourceFile :
          /\ sourceFile' = [sourceFile EXCEPT ![f] = Append(@, l)]
          /\ UNCHANGED tenantFile
  /\ UNCHANGED <<phase, loadVars, dump, runs>>

Start ==
  /\ phase = "stopped"
  /\ runs < MaxRuns
  /\ runs' = runs + 1
  /\ phase' = "tenant"
  /\ todo' = tenantFile
  /\ UNCHANGED <<fileVars, entries, entry_map, tenants, infos, spawned, dump>>

Stop ==
  /\ phase \in {"running", "aborted"}
  /\ phase' = "stopped"
  /\ todo' = <<>>
  /\ entries' = <<>>
  /\ entry_map' = NoKeys
  /\ tenants' = <<>>
  /\ infos' = <<>>
  /\ spawned' = <<>>
  /\ UNCHANGED <<fileVars, dump, runs>>

-------------------------------------------------------------------------------
(* Faulty variant: the keys are counted from one.                          *)
RegisterTenantFromOne ==
  /\ phase = "tenant" /\ todo # <<>>
  /\ tenants' = Append(tenants, Head(todo).who)
  /\ entry_map' = [x \in DOMAIN entry_map \cup {Head(todo).index} |->
                     IF x = Head(todo).index THEN Len(tenants') ELSE entry_map[x]]
  /\ todo' = Tail(todo)
  /\ UNCHANGED <<fileVars, phase, entries, infos, spawned, dump, runs>>

(* Faulty variant: entry_map.emplace, which keeps the first of two keys.   *)
RegisterTenantOnce ==
  /\ phase = "tenant" /\ todo # <<>>
  /\ tenants' = Append(tenants, Head(todo).who)
  /\ entry_map' = [x \in DOMAIN entry_map \cup {Head(todo).index} |->
                     IF x \in DOMAIN entry_map THEN entry_map[x] ELSE Len(tenants)]
  /\ todo' = Tail(todo)
  /\ UNCHANGED <<fileVars, phase, entries, infos, spawned, dump, runs>>

(* register_entry of read_tenant_file.hpp: a number that comes up again    *)
(* means the last tenant that has it.                                      *)
RegisterTenant ==
  /\ phase = "tenant" /\ todo # <<>>
  /\ tenants' = Append(tenants, Head(todo).who)
  /\ entry_map' = [x \in DOMAIN entry_map \cup {Head(todo).index} |->
                     IF x = Head(todo).index THEN Len(tenants) ELSE entry_map[x]]
  /\ todo' = Tail(todo)
  /\ UNCHANGED <<fileVars, phase, entries, infos, spawned, dump, runs>>

-------------------------------------------------------------------------------
(* The i-th number of a line, as stream >> reads it.                       *)
Reads(line, i) == IF i \in DOMAIN line.numbers THEN {line.numbers[i]} ELSE Garbage

(* A count and as many tenants: discourse and filepp.                      *)
CountedTenants(line) ==
  UNION {{s \in [1..n -> UNION {Reads(line, i + 1) : i \in 1..n}] :
            \A i \in 1..n : s[i] \in Reads(line, i + 1)} : n \in Reads(line, 1)}

(* Faulty variant: notifyu lines are read like those of the other files.   *)
AlwaysCounted(f, line) == CountedTenants(line)

(* The numbers of the subscribers that get_loader_entry may read.          *)
Subscribers(f, line) ==
  IF f = "notifyu" THEN {<<x>> : x \in Reads(line, 1)} ELSE CountedTenants(line)

OpenFile(before, f) ==
  /\ phase = before /\ todo = <<>> /\ entries = <<>>
  /\ phase' = f
  /\ todo' = sourceFile[f]
  /\ UNCHANGED <<fileVars, entries, entry_map, tenants, infos, spawned, dump, runs>>

(* get_loader_entry of one line, for make_loader_entries: entry_map.at     *)
(* throws for an unknown tenant, and main() does not catch that.           *)
ReadLine ==
  /\ phase \in SourceFile /\ todo # <<>>
  /\ \E read \in Subscribers(phase, Head(todo)) :
       IF \A j \in DOMAIN read : read[j] \in DOMAIN entry_map
       THEN /\ entries' = Append(entries,
                 [info |-> Head(todo).info,
                  tenants |-> [j \in DOMAIN read |-> entry_map[read[j]]]])
            /\ UNCHANGED phase
       ELSE phase' = "aborted" /\ UNCHANGED entries
  /\ todo' = Tail(todo)
  /\ UNCHANGED <<fileVars, entry_map, tenants, infos, spawned, dump, runs>>

(* load_into_application for one entry, when all lines are read: the       *)
(* source is registered and a start() spawned for each of its subscribers. *)
RegisterSource ==
  /\ phase \in SourceFile /\ todo = <<>> /\ entries # <<>>
  /\ infos' = Append(infos, Head(entries).info)
  /\ spawned' = spawned \o
       [i \in DOMAIN Head(entries).tenants |->
          [source_id |-> Len(infos), tenant_id |-> Head(entries).tenants[i], kind |-> phase]]
  /\ entries' = Tail(entries)
  /\ UNCHANGED <<fileVars, phase, todo, entry_map, tenants, dump, runs>>

(* The accept loop is spawned and ctx.run() called.                        *)
Run ==
  /\ phase = "notifyu" /\ todo = <<>> /\ entries = <<>>
  /\ phase' = "running"
  /\ UNCHANGED <<fileVars, loadVars, dump, runs>>

(* Faulty variant: a directory per source.                                 *)
SourceDirectory(op) == op.source_id

(* create_dir_name of the sink.                                            *)
Directory(op) == op.tenant_id

(* A spawned source writes a batch.                                        *)
Write ==
  /\ phase = "running"
  /\ \E i \in DOMAIN spawned :
       dump' = dump \cup {[dir |-> Directory(spawned[i]),
                           who |-> tenants[spawned[i].tenant_id + 1]]}
  /\ UNCHANGED <<fileVars, phase, loadVars, runs>>

Next ==
  \/ Edit \/ Start \/ Stop
  \/ RegisterTenant
  \/ OpenFile("tenant", "discourse")
  \/ OpenFile("discourse", "filepp")
  \/ OpenFile("filepp", "notifyu")
  \/ ReadLine
  \/ RegisterSource
  \/ Run
  \/ Write

Spec == Init /\ [][Next]_vars

-------------------------------------------------------------------------------
Who == {l.who : l \in TenantLine}
Info == {l.info : l \in SourceLine}

(* The types of the variables: a key of a tenant is one the tenant registry*)
(* has, and one of a source likewise.                                      *)
TypeOK ==
  /\ tenantFile \in Seq(TenantLine)
  /\ sourceFile \in [SourceFile -> Seq(SourceLine)]
  /\ phase \in SourceFile \cup {"stopped", "tenant", "running", "aborted"}
  /\ phase = "tenant" => todo \in Seq(TenantLine)
  /\ phase \in SourceFile => todo \in Seq(SourceLine)
  /\ entries \in Seq([info : Info, tenants : Seq(Nat)])
  /\ \A i \in DOMAIN entries : \A j \in DOMAIN entries[i].tenants :
       entries[i].tenants[j] < Len(tenants)
  /\ tenants \in Seq(Who)
  /\ DOMAIN entry_map \subseteq Int
  /\ \A x \in DOMAIN entry_map : entry_map[x] \in 0..Len(tenants) - 1
  /\ infos \in Seq(Info)
  /\ spawned \in Seq([source_id : Nat, tenant_id : Nat, kind : SourceFile])
  /\ \A i \in DOMAIN spawned :
       spawned[i].source_id < Len(infos) /\ spawned[i].tenant_id < Len(tenants)
  /\ runs \in Nat

(* The sources of the files in the order in which they get their keys.     *)
Tagged(f) == [i \in DOMAIN sourceFile[f] |-> [file |-> f, line |-> sourceFile[f][i]]]

AllSources == Tagged("discourse") \o Tagged("filepp") \o Tagged("notifyu")

(* The numbers a line states as its subscribers, if it states all of them. *)
Complete(f, line) ==
  Len(line.numbers) >= 1 /\ (f # "notifyu" => Len(line.numbers) > line.numbers[1])

Stated(f, line) ==
  IF f = "notifyu" THEN <<line.numbers[1]>> ELSE SubSeq(line.numbers, 2, line.numbers[1] + 1)

Names(x, who) ==
  \E i \in DOMAIN tenantFile :
    /\ tenantFile[i] = [index |-> x, who |-> who]
    /\ \A j \in i + 1..Len(tenantFile) : tenantFile[j].index # x

Starts(key) == {i \in DOMAIN spawned : spawned[i].source_id = key}

(* The start()s of the source with a key are those that its line states,   *)
(* one behind another and in the order of the line.                        *)
StartedAsStated(key, f, line) ==
  \E first \in 0..Len(spawned) :
    /\ Starts(key) = first + 1..first + Len(Stated(f, line))
    /\ \A i \in 1..Len(Stated(f, line)) :
         /\ spawned[first + i].kind = f
         /\ Names(Stated(f, line)[i], tenants[spawned[first + i].tenant_id + 1])

(* When the program runs, every source of the files is registered, and if  *)
(* its line states all its subscribers, exactly these were started for it, *)
(* in the order of the line, whatever other lines are short of.            *)
SubscriptionsMatchFiles ==
  phase = "running" =>
    /\ Len(infos) = Len(AllSources)
    /\ \A k \in DOMAIN AllSources :
         LET f == AllSources[k].file
             line == AllSources[k].line
         IN /\ infos[k] = line.info
            /\ Complete(f, line) => StartedAsStated(k - 1, f, line)

(* README.md: "By design one source can only have one tenant subscriber":  *)
(* a notifyu source is started once, even if its line is cut short.        *)
OneSubscriberPerPushSource ==
  \A i, j \in DOMAIN spawned :
    /\ spawned[i].kind = "notifyu" /\ spawned[j].kind = "notifyu"
    /\ spawned[i].source_id = spawned[j].source_id
    => i = j

(* A directory of the dump belongs to one tenant for ever, provided lines  *)
(* are only added at the end of the tenant file: the directories are named *)
(* after keys that every run gives out anew.                               *)
DirectoryKeepsItsTenant == \A d, e \in dump : d.dir = e.dir => d.who = e.who
===============================================================================
