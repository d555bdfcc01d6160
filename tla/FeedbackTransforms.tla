-------------------------- MODULE FeedbackTransforms --------------------------
(***************************************************************************)
(* What becomes of one batch of raw feedback: the algorithms.hpp of its    *)
(* source turns it into a vector of schemas, which the JSON serializer     *)
(* (include/schema_serializers/) turns into the content of a dump file.    *)
(*                                                                         *)
(* Texts are opaque.  A rating is a double and kept as it is; the counts   *)
(* of likes and of readers are JSON integers of 64 bits and become ints.   *)
(* An element that has a field of another type than the code asks for is   *)
(* malformed, and nlohmann::json throws.  To read a field that is not there*)
(* at all is undefined behaviour (operator[] of a const json).             *)
(***************************************************************************)
EXTENDS Integers, Sequences

CONSTANTS
  Text,           \* the strings
  IntMax,         \* the greatest int
  source_id,
  tenant_id,
  topic_id,       \* of the discourse source
  Review,         \* what may be in the review_stream of a notifyu request,
  Conversation,   \* in a filepp file,
  Post,           \* on Discourse
  Malformed,      \* an element none of whose fields can be relied on
  Lacking,        \* an element without one of its fields
  nullopt,        \* the empty tl::optional
  null,           \* the JSON null
  MaxItems        \* bound for TLC: on the elements of the raw data

ASSUME NumberAssumption == IntMax \in Nat /\ MaxItems \in Nat
                              /\ source_id \in Int /\ tenant_id \in Int

Message == UNION {[speakers -> Text] : speakers \in {{"User"}, {"Support"}, {"User", "Support"}}}

ASSUME RawAssumption ==
  /\ Review \subseteq
       [country : Text, app_version : Text, rating : Int, likes : Int, review : Text]
  /\ Conversation \subseteq [app_version : Text, conversation : Seq(Message)]
  /\ Post \subseteq
       [id : -IntMax - 1..IntMax, topic_id : Int, score : Int, readers_count : Int, cooked : Text]
  /\ \A p, q \in Post : p.id = q.id => p = q

MetadataKey == {"location", "app_version", "rating", "impressions"}

ASSUME SpecialAssumption ==
  /\ {Malformed, Lacking} \cap (Review \cup Conversation \cup Post) = {}
  /\ Malformed # Lacking
  /\ nullopt \notin Text \cup Int
  /\ \A S \in SUBSET MetadataKey : null \notin [S -> Text \cup Int]

VARIABLES
  kind,           \* the kind of the source
  found,          \* the posts that the search of a discourse source returned
  post_ids,       \* and those of them it asks for
  raw,            \* the raw data of the batch
  phase,          \* how far the batch has come
  schemas,        \* what the transformation returned
  json            \* the content of the dump file

vars == <<kind, found, post_ids, raw, phase, schemas, json>>

Init ==
  /\ kind \in {"notifyu", "filepp", "discourse"}
  /\ phase = IF kind = "discourse" THEN "searching" ELSE "receiving"
  /\ found = <<>> /\ post_ids = <<>> /\ raw = <<>> /\ schemas = <<>>
  /\ json = null

-------------------------------------------------------------------------------
(* Transformation.                                                         *)

(* Faulty variant: a number that an int cannot hold.                       *)
AsWide(n) == n

(* get<int>() of a JSON integer.                                           *)
AsInt(n) == ((n + IntMax + 1) % (2 * IntMax + 2)) - IntMax - 1

MakeSchema(metadata, feedback) ==
  [source_id |-> source_id, tenant_id |-> tenant_id,
   entry |-> [metadata |-> metadata, feedback |-> feedback]]

(* parse_schema *)
ParseReview(r) ==
  MakeSchema([location |-> r.country, app_version |-> r.app_version,
              rating |-> r.rating, impressions |-> AsInt(r.likes)],
             [type |-> "review", value |-> r.review])

(* Faulty variant: the speakers in each other's place.                     *)
SwappedEntry(m) ==
  IF "Support" \in DOMAIN m THEN [user |-> "user_1", message |-> m["Support"]]
  ELSE [user |-> "user_2", message |-> m["User"]]

(* get_conversation_entry: of a message with both keys, the user's.        *)
ConversationEntry(m) ==
  IF "User" \in DOMAIN m THEN [user |-> "user_1", message |-> m["User"]]
  ELSE [user |-> "user_2", message |-> m["Support"]]

(* entry_to_schema *)
ParseConversation(c) ==
  MakeSchema([location |-> nullopt, app_version |-> c.app_version,
              rating |-> nullopt, impressions |-> nullopt],
             [type |-> "conversation",
              value |-> [i \in DOMAIN c.conversation |-> ConversationEntry(c.conversation[i])]])

(* post_to_data_source_entry *)
ParsePost(p) ==
  MakeSchema([location |-> nullopt, app_version |-> nullopt,
              rating |-> p.score, impressions |-> AsInt(p.readers_count)],
             [type |-> "review", value |-> p.cooked])

(* parse_schema_list, filepp's to_schema and raw_posts_to_schema.          *)
ToSchema(k, item) ==
  CASE k = "notifyu" -> ParseReview(item)
    [] k = "filepp" -> ParseConversation(item)
    [] k = "discourse" -> ParsePost(item)

-------------------------------------------------------------------------------
(* Serialization: objects are functions from their keys.                   *)
(* Faulty variant: a rating only goes with the version it is about.        *)
SerializeRatedVersion(metadata) ==
  LET present == {k \in MetadataKey :
                    metadata[k] # nullopt /\ (k = "rating" => metadata.app_version # nullopt)}
  IN IF present = {} THEN null ELSE [k \in present |-> metadata[k]]

(* serialize_metadata; an object that no key was put into is a null.       *)
SerializeMetadata(metadata) ==
  LET present == {k \in MetadataKey : metadata[k] # nullopt}
  IN IF present = {} THEN null ELSE [k \in present |-> metadata[k]]

(* serialize_conversation_entry *)
SerializeConversationEntry(e) ==
  [message |-> e.message, user |-> IF e.user = "user_1" THEN "user1" ELSE "user2"]

(* serialize_feedback; no data is pushed back for an empty conversation.   *)
SerializeFeedback(f) ==
  IF f.type = "conversation"
  THEN IF f.value = <<>> THEN [feedback_type |-> "conversation"]
       ELSE [feedback_type |-> "conversation",
             data |-> [i \in DOMAIN f.value |-> SerializeConversationEntry(f.value[i])]]
  ELSE [feedback_type |-> "review", data |-> f.value]

(* serialize_to_json of a schema. *)
SerializeToJson(s) ==
  [source_id |-> s.source_id, tenant_id |-> s.tenant_id,
   entry |-> [metadata |-> SerializeMetadata(s.entry.metadata),
              feedback |-> SerializeFeedback(s.entry.feedback)]]

-------------------------------------------------------------------------------
(* An element as the source's kind has it.                                 *)
Item ==
  CASE kind = "notifyu" -> Review
    [] kind = "filepp" -> Conversation
    [] kind = "discourse" -> Post

(* What Discourse, a client or somebody's file may have in place of one.   *)
Raw == Item \cup {Malformed, Lacking}

(* A client writes a request, somebody a file.                             *)
Supply ==
  /\ phase = "receiving" /\ kind # "discourse" /\ Len(raw) < MaxItems
  /\ \E item \in Raw : raw' = Append(raw, item)
  /\ UNCHANGED <<kind, found, post_ids, phase, schemas, json>>

(* Discourse finds another post, of any topic, for the dates asked for.    *)
Find ==
  /\ phase = "searching" /\ Len(found) < MaxItems
  /\ \E p \in Post \cup {Malformed, Lacking} :
       /\ p \in Post => \A i \in DOMAIN found : found[i] # p
       /\ found' = Append(found, p)
  /\ UNCHANGED <<kind, post_ids, raw, phase, schemas, json>>

(* The ids of the posts at the places required, in their order.            *)
IdsAt(posts, required) ==
  LET ids[n \in 0..Len(posts)] ==
        IF n = 0 THEN <<>>
        ELSE IF n \in required THEN Append(ids[n - 1], AsInt(posts[n].id)) ELSE ids[n - 1]
  IN ids[Len(posts)]

(* Faulty variant: the ids of all posts.                                   *)
GetAllPostIds(posts) == IdsAt(posts, {i \in DOMAIN posts : posts[i] # Malformed})

(* get_post_ids, which passes over a post whose topic cannot be compared.  *)
GetPostIds(posts) ==
  IdsAt(posts, {i \in DOMAIN posts : posts[i] # Malformed /\ posts[i].topic_id = topic_id})

(* What is found in the place of a missing field: not this topic, which    *)
(* passes the post over like one whose topic cannot be compared; or this   *)
(* topic, and some post's id.                                              *)
Reading == {Malformed} \cup [topic_id : {topic_id}, id : {p.id : p \in Post}]

(* fetch_posts_between up to its second request; or an id is no number, or *)
(* the process dies of a missing field.                                    *)
Search ==
  /\ phase = "searching"
  /\ \/ \E read \in [{i \in DOMAIN found : found[i] = Lacking} -> Reading] :
          /\ phase' = "asking"
          /\ post_ids' = GetPostIds([i \in DOMAIN found |->
                                      IF found[i] = Lacking THEN read[i] ELSE found[i]])
     \/ /\ \E i \in DOMAIN found : found[i] \in {Malformed, Lacking}
        /\ phase' = "failed"
        /\ UNCHANGED post_ids
  /\ UNCHANGED <<kind, found, raw, schemas, json>>

(* Discourse answers with the posts asked for.  What it makes of an empty  *)
(* list of ids the code does not know; the URL names the topic.  An error  *)
(* in JSON is read as an answer without posts: operator[] of a json that is*)
(* not const adds the keys that are missing.                               *)
Answer ==
  /\ phase = "asking"
  /\ \E n \in 0..MaxItems :
       /\ raw' \in [1..n -> Raw]
       /\ \/ n = 0
          \/ /\ n = Len(post_ids)
             /\ \A i \in 1..n : raw'[i] \in Post => raw'[i].id = post_ids[i]
          \/ /\ post_ids = <<>>
             /\ \A i \in 1..n : raw'[i] \in Post => raw'[i].topic_id = topic_id
  /\ phase' = "receiving"
  /\ UNCHANGED <<kind, found, post_ids, schemas, json>>

(* The algorithms of the source return, or throw as a whole.  What is found*)
(* in the place of a missing field converts to a value some element has, or*)
(* its conversion throws, or the process dies of it.                       *)
Transform ==
  /\ phase = "receiving"
  /\ \/ /\ \E i \in DOMAIN raw : raw[i] \in {Malformed, Lacking}
        /\ phase' = "failed"
        /\ UNCHANGED schemas
     \/ /\ \A i \in DOMAIN raw : raw[i] # Malformed
        /\ phase' = "transformed"
        /\ \E read \in [{i \in DOMAIN raw : raw[i] = Lacking} -> Item] :
             schemas' = [i \in DOMAIN raw |->
                           ToSchema(kind, IF raw[i] = Lacking THEN read[i] ELSE raw[i])]
  /\ UNCHANGED <<kind, found, post_ids, raw, json>>

(* serialize_to_json of a vector, which the sink only calls with schemas.  *)
Serialize ==
  /\ phase = "transformed" /\ schemas # <<>>
  /\ json' = [i \in DOMAIN schemas |-> SerializeToJson(schemas[i])]
  /\ phase' = "dumped"
  /\ UNCHANGED <<kind, found, post_ids, raw, schemas>>

Next == Supply \/ Find \/ Search \/ Answer \/ Transform \/ Serialize

Spec == Init /\ [][Next]_vars

-------------------------------------------------------------------------------
IntRange == -IntMax - 1..IntMax

Metadata ==
  [location : Text \cup {nullopt}, app_version : Text \cup {nullopt},
   rating : Int \cup {nullopt}, impressions : IntRange \cup {nullopt}]

Feedback ==
  [type : {"review"}, value : Text] \cup
  [type : {"conversation"}, value : Seq([user : {"user_1", "user_2"}, message : Text])]

Schema ==
  [source_id : Int, tenant_id : Int, entry : [metadata : Metadata, feedback : Feedback]]

(* The types of the variables; in particular every int of a schema is one. *)
TypeOK ==
  /\ kind \in {"notifyu", "filepp", "discourse"}
  /\ phase \in {"searching", "asking", "receiving", "transformed", "dumped", "failed"}
  /\ found \in Seq(Post \cup {Malformed, Lacking})
  /\ raw \in Seq(Raw)
  /\ schemas \in Seq(Schema)

(* What a reader of the dump finds, who knows its format but not whose     *)
(* schemas these are.                                                      *)
ReadMetadata(j) ==
  [k \in MetadataKey |-> IF j # null /\ k \in DOMAIN j THEN j[k] ELSE nullopt]

ReadConversationEntry(j) ==
  [user |-> IF j.user = "user1" THEN "user_1" ELSE "user_2", message |-> j.message]

ReadFeedback(j) ==
  IF j.feedback_type = "review" THEN [type |-> "review", value |-> j.data]
  ELSE [type |-> "conversation",
        value |-> IF "data" \in DOMAIN j
                  THEN [i \in DOMAIN j.data |-> ReadConversationEntry(j.data[i])] ELSE <<>>]

ReadSchema(j) ==
  [source_id |-> j.source_id, tenant_id |-> j.tenant_id,
   entry |-> [metadata |-> ReadMetadata(j.entry.metadata),
              feedback |-> ReadFeedback(j.entry.feedback)]]

(* Nothing is lost between the schemas and the dump, though empty fields   *)
(* and the data of an empty conversation are left out of it.               *)
DumpDeterminesSchemas ==
  phase = "dumped" => [i \in DOMAIN json |-> ReadSchema(json[i])] = schemas

TellsReview(r, e) ==
  /\ DOMAIN e.metadata = MetadataKey
  /\ e.metadata.location = r.country
  /\ e.metadata.app_version = r.app_version
  /\ e.metadata.rating = r.rating
  /\ r.likes \in IntRange => e.metadata.impressions = r.likes
  /\ e.feedback = [feedback_type |-> "review", data |-> r.review]

TellsConversation(c, e) ==
  /\ e.metadata = [app_version |-> c.app_version]
  /\ e.feedback.feedback_type = "conversation"
  /\ \A i \in DOMAIN c.conversation :
       LET m == c.conversation[i]
           said == e.feedback.data[i]
       IN IF DOMAIN m = {"Support"} THEN said = [user |-> "user2", message |-> m["Support"]]
          ELSE said = [user |-> "user1", message |-> m["User"]]

TellsPost(p, e) ==
  /\ DOMAIN e.metadata = {"rating", "impressions"}
  /\ e.metadata.rating = p.score
  /\ p.readers_count \in IntRange => e.metadata.impressions = p.readers_count
  /\ e.feedback = [feedback_type |-> "review", data |-> p.cooked]

(* A dump says of every element of the raw data, in their order, whose it  *)
(* is, what it says and who said it; the numbers only if they fit an int,  *)
(* and of a message that both users share, one half.  An element without   *)
(* one of its fields takes nothing from the others.                        *)
DumpTellsWhatWasSent ==
  phase = "dumped" =>
    /\ Len(json) = Len(raw)
    /\ \A i \in DOMAIN raw :
         /\ json[i].source_id = source_id /\ json[i].tenant_id = tenant_id
         /\ raw[i] # Lacking =>
              /\ kind = "notifyu" => TellsReview(raw[i], json[i].entry)
              /\ kind = "filepp" => TellsConversation(raw[i], json[i].entry)
              /\ kind = "discourse" => TellsPost(raw[i], json[i].entry)

(* A dump of a discourse source has posts of its topic only, unless one    *)
(* came without a field, then or in the search; and it has those of the    *)
(* topic that the search found, if they can be read and Discourse sent     *)
(* them whole.  Of an error in the place of the answer there is no dump.   *)
OnlyTheTopic ==
  kind = "discourse" /\ phase = "dumped" =>
    /\ (\A i \in DOMAIN found : found[i] # Lacking) =>
         \A i \in DOMAIN json : raw[i] # Lacking =>
           \E p \in Post : p.topic_id = topic_id /\ json[i].entry.feedback.data = p.cooked
    /\ \A i \in DOMAIN found :
         found[i] \notin {Malformed, Lacking} /\ found[i].topic_id = topic_id =>
           \E k \in DOMAIN json :
             raw[k] = Lacking \/ json[k].entry.feedback.data = found[i].cooked
===============================================================================
