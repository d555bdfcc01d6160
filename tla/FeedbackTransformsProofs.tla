----------------------- MODULE FeedbackTransformsProofs -----------------------
(***************************************************************************)
(* Proofs about FeedbackTransforms, for raw data of any length and content *)
(* and ints of any width.                                                  *)
(***************************************************************************)
EXTENDS FeedbackTransforms, WellFoundedInduction, TLAPS

(* How far the batch has come, and what it then is.                        *)
Stages ==
  /\ phase \in {"searching", "asking"} => kind = "discourse"
  /\ phase \in {"transformed", "dumped"} =>
       /\ DOMAIN schemas = DOMAIN raw
       /\ \A i \in DOMAIN raw : \E item \in Item :
            raw[i] \in {item, Lacking} /\ schemas[i] = ToSchema(kind, item)
  /\ phase = "dumped" => json = [i \in DOMAIN schemas |-> SerializeToJson(schemas[i])]

IInv == TypeOK /\ Stages

-------------------------------------------------------------------------------
(* An int of a JSON integer is in its range, and that integer if it fits.  *)
LEMMA AsIntRange ==
  ASSUME NEW n \in Int
  PROVE  AsInt(n) \in IntRange /\ (n \in IntRange => AsInt(n) = n)
<1> DEFINE w == 2 * IntMax + 2
           r == (n + IntMax + 1) % w
<1>1. IntMax \in Nat /\ w \in Nat \ {0} /\ n + IntMax + 1 \in Int
  BY NumberAssumption
<1>2. r \in Int /\ 0 <= r /\ r < w
  <2> HIDE DEF w
  <2> QED
    BY <1>1
<1>3. ASSUME 0 <= n + IntMax + 1, n + IntMax + 1 < w
      PROVE  r = n + IntMax + 1
  <2> HIDE DEF w
  <2> QED
    BY <1>1, <1>3
<1>4. AsInt(n) = r - IntMax - 1
  BY DEF AsInt
<1> HIDE DEF r
<1>5. AsInt(n) \in IntRange
  BY <1>1, <1>2, <1>4 DEF IntRange
<1>6. ASSUME n \in IntRange
      PROVE  AsInt(n) = n
  BY <1>1, <1>3, <1>4, <1>6 DEF IntRange
<1> QED
  BY <1>5, <1>6

(* The parsers of the sources return schemas.                              *)
LEMMA ReviewType ==
  ASSUME NEW r \in Review
  PROVE  ParseReview(r) \in Schema
<1>1. r \in [country : Text, app_version : Text, rating : Int, likes : Int, review : Text]
  BY RawAssumption
<1>2. AsInt(r.likes) \in IntRange
  BY <1>1, AsIntRange
<1> QED
  BY <1>1, <1>2, NumberAssumption DEF ParseReview, MakeSchema, Schema, Metadata, Feedback

LEMMA PostType ==
  ASSUME NEW p \in Post
  PROVE  ParsePost(p) \in Schema
<1>1. p.score \in Int /\ p.readers_count \in Int /\ p.cooked \in Text
  BY RawAssumption
<1>2. AsInt(p.readers_count) \in IntRange
  BY <1>1, AsIntRange
<1> QED
  BY <1>1, <1>2, NumberAssumption DEF ParsePost, MakeSchema, Schema, Metadata, Feedback

LEMMA EntryType ==
  ASSUME NEW m \in Message
  PROVE  ConversationEntry(m) \in [user : {"user_1", "user_2"}, message : Text]
BY DEF Message, ConversationEntry

LEMMA ConversationType ==
  ASSUME NEW c \in Conversation
  PROVE  ParseConversation(c) \in Schema
<1> DEFINE Entry == [user : {"user_1", "user_2"}, message : Text]
           value == [i \in DOMAIN c.conversation |-> ConversationEntry(c.conversation[i])]
<1>1. c.app_version \in Text /\ c.conversation \in Seq(Message)
  BY RawAssumption
<1>2. PICK n \in Nat : c.conversation \in [1..n -> Message]
  BY <1>1
<1>3. value \in [1..n -> Entry]
  BY <1>2, EntryType
<1> HIDE DEF value, Entry
<1>4. value \in Seq(Entry)
  BY <1>3
<1>5. [type |-> "conversation", value |-> value] \in Feedback
  BY <1>4 DEF Feedback, Entry
<1>6. ParseConversation(c) =
        MakeSchema([location |-> nullopt, app_version |-> c.app_version,
                    rating |-> nullopt, impressions |-> nullopt],
                   [type |-> "conversation", value |-> value])
  BY DEF ParseConversation, value
<1> DEFINE metadata == [location |-> nullopt, app_version |-> c.app_version,
                        rating |-> nullopt, impressions |-> nullopt]
           feedback == [type |-> "conversation", value |-> value]
<1>7. metadata \in Metadata /\ feedback \in Feedback
  BY <1>1, <1>5 DEF Metadata
<1> HIDE DEF metadata, feedback
<1>8. MakeSchema(metadata, feedback) \in Schema
  BY <1>7, NumberAssumption DEF MakeSchema, Schema
<1> QED
  BY <1>6, <1>8 DEF metadata, feedback

LEMMA SchemaType ==
  ASSUME NEW item \in Item, kind \in {"notifyu", "filepp", "discourse"}
  PROVE  ToSchema(kind, item) \in Schema
BY ReviewType, ConversationType, PostType DEF ToSchema, Item

-------------------------------------------------------------------------------
(* What a reader makes of the serialized parts of a schema.                *)
LEMMA MetadataRead ==
  ASSUME NEW metadata \in Metadata
  PROVE  ReadMetadata(SerializeMetadata(metadata)) = metadata
<1> DEFINE present == {k \in MetadataKey : metadata[k] # nullopt}
           j == [k \in present |-> metadata[k]]
<1>1. metadata = [k \in MetadataKey |-> metadata[k]]
  BY DEF Metadata, MetadataKey
<1>2. \A k \in present : metadata[k] \in Text \cup Int
  BY DEF Metadata, MetadataKey, IntRange
<1>3. \A k \in MetadataKey : k \notin present => metadata[k] = nullopt
  OBVIOUS
<1>4. present \in SUBSET MetadataKey
  OBVIOUS
<1>5. SerializeMetadata(metadata) = IF present = {} THEN null ELSE j
  BY DEF SerializeMetadata
<1> HIDE DEF present
<1>6. CASE present = {}
  <2>1. ReadMetadata(null) = [k \in MetadataKey |-> nullopt]
    BY DEF ReadMetadata
  <2>2. \A k \in MetadataKey : metadata[k] = nullopt
    BY <1>3, <1>6
  <2> QED
    BY <1>1, <1>5, <1>6, <2>1, <2>2
<1>7. CASE present # {}
  <2>1. j \in [present -> Text \cup Int] /\ DOMAIN j = present
    BY <1>2
  <2>2. j # null
    BY <1>4, <2>1, SpecialAssumption
  <2>3. \A k \in MetadataKey : (IF k \in present THEN j[k] ELSE nullopt) = metadata[k]
    BY <1>3
  <2>4. ReadMetadata(j) = [k \in MetadataKey |-> IF k \in present THEN j[k] ELSE nullopt]
    <3> HIDE DEF j
    <3> QED
      BY <2>1, <2>2 DEF ReadMetadata
  <2> QED
    BY <1>1, <1>5, <1>7, <2>3, <2>4
<1> QED
  BY <1>6, <1>7

LEMMA EntryRead ==
  ASSUME NEW e \in [user : {"user_1", "user_2"}, message : Text]
  PROVE  ReadConversationEntry(SerializeConversationEntry(e)) = e
BY DEF ReadConversationEntry, SerializeConversationEntry

LEMMA FeedbackRead ==
  ASSUME NEW f \in Feedback
  PROVE  ReadFeedback(SerializeFeedback(f)) = f
<1> DEFINE Entry == [user : {"user_1", "user_2"}, message : Text]
<1>1. CASE f \in [type : {"review"}, value : Text]
  BY <1>1 DEF ReadFeedback, SerializeFeedback
<1>2. CASE f \in [type : {"conversation"}, value : Seq(Entry)]
  <2>1. f = [type |-> "conversation", value |-> f.value] /\ f.value \in Seq(Entry)
    BY <1>2
  <2>2. CASE f.value = <<>>
    <3>1. SerializeFeedback(f) = [feedback_type |-> "conversation"]
      BY <2>1, <2>2 DEF SerializeFeedback
    <3> QED
      BY <2>1, <2>2, <3>1 DEF ReadFeedback
  <2>3. CASE f.value # <<>>
    <3> DEFINE data == [i \in DOMAIN f.value |-> SerializeConversationEntry(f.value[i])]
               j == [feedback_type |-> "conversation", data |-> data]
    <3>1. SerializeFeedback(f) = j
      BY <2>1, <2>3 DEF SerializeFeedback
    <3>2. PICK n \in Nat : f.value \in [1..n -> Entry]
      <4> HIDE DEF Entry
      <4> QED
        BY <2>1
    <3>3. DOMAIN data = 1..n
          /\ \A i \in 1..n : ReadConversationEntry(data[i]) = f.value[i]
      BY <3>2, EntryRead
    <3> HIDE DEF data
    <3>4. [i \in DOMAIN data |-> ReadConversationEntry(data[i])] = f.value
      BY <3>2, <3>3
    <3>5. j.feedback_type # "review" /\ "data" \in DOMAIN j /\ j.data = data
      OBVIOUS
    <3>6. ReadFeedback(j) = [type |-> "conversation",
                             value |-> [i \in DOMAIN data |-> ReadConversationEntry(data[i])]]
      <4> HIDE DEF j
      <4> QED
        BY <3>5 DEF ReadFeedback
    <3> QED
      BY <2>1, <3>1, <3>4, <3>6
  <2> QED
    BY <2>2, <2>3
<1> QED
  BY <1>1, <1>2 DEF Feedback

LEMMA SchemaRead ==
  ASSUME NEW s \in Schema
  PROVE  ReadSchema(SerializeToJson(s)) = s
<1>1. /\ s = [source_id |-> s.source_id, tenant_id |-> s.tenant_id,
              entry |-> [metadata |-> s.entry.metadata, feedback |-> s.entry.feedback]]
      /\ s.entry.metadata \in Metadata /\ s.entry.feedback \in Feedback
  BY DEF Schema
<1>2. /\ ReadMetadata(SerializeMetadata(s.entry.metadata)) = s.entry.metadata
      /\ ReadFeedback(SerializeFeedback(s.entry.feedback)) = s.entry.feedback
  BY <1>1, MetadataRead, FeedbackRead
<1>3. ReadSchema(SerializeToJson(s)) =
        [source_id |-> s.source_id, tenant_id |-> s.tenant_id,
         entry |-> [metadata |-> ReadMetadata(SerializeMetadata(s.entry.metadata)),
                    feedback |-> ReadFeedback(SerializeFeedback(s.entry.feedback))]]
  BY DEF ReadSchema, SerializeToJson
<1> QED
  BY <1>1, <1>2, <1>3

-------------------------------------------------------------------------------
LEMMA InitIInv ==
  Init => IInv
BY DEF Init, IInv, TypeOK, Stages

LEMMA SupplyIInv ==
  ASSUME IInv, Supply
  PROVE  IInv'
<1> USE DEF IInv, Supply
<1>1. UNCHANGED <<Item, Raw>>
  BY DEF Item, Raw
<1>2. raw' \in Seq(Raw)
  BY DEF TypeOK
<1> QED
  BY <1>1, <1>2 DEF TypeOK, Stages

LEMMA FindIInv ==
  ASSUME IInv, Find
  PROVE  IInv'
<1> USE DEF IInv, Find
<1>1. UNCHANGED <<Item, Raw>>
  BY DEF Item, Raw
<1>2. found' \in Seq(Post \cup {Malformed, Lacking})
  BY DEF TypeOK
<1> QED
  BY <1>1, <1>2 DEF TypeOK, Stages

LEMMA SearchIInv ==
  ASSUME IInv, Search
  PROVE  IInv'
<1>1. UNCHANGED <<Item, Raw>>
  BY DEF Search, Item, Raw
<1> QED
  BY <1>1 DEF IInv, TypeOK, Stages, Search

LEMMA AnswerIInv ==
  ASSUME IInv, Answer
  PROVE  IInv'
<1>1. UNCHANGED <<Item, Raw>>
  BY DEF Answer, Item, Raw
<1>2. raw' \in Seq(Raw)
  <2>1. PICK n \in 0..MaxItems : raw' \in [1..n -> Raw]
    BY DEF Answer
  <2> QED
    BY <2>1, NumberAssumption
<1> QED
  BY <1>1, <1>2 DEF IInv, TypeOK, Stages, Answer

LEMMA TransformIInv ==
  ASSUME IInv, Transform
  PROVE  IInv'
<1>1. UNCHANGED <<Item, Raw>>
  BY DEF Transform, Item, Raw
<1>2. CASE phase' = "failed" /\ UNCHANGED schemas
  BY <1>1, <1>2 DEF IInv, TypeOK, Stages, Transform
<1>3. CASE /\ \A i \in DOMAIN raw : raw[i] # Malformed
           /\ phase' = "transformed"
           /\ \E read \in [{i \in DOMAIN raw : raw[i] = Lacking} -> Item] :
                schemas' = [i \in DOMAIN raw |->
                              ToSchema(kind, IF raw[i] = Lacking THEN read[i] ELSE raw[i])]
  <2>1. PICK n \in Nat : raw \in [1..n -> Raw]
    BY DEF IInv, TypeOK
  <2>2. PICK read \in [{i \in DOMAIN raw : raw[i] = Lacking} -> Item] :
          schemas' = [i \in DOMAIN raw |->
                        ToSchema(kind, IF raw[i] = Lacking THEN read[i] ELSE raw[i])]
    BY <1>3
  <2> DEFINE item(i) == IF raw[i] = Lacking THEN read[i] ELSE raw[i]
  <2>3. \A i \in 1..n : item(i) \in Item /\ raw[i] \in {item(i), Lacking}
    BY <1>3, <2>1 DEF Raw
  <2>4. schemas' = [i \in 1..n |-> ToSchema(kind, item(i))]
    BY <2>1, <2>2
  <2> HIDE DEF item
  <2>5. \A i \in 1..n : ToSchema(kind, item(i)) \in Schema
    BY <2>3, SchemaType DEF IInv, TypeOK
  <2>6. schemas' \in Seq(Schema)
    BY <2>4, <2>5
  <2>7. TypeOK'
    BY <1>1, <1>3, <2>6 DEF IInv, TypeOK, Transform
  <2>8. \A i \in 1..n : raw[i] \in {item(i), Lacking} /\ schemas'[i] = ToSchema(kind, item(i))
    BY <2>3, <2>4
  <2>9. UNCHANGED <<raw, kind>> /\ DOMAIN raw = 1..n /\ DOMAIN schemas' = 1..n
    BY <2>1, <2>4 DEF Transform
  <2>10. Stages'
    BY <1>1, <1>3, <2>3, <2>8, <2>9 DEF Stages
  <2> QED
    BY <2>7, <2>10 DEF IInv
<1> QED
  BY <1>2, <1>3 DEF Transform

LEMMA SerializeIInv ==
  ASSUME IInv, Serialize
  PROVE  IInv'
<1>1. UNCHANGED <<Item, Raw>>
  BY DEF Serialize, Item, Raw
<1>2. TypeOK'
  BY <1>1 DEF IInv, TypeOK, Serialize
<1>3. Stages'
  BY <1>1 DEF IInv, Stages, Serialize
<1> QED
  BY <1>2, <1>3 DEF IInv

(* The inductive invariant.                                                *)
THEOREM Inductive == Spec => []IInv
<1>1. IInv /\ [Next]_vars => IInv'
  <2> SUFFICES ASSUME IInv, [Next]_vars
               PROVE  IInv'
    OBVIOUS
  <2>1. CASE UNCHANGED vars
    <3>1. UNCHANGED <<Item, Raw>>
      BY <2>1 DEF vars, Item, Raw
    <3> QED
      BY <2>1, <3>1 DEF vars, IInv, TypeOK, Stages
  <2> QED
    BY <2>1, SupplyIInv, FindIInv, SearchIInv, AnswerIInv, TransformIInv, SerializeIInv
    DEF Next
<1> QED
  BY <1>1, InitIInv, PTL DEF Spec

(* Every state has variables of their types: every schema of a batch is one*)
(* as schema.hpp declares it, its impressions an int.                      *)
THEOREM TypeCorrect == Spec => []TypeOK
<1>1. IInv => TypeOK
  BY DEF IInv
<1> QED
  BY <1>1, Inductive, PTL

(* The serializer loses nothing: a reader who knows only the format finds  *)
(* the schemas that were written.                                          *)
THEOREM DumpsReadable == Spec => []DumpDeterminesSchemas
<1>1. IInv => DumpDeterminesSchemas
  <2> SUFFICES ASSUME IInv, phase = "dumped"
               PROVE  [i \in DOMAIN json |-> ReadSchema(json[i])] = schemas
    BY DEF DumpDeterminesSchemas
  <2>1. json = [i \in DOMAIN schemas |-> SerializeToJson(schemas[i])]
    BY DEF IInv, Stages
  <2>2. PICK n \in Nat : schemas \in [1..n -> Schema]
    BY DEF IInv, TypeOK
  <2>3. \A i \in 1..n : ReadSchema(json[i]) = schemas[i]
    BY <2>1, <2>2, SchemaRead
  <2>4. DOMAIN json = 1..n
    BY <2>1, <2>2
  <2> QED
    BY <2>2, <2>3, <2>4
<1> QED
  BY <1>1, Inductive, PTL

-------------------------------------------------------------------------------
(* What the dump has of an element of the raw data.                        *)
LEMMA IdsTold ==
  ASSUME NEW metadata, NEW feedback
  PROVE  LET j == SerializeToJson(MakeSchema(metadata, feedback))
         IN  /\ j.source_id = source_id /\ j.tenant_id = tenant_id
             /\ j.entry.metadata = SerializeMetadata(metadata)
             /\ j.entry.feedback = SerializeFeedback(feedback)
BY DEF SerializeToJson, MakeSchema

LEMMA ReviewTold ==
  ASSUME NEW r \in Review
  PROVE  TellsReview(r, SerializeToJson(ParseReview(r)).entry)
<1> DEFINE metadata == [location |-> r.country, app_version |-> r.app_version,
                        rating |-> r.rating, impressions |-> AsInt(r.likes)]
           feedback == [type |-> "review", value |-> r.review]
<1>1. /\ r.country \in Text /\ r.app_version \in Text /\ r.rating \in Int /\ r.likes \in Int
      /\ AsInt(r.likes) \in Int
      /\ r.likes \in IntRange => AsInt(r.likes) = r.likes
  BY RawAssumption, AsIntRange, NumberAssumption DEF IntRange
<1>2. \A k \in MetadataKey : metadata[k] \in Text \cup Int
  BY <1>1 DEF MetadataKey
<1>3. SerializeMetadata(metadata) = [k \in MetadataKey |-> metadata[k]]
  <2> HIDE DEF metadata
  <2>1. {k \in MetadataKey : metadata[k] # nullopt} = MetadataKey
    BY <1>2, SpecialAssumption
  <2>2. MetadataKey # {}
    BY DEF MetadataKey
  <2> QED
    BY <2>1, <2>2 DEF SerializeMetadata
<1>4. SerializeFeedback(feedback) = [feedback_type |-> "review", data |-> r.review]
  BY DEF SerializeFeedback
<1>5. ParseReview(r) = MakeSchema(metadata, feedback)
  BY DEF ParseReview
<1> QED
  BY <1>1, <1>3, <1>4, <1>5, IdsTold DEF TellsReview, MetadataKey

LEMMA PostTold ==
  ASSUME NEW p \in Post
  PROVE  TellsPost(p, SerializeToJson(ParsePost(p)).entry)
<1> DEFINE metadata == [location |-> nullopt, app_version |-> nullopt,
                        rating |-> p.score, impressions |-> AsInt(p.readers_count)]
           feedback == [type |-> "review", value |-> p.cooked]
<1>1. /\ p.score \in Int /\ p.readers_count \in Int /\ AsInt(p.readers_count) \in Int
      /\ p.readers_count \in IntRange => AsInt(p.readers_count) = p.readers_count
  BY RawAssumption, AsIntRange, NumberAssumption DEF IntRange
<1>2. {k \in MetadataKey : metadata[k] # nullopt} = {"rating", "impressions"}
  BY <1>1, SpecialAssumption DEF MetadataKey
<1>3. SerializeMetadata(metadata) = [k \in {"rating", "impressions"} |-> metadata[k]]
  <2> HIDE DEF metadata
  <2> QED
    BY <1>2 DEF SerializeMetadata
<1>4. SerializeFeedback(feedback) = [feedback_type |-> "review", data |-> p.cooked]
  BY DEF SerializeFeedback
<1>5. ParsePost(p) = MakeSchema(metadata, feedback)
  BY DEF ParsePost
<1> QED
  BY <1>1, <1>3, <1>4, <1>5, IdsTold DEF TellsPost

LEMMA ConversationTold ==
  ASSUME NEW c \in Conversation
  PROVE  TellsConversation(c, SerializeToJson(ParseConversation(c)).entry)
<1> DEFINE metadata == [location |-> nullopt, app_version |-> c.app_version,
                        rating |-> nullopt, impressions |-> nullopt]
           value == [i \in DOMAIN c.conversation |-> ConversationEntry(c.conversation[i])]
           feedback == [type |-> "conversation", value |-> value]
           e == SerializeToJson(ParseConversation(c)).entry
<1>1. c.app_version \in Text /\ c.conversation \in Seq(Message)
  BY RawAssumption
<1>2. {k \in MetadataKey : metadata[k] # nullopt} = {"app_version"}
  BY <1>1, SpecialAssumption DEF MetadataKey
<1>3. SerializeMetadata(metadata) = [app_version |-> c.app_version]
  <2>1. SerializeMetadata(metadata) = [k \in {"app_version"} |-> metadata[k]]
    <3> HIDE DEF metadata
    <3> QED
      BY <1>2 DEF SerializeMetadata
  <2> QED
    BY <2>1
<1>4. ParseConversation(c) = MakeSchema(metadata, feedback)
  BY DEF ParseConversation
<1>5. e.metadata = [app_version |-> c.app_version] /\ e.feedback = SerializeFeedback(feedback)
  BY <1>3, <1>4, IdsTold
<1>6. SerializeFeedback(feedback).feedback_type = "conversation"
  BY DEF SerializeFeedback
<1>7. ASSUME NEW i \in DOMAIN c.conversation
      PROVE  SerializeFeedback(feedback).data[i] =
               SerializeConversationEntry(ConversationEntry(c.conversation[i]))
  <2>1. value # <<>> /\ DOMAIN value = DOMAIN c.conversation
        /\ value[i] = ConversationEntry(c.conversation[i])
    BY <1>1
  <2>2. SerializeFeedback(feedback) =
          [feedback_type |-> "conversation",
           data |-> [k \in DOMAIN value |-> SerializeConversationEntry(value[k])]]
    <3> HIDE DEF value
    <3> QED
      BY <2>1 DEF SerializeFeedback
  <2> HIDE DEF value, feedback
  <2>3. SerializeFeedback(feedback).data =
          [k \in DOMAIN value |-> SerializeConversationEntry(value[k])]
    BY <2>2
  <2> QED
    BY <2>1, <2>3
<1>8. ASSUME NEW m \in Message
      PROVE  SerializeConversationEntry(ConversationEntry(m)) =
               IF DOMAIN m = {"Support"} THEN [user |-> "user2", message |-> m["Support"]]
               ELSE [user |-> "user1", message |-> m["User"]]
  <2>1. DOMAIN m \in {{"User"}, {"Support"}, {"User", "Support"}}
    BY DEF Message
  <2> QED
    BY <2>1 DEF SerializeConversationEntry, ConversationEntry
<1>9. \A i \in DOMAIN c.conversation : c.conversation[i] \in Message
  BY <1>1
<1> HIDE DEF e, feedback
<1> QED
  BY <1>5, <1>6, <1>7, <1>8, <1>9 DEF TellsConversation, e

(* Every element of the raw data is in the dump, in its place, with the    *)
(* ids of its source and tenant, what it says and who said it.             *)
THEOREM NothingGarbled == Spec => []DumpTellsWhatWasSent
<1>1. IInv => DumpTellsWhatWasSent
  <2> SUFFICES ASSUME IInv, phase = "dumped"
               PROVE  DumpTellsWhatWasSent
    BY DEF DumpTellsWhatWasSent
  <2>1. PICK n \in Nat : raw \in [1..n -> Raw]
    BY DEF IInv, TypeOK
  <2>2. /\ json = [i \in 1..n |-> SerializeToJson(schemas[i])]
        /\ \A i \in 1..n : \E item \in Item :
             raw[i] \in {item, Lacking} /\ schemas[i] = ToSchema(kind, item)
    BY <2>1 DEF IInv, Stages
  <2>3. Len(json) = Len(raw)
    BY <2>1, <2>2
  <2>4. ASSUME NEW i \in 1..n
        PROVE  /\ json[i].source_id = source_id /\ json[i].tenant_id = tenant_id
               /\ raw[i] # Lacking =>
                    /\ kind = "notifyu" => TellsReview(raw[i], json[i].entry)
                    /\ kind = "filepp" => TellsConversation(raw[i], json[i].entry)
                    /\ kind = "discourse" => TellsPost(raw[i], json[i].entry)
    <3> PICK item \in Item : raw[i] \in {item, Lacking} /\ schemas[i] = ToSchema(kind, item)
      BY <2>2
    <3>1. json[i] = SerializeToJson(ToSchema(kind, item)) /\ (raw[i] # Lacking => raw[i] = item)
      BY <2>2
    <3>2. CASE kind = "notifyu"
      BY <3>1, <3>2, ReviewTold, IdsTold DEF Item, ToSchema, ParseReview
    <3>3. CASE kind = "filepp"
      BY <3>1, <3>3, ConversationTold, IdsTold DEF Item, ToSchema, ParseConversation
    <3>4. CASE kind = "discourse"
      BY <3>1, <3>4, PostTold, IdsTold DEF Item, ToSchema, ParsePost
    <3> QED
      BY <3>2, <3>3, <3>4 DEF IInv, TypeOK
  <2> QED
    BY <2>1, <2>3, <2>4 DEF DumpTellsWhatWasSent
<1> QED
  BY <1>1, Inductive, PTL

-------------------------------------------------------------------------------
(* The choice of posts.  IdsAt is recursive; that its function exists and  *)
(* what it returns is shown for the least number for which it would fail.  *)
LEMMA LeastNat ==
  ASSUME NEW S \in SUBSET Nat, S # {}
  PROVE  \E x \in S : \A y \in S : x <= y
<1>1. PICK x \in S : \A y \in S : ~(<<y, x>> \in OpToRel(<, Nat))
  BY NatLessThanWellFounded, WFMin, Zenon
<1>2. ASSUME NEW y \in S
      PROVE  x <= y
  <2>1. <<y, x>> \in OpToRel(<, Nat) <=> y < x
    BY DEF OpToRel
  <2>2. x \in Nat /\ y \in Nat /\ ~(y < x)
    BY <1>1, <2>1
  <2> QED
    BY <2>2
<1> QED
  BY <1>2

(* The definition of IdsAt's function, up to a post.                       *)
Unfold(posts, required, ids, last) ==
  [n \in 0..last |->
     IF n = 0 THEN <<>>
     ELSE IF n \in required THEN Append(ids[n - 1], AsInt(posts[n].id)) ELSE ids[n - 1]]

LEMMA UnfoldExists ==
  ASSUME NEW posts, NEW required, NEW last \in Nat
  PROVE  \E ids : ids = Unfold(posts, required, ids, last)
<1> DEFINE S == {n \in Nat : ~\E ids : ids = Unfold(posts, required, ids, n)}
<1>1. SUFFICES ASSUME S # {} PROVE FALSE
  OBVIOUS
<1>2. PICK n \in S : \A m \in S : n <= m
  BY <1>1, LeastNat
<1>3. CASE n = 0
  <2>1. [k \in 0..0 |-> <<>>] = Unfold(posts, required, [k \in 0..0 |-> <<>>], 0)
    BY DEF Unfold
  <2> QED
    BY <1>3, <2>1
<1>4. CASE n # 0
  <2>1. n \in Nat /\ n - 1 \in Nat /\ ~(n <= n - 1)
    BY <1>4
  <2>2. PICK g : g = Unfold(posts, required, g, n - 1)
    BY <1>2, <2>1
  <2> DEFINE f == [k \in 0..n |->
                     IF k = n THEN IF n \in required THEN Append(g[n - 1], AsInt(posts[n].id))
                                   ELSE g[n - 1]
                     ELSE g[k]]
  <2>3. \A k \in 0..n - 1 : f[k] = g[k]
    BY <2>1
  <2>4. ASSUME NEW k \in 0..n
        PROVE  f[k] = IF k = 0 THEN <<>>
                      ELSE IF k \in required THEN Append(f[k - 1], AsInt(posts[k].id))
                           ELSE f[k - 1]
    <3>1. CASE k = n
      <4>1. f[k - 1] = g[n - 1] /\ k # 0
        BY <1>4, <2>1, <2>3, <3>1
      <4>2. f[k] = IF n \in required THEN Append(g[n - 1], AsInt(posts[n].id)) ELSE g[n - 1]
        BY <3>1
      <4> HIDE DEF f
      <4> QED
        BY <3>1, <4>1, <4>2
    <3>2. CASE k # n
      <4>1. k \in 0..n - 1 /\ (k # 0 => k - 1 \in 0..n - 1)
        BY <2>1, <3>2
      <4>2. f[k] = g[k] /\ (k # 0 => f[k - 1] = g[k - 1])
        BY <2>3, <4>1
      <4>3. g[k] = IF k = 0 THEN <<>>
                   ELSE IF k \in required THEN Append(g[k - 1], AsInt(posts[k].id))
                        ELSE g[k - 1]
        BY <2>2, <4>1 DEF Unfold
      <4> HIDE DEF f
      <4> QED
        BY <4>2, <4>3
    <3> QED
      BY <3>1, <3>2
  <2>5. f = [k \in 0..n |-> f[k]]
    OBVIOUS
  <2> HIDE DEF f
  <2>6. f = Unfold(posts, required, f, n)
    BY <2>4, <2>5 DEF Unfold
  <2> QED
    BY <1>2, <2>6
<1> QED
  BY <1>3, <1>4

(* Exactly the ids of the posts required.                                  *)
LEMMA IdsRequired ==
  ASSUME NEW posts, Len(posts) \in Nat,
         NEW required \in SUBSET (1..Len(posts)), \A i \in required : posts[i].id \in Int
  PROVE  /\ IdsAt(posts, required) \in Seq(Int)
         /\ \A k \in DOMAIN IdsAt(posts, required) :
              \E i \in required : IdsAt(posts, required)[k] = AsInt(posts[i].id)
         /\ \A i \in required :
              \E k \in DOMAIN IdsAt(posts, required) :
                IdsAt(posts, required)[k] = AsInt(posts[i].id)
<1> DEFINE f == CHOOSE ids : ids = Unfold(posts, required, ids, Len(posts))
<1>1. IdsAt(posts, required) = f[Len(posts)]
  BY DEF IdsAt, Unfold
<1>2. f = Unfold(posts, required, f, Len(posts))
  BY UnfoldExists
<1> HIDE DEF f
<1>3. /\ f[0] = <<>>
      /\ \A n \in 1..Len(posts) :
           f[n] = IF n \in required THEN Append(f[n - 1], AsInt(posts[n].id)) ELSE f[n - 1]
  <2> DEFINE step(n) == IF n = 0 THEN <<>>
                        ELSE IF n \in required THEN Append(f[n - 1], AsInt(posts[n].id))
                             ELSE f[n - 1]
  <2>1. f = [n \in 0..Len(posts) |-> step(n)]
    BY <1>2 DEF Unfold
  <2> HIDE DEF step
  <2>2. \A n \in 0..Len(posts) : f[n] = step(n)
    BY <2>1
  <2> USE DEF step
  <2>3. f[0] = <<>>
    BY <2>2
  <2> QED
    BY <2>2, <2>3
<1> DEFINE Right(n) ==
             /\ f[n] \in Seq(Int)
             /\ \A k \in DOMAIN f[n] : \E i \in required : f[n][k] = AsInt(posts[i].id)
             /\ \A i \in required : i <= n => \E k \in DOMAIN f[n] : f[n][k] = AsInt(posts[i].id)
           S == {n \in 0..Len(posts) : ~Right(n)}
<1>4. ASSUME S # {} PROVE FALSE
  <2>1. S \in SUBSET Nat
    OBVIOUS
  <2>2. PICK n \in S : \A m \in S : n <= m
    BY <1>4, <2>1, LeastNat
  <2>3. CASE n = 0
    <3>1. Right(0)
      BY <1>3
    <3> QED
      BY <2>3, <3>1
  <2>4. CASE n # 0
    <3>1. n \in 1..Len(posts) /\ n - 1 \in 0..Len(posts) /\ ~(n <= n - 1)
      BY <2>4
    <3>2. Right(n - 1)
      BY <2>2, <3>1
    <3>3. CASE n \notin required
      <4>1. f[n] = f[n - 1]
        BY <1>3, <3>1, <3>3
      <4>2. \A i \in required : i <= n => i <= n - 1
        BY <3>1, <3>3
      <4>3. Right(n)
        BY <3>2, <4>1, <4>2
      <4> QED
        BY <2>2, <4>3
    <3>4. CASE n \in required
      <4> DEFINE s == f[n - 1]
                 id == AsInt(posts[n].id)
      <4>1. s \in Seq(Int) /\ id \in Int /\ f[n] = Append(s, id)
        <5>1. id \in Int
          BY <3>4, AsIntRange, NumberAssumption DEF IntRange
        <5> QED
          BY <1>3, <3>1, <3>2, <3>4, <5>1
      <4> HIDE DEF s, id
      <4>2. /\ f[n] \in Seq(Int)
            /\ DOMAIN f[n] = DOMAIN s \cup {Len(s) + 1}
            /\ \A k \in DOMAIN s : f[n][k] = s[k]
            /\ f[n][Len(s) + 1] = id
        BY <4>1
      <4>3. \A k \in DOMAIN f[n] : \E i \in required : f[n][k] = AsInt(posts[i].id)
        BY <3>2, <3>4, <4>2 DEF s, id
      <4>4. ASSUME NEW i \in required, i <= n
            PROVE  \E k \in DOMAIN f[n] : f[n][k] = AsInt(posts[i].id)
        <5>1. CASE i = n
          BY <4>2, <5>1 DEF id
        <5>2. CASE i <= n - 1
          BY <3>2, <4>2, <5>2 DEF s
        <5> QED
          BY <3>1, <4>4, <5>1, <5>2
      <4>5. Right(n)
        BY <4>2, <4>3, <4>4
      <4> QED
        BY <2>2, <4>5
    <3> QED
      BY <3>3, <3>4
  <2> QED
    BY <2>3, <2>4
<1>5. Right(Len(posts))
  <2> HIDE DEF Right
  <2> QED
    BY <1>4
<1>6. \A i \in required : i <= Len(posts)
  OBVIOUS
<1> QED
  BY <1>1, <1>5, <1>6

(* The post ids of a discourse batch, and the posts that came for them.    *)
AllWhole == \A i \in DOMAIN found : found[i] # Lacking

Asked(p) == p \notin {Malformed, Lacking} /\ p.topic_id = topic_id

IdsAsked(ids) ==
  /\ ids \in Seq(Int)
  /\ AllWhole => \A k \in DOMAIN ids : \E p \in Post : p.topic_id = topic_id /\ p.id = ids[k]
  /\ \A i \in DOMAIN found : Asked(found[i]) => \E k \in DOMAIN ids : ids[k] = found[i].id

TopicAsked ==
  /\ kind = "discourse" /\ phase \in {"asking", "receiving", "transformed", "dumped"} =>
       IdsAsked(post_ids)
  /\ kind = "discourse" /\ phase \in {"receiving", "transformed", "dumped"} =>
       \/ raw = <<>>
       \/ /\ Len(raw) = Len(post_ids)
          /\ \A i \in DOMAIN raw : raw[i] \in Post => raw[i].id = post_ids[i]
       \/ /\ post_ids = <<>>
          /\ \A i \in DOMAIN raw : raw[i] \in Post => raw[i].topic_id = topic_id
  /\ phase = "dumped" => schemas # <<>>

(* Every post that is found has an id that an int holds, and so has what is*)
(* read in the place of one that lacks a field.                            *)
LEMMA PostIds ==
  ASSUME IInv, NEW read \in [{i \in DOMAIN found : found[i] = Lacking} -> Reading]
  PROVE  IdsAsked(GetPostIds([i \in DOMAIN found |->
                               IF found[i] = Lacking THEN read[i] ELSE found[i]]))
<1> DEFINE posts == [i \in DOMAIN found |-> IF found[i] = Lacking THEN read[i] ELSE found[i]]
           required == {i \in DOMAIN posts : posts[i] # Malformed /\ posts[i].topic_id = topic_id}
           ids == IdsAt(posts, required)
<1>1. /\ Len(found) \in Nat /\ DOMAIN found = 1..Len(found)
      /\ \A i \in DOMAIN found : found[i] \in Post \cup {Malformed, Lacking}
  BY DEF IInv, TypeOK
<1>2. /\ DOMAIN posts = 1..Len(found) /\ Len(posts) = Len(found)
      /\ \A i \in 1..Len(found) :
           posts[i] = IF found[i] = Lacking THEN read[i] ELSE found[i]
      /\ \A i \in 1..Len(found) : found[i] = Lacking => read[i] \in Reading
  BY <1>1
<1>3. GetPostIds(posts) = ids
  BY DEF GetPostIds
<1> HIDE DEF posts
<1>4. \A p \in Post : p.id \in Int /\ AsInt(p.id) = p.id
  BY RawAssumption, NumberAssumption, AsIntRange DEF IntRange
<1>5. ASSUME NEW i \in required
      PROVE  /\ i \in 1..Len(found)
             /\ \E p \in Post : p.id = posts[i].id
             /\ found[i] # Lacking =>
                  posts[i] \in Post /\ posts[i] = found[i] /\ posts[i].topic_id = topic_id
  BY <1>1, <1>2 DEF Reading
<1>6. \A i \in required : posts[i].id \in Int /\ AsInt(posts[i].id) = posts[i].id
  BY <1>4, <1>5
<1>7. required \in SUBSET (1..Len(posts)) /\ Len(posts) \in Nat
  BY <1>1, <1>2
<1>8. \A i \in DOMAIN found : Asked(found[i]) => i \in required /\ posts[i] = found[i]
  BY <1>1, <1>2 DEF Asked
<1> HIDE DEF required
<1>9. /\ ids \in Seq(Int)
      /\ \A k \in DOMAIN ids : \E i \in required : ids[k] = AsInt(posts[i].id)
      /\ \A i \in required : \E k \in DOMAIN ids : ids[k] = AsInt(posts[i].id)
  BY <1>6, <1>7, IdsRequired
<1> HIDE DEF ids
<1>10. ASSUME AllWhole, NEW k \in DOMAIN ids
       PROVE  \E p \in Post : p.topic_id = topic_id /\ p.id = ids[k]
  <2>1. PICK i \in required : ids[k] = AsInt(posts[i].id)
    BY <1>9
  <2>2. found[i] # Lacking
    BY <1>1, <1>5, <1>10 DEF AllWhole
  <2>3. posts[i] \in Post /\ posts[i].topic_id = topic_id
    BY <1>5, <2>2
  <2>4. posts[i].id = ids[k]
    BY <1>6, <2>1
  <2> QED
    BY <2>3, <2>4
<1>11. \A i \in DOMAIN found : Asked(found[i]) => \E k \in DOMAIN ids : ids[k] = found[i].id
  BY <1>6, <1>8, <1>9
<1>12. IdsAsked(GetPostIds(posts))
  BY <1>3, <1>9, <1>10, <1>11 DEF IdsAsked
<1> QED
  BY <1>12 DEF posts

LEMMA TopicInit == Init => TopicAsked
BY DEF Init, TopicAsked

LEMMA TopicStep == IInv /\ TopicAsked /\ [Next]_vars => TopicAsked'
<1> SUFFICES ASSUME IInv, TopicAsked, [Next]_vars
             PROVE  TopicAsked'
  OBVIOUS
<1>1. CASE Supply
  BY <1>1 DEF Supply, TopicAsked, IInv, Stages
<1>2. CASE Find
  BY <1>2 DEF Find, TopicAsked
<1>3. CASE Search
  <2>1. CASE phase' = "asking" /\ IdsAsked(post_ids')
    BY <1>3, <2>1 DEF Search, TopicAsked, IdsAsked, AllWhole, Asked
  <2>2. CASE phase' = "failed"
    BY <1>3, <2>2 DEF Search, TopicAsked
  <2> QED
    BY <1>3, <2>1, <2>2, PostIds DEF Search
<1>4. CASE Answer
  <2>1. PICK n \in 0..MaxItems :
          /\ raw' \in [1..n -> Raw]
          /\ \/ n = 0
             \/ /\ n = Len(post_ids)
                /\ \A i \in 1..n : raw'[i] \in Post => raw'[i].id = post_ids[i]
             \/ /\ post_ids = <<>>
                /\ \A i \in 1..n : raw'[i] \in Post => raw'[i].topic_id = topic_id
    BY <1>4 DEF Answer
  <2>2. n \in Nat /\ DOMAIN raw' = 1..n
    BY <2>1, NumberAssumption
  <2>3. Len(raw') = n /\ (n = 0 => raw' = <<>>)
    BY <2>1, <2>2
  <2> QED
    BY <1>4, <2>1, <2>2, <2>3 DEF Answer, TopicAsked, IdsAsked, AllWhole, Asked
<1>5. CASE Transform
  BY <1>5 DEF Transform, TopicAsked, IdsAsked, AllWhole, Asked
<1>6. CASE Serialize
  BY <1>6 DEF Serialize, TopicAsked, IdsAsked, AllWhole, Asked
<1>7. CASE UNCHANGED vars
  BY <1>7 DEF vars, TopicAsked, IdsAsked, AllWhole, Asked
<1> QED
  BY <1>1, <1>2, <1>3, <1>4, <1>5, <1>6, <1>7 DEF Next

(* A discourse source dumps the posts of its topic and no others, unless a *)
(* field is missing, and of those its search found none is left out.       *)
THEOREM TopicKept == Spec => []OnlyTheTopic
<1>1. IInv /\ TopicAsked => OnlyTheTopic
  <2> SUFFICES ASSUME IInv, TopicAsked, kind = "discourse", phase = "dumped"
               PROVE  OnlyTheTopic
    BY DEF OnlyTheTopic
  <2>1. PICK n \in Nat : raw \in [1..n -> Raw] /\ Len(raw) = n
    BY DEF IInv, TypeOK
  <2>2. /\ schemas # <<>> /\ DOMAIN schemas = 1..n
        /\ json = [i \in 1..n |-> SerializeToJson(schemas[i])]
        /\ \A i \in 1..n : \E item \in Post :
             raw[i] \in {item, Lacking} /\ schemas[i] = ParsePost(item)
    BY <2>1 DEF IInv, Stages, TopicAsked, Item, ToSchema
  <2>3. raw # <<>>
    <3>1. n # 0
      BY <2>2 DEF IInv, TypeOK
    <3> QED
      BY <2>1, <3>1
  <2>4. ASSUME NEW i \in 1..n, raw[i] # Lacking
        PROVE  raw[i] \in Post /\ json[i].entry.feedback.data = raw[i].cooked
    <3>1. raw[i] \in Post /\ json[i] = SerializeToJson(ParsePost(raw[i]))
      BY <2>2, <2>4
    <3>2. TellsPost(raw[i], json[i].entry)
      BY <3>1, PostTold
    <3> QED
      BY <3>1, <3>2 DEF TellsPost
  <2>5. /\ Len(post_ids) \in Nat /\ DOMAIN post_ids = 1..Len(post_ids)
        /\ AllWhole => \A k \in DOMAIN post_ids :
                         \E p \in Post : p.topic_id = topic_id /\ p.id = post_ids[k]
        /\ \A i \in DOMAIN found :
             Asked(found[i]) => \E k \in DOMAIN post_ids : post_ids[k] = found[i].id
    BY DEF TopicAsked, IdsAsked
  <2>6. \/ /\ n = Len(post_ids)
           /\ \A i \in 1..n : raw[i] \in Post => raw[i].id = post_ids[i]
        \/ /\ post_ids = <<>>
           /\ \A i \in 1..n : raw[i] \in Post => raw[i].topic_id = topic_id
    BY <2>1, <2>3 DEF TopicAsked
  <2>7. \A p, q \in Post : p.id = q.id => p = q
    BY RawAssumption
  <2>8. ASSUME AllWhole, NEW i \in 1..n, raw[i] # Lacking
        PROVE  \E p \in Post : p.topic_id = topic_id /\ json[i].entry.feedback.data = p.cooked
    <3>1. raw[i] \in Post /\ json[i].entry.feedback.data = raw[i].cooked
      BY <2>4, <2>8
    <3>2. raw[i].topic_id = topic_id
      <4>1. CASE n = Len(post_ids) /\ raw[i].id = post_ids[i]
        <5>1. PICK p \in Post : p.topic_id = topic_id /\ p.id = post_ids[i]
          BY <2>5, <2>8, <4>1
        <5>2. p = raw[i]
          BY <2>7, <3>1, <4>1, <5>1
        <5> QED
          BY <5>1, <5>2
      <4>2. CASE raw[i].topic_id = topic_id
        BY <4>2
      <4> QED
        BY <2>6, <3>1, <4>1, <4>2
    <3> QED
      BY <3>1, <3>2
  <2>9. ASSUME NEW i \in DOMAIN found, Asked(found[i])
        PROVE  \E k \in 1..n : raw[k] = Lacking
                               \/ json[k].entry.feedback.data = found[i].cooked
    <3>1. PICK k \in DOMAIN post_ids : post_ids[k] = found[i].id
      BY <2>5, <2>9
    <3>2. post_ids # <<>>
      BY <2>5, <3>1
    <3>3. k \in 1..n /\ (raw[k] \in Post => raw[k].id = found[i].id)
      BY <2>5, <2>6, <3>1, <3>2
    <3>4. found[i] \in Post
      BY <2>9 DEF IInv, TypeOK, Asked
    <3> QED
      BY <2>4, <2>7, <3>3, <3>4
  <2>10. DOMAIN json = 1..n
    BY <2>2
  <2> QED
    BY <2>8, <2>9, <2>10 DEF OnlyTheTopic, AllWhole, Asked
<1> QED
  BY <1>1, Inductive, TopicInit, TopicStep, PTL DEF Spec
===============================================================================
