------------------------------- MODULE Params -------------------------------
(***************************************************************************)
(* The event keys a consumer may ask for, the --param filters it may give  *)
(* and the match the bus makes of them (internal/event/schemas.go,         *)
(* registry.go, params.go).  A declared payload is the JSON value whose    *)
(* scalars are the names of their types.                                   *)
(***************************************************************************)
EXTENDS Json, SequencesExt

Typed(names, type) == [f \in names |-> Scalar(type)]

PersonFields == {"userid", "open_id", "uuid", "user_name", "ms_open_id", "instance_id"}
Person == Object(Typed(PersonFields, "string"))

MeetingFields == Typed({"meeting_id", "meeting_code", "subject"}, "string")
              @@ Typed({"meeting_type", "start_time", "end_time"}, "integer")
MeetingInfo == Object(MeetingFields @@ "creator" :> Person
                        @@ Typed({"meeting_create_mode", "meeting_create_from"}, "integer"))

Files(texts, numbers) == Array(<<Object(Typed(texts, "string") @@ Typed(numbers, "integer"))>>)

\* One element: the server's contract for every key.
Payload(fields) == Array(<<Object(fields @@ Typed({"operate_time"}, "integer"))>>)

MeetingIdParam == "meeting_id" :> [type |-> "string", required |-> FALSE, enum |-> {},
                                   path |-> <<"0", "meeting_info", "meeting_id">>]

KeyDef(key, domain, payload) ==
  [key |-> key, domain |-> domain, root |-> ".payload", buffer |-> 0,
   params |-> MeetingIdParam, payload |-> payload]

MeetingPayload == Payload("operator" :> Person @@ "meeting_info" :> MeetingInfo)

registerMeetingCreated  == KeyDef("meeting.created", "meeting", MeetingPayload)
registerMeetingUpdated  == KeyDef("meeting.updated", "meeting", MeetingPayload)
registerMeetingCanceled == KeyDef("meeting.canceled", "meeting", MeetingPayload)
registerMeetingStarted  == KeyDef("meeting.started", "meeting", MeetingPayload)

registerMeetingEnd ==
  KeyDef("meeting.end", "meeting",
         Payload("operator" :> Person @@ "meeting_info" :> MeetingInfo
                   @@ Typed({"meeting_end_type"}, "integer")))

registerRecordingCompleted ==
  KeyDef("recording.completed", "recording",
         Payload("operator" :> Person @@ "meeting_info" :> MeetingInfo
                   @@ "recording_files" :> Files({"record_file_id", "lang"},
                                                 {"start_time", "end_time", "total_size"})))

registerSmartTranscripts ==
  KeyDef("smart.transcripts", "smart",
         Payload("meeting_info" :> MeetingInfo
                   @@ "recording_files" :> Files({"record_file_id", "lang"}, {})))

registerSmartMinutes ==
  KeyDef("smart.minutes", "smart",
         Payload(Typed({"job_id"}, "string") @@ Typed({"result"}, "integer")
                   @@ "recording_files" :> Files({"record_file_id", "lang"}, {})
                   @@ "meeting_info" :> Object(MeetingFields
                        @@ Typed({"media_set_type"}, "integer")
                        @@ "creator" :> Object(Typed({"userid", "uuid", "user_name"}, "string")))))

\* The order in which init registers them.
Registrations ==
  <<registerMeetingCreated, registerMeetingUpdated, registerMeetingCanceled,
    registerMeetingStarted, registerMeetingEnd, registerRecordingCompleted,
    registerSmartTranscripts, registerSmartMinutes>>

-----------------------------------------------------------------------------
(***************************************************************************)
(* Registration: a bad definition panics before the program does anything. *)
(***************************************************************************)
MaxBufferSize == 1000
DefaultBufferSize == 100

Bad(registry, def) ==
  \/ def.key = "" \/ def.domain = ""
  \/ def.root \notin {".", ".payload"}
  \/ \E d \in registry : d.key = def.key
  \/ def.buffer # 0 /\ def.buffer \notin 1..MaxBufferSize

RegisterKey(registry, def) ==
  registry \cup {[def EXCEPT !.buffer = IF @ = 0 THEN DefaultBufferSize ELSE @]}

Registry == FoldLeft(RegisterKey, {}, Registrations)

ListKeys(registry, domain) ==
  {d.key : d \in {e \in registry : domain = "" \/ e.domain = domain}}

KnownDomains(registry) == {d.domain : d \in registry}

-----------------------------------------------------------------------------
(***************************************************************************)
(* L1: the --param flags of consume.  An entry is the text before and      *)
(* after its first '=', without one there is no value.                     *)
(***************************************************************************)
Entry(key, val) == [key |-> key, val |-> val, equals |-> TRUE]
Bare(text) == [key |-> text, val |-> "", equals |-> FALSE]

\* What strconv.ParseInt accepts among the texts the samples use.
Integers == {"0", "7", "007", "+5"}

TypeAccepts(type, val) ==
  CASE type \in {"", "string"} -> TRUE
    [] type = "integer"        -> val \in Integers
    [] type = "boolean"        -> val \in {"true", "false"}
    [] OTHER                   -> FALSE

ValidateValue(val, spec) ==
  TypeAccepts(spec.type, val) /\ (spec.enum = {} \/ val \in spec.enum)

Accepted(params) == [ok |-> TRUE, params |-> params]
Rejected(why, key) == [ok |-> FALSE, why |-> why, key |-> key]

RequireAll(schema, params) ==
  {k \in DOMAIN schema : schema[k].required} \ DOMAIN params

ParseEntry(schema, result, kv) ==
  IF ~result.ok THEN result
  ELSE IF ~kv.equals \/ kv.key = "" THEN Rejected("malformed", kv.key)
  ELSE IF kv.key \in DOMAIN result.params THEN Rejected("duplicate", kv.key)
  ELSE IF kv.key \notin DOMAIN schema THEN Rejected("unknown", kv.key)
  ELSE IF ~ValidateValue(kv.val, schema[kv.key]) THEN Rejected("value", kv.key)
  ELSE Accepted(result.params @@ kv.key :> kv.val)

ParseAndValidateParams(schema, raw) ==
  LET parsed == FoldLeft(LAMBDA r, kv : ParseEntry(schema, r, kv), Accepted(<<>>), raw) IN
  IF parsed.ok /\ RequireAll(schema, parsed.params) # {}
  THEN Rejected("missing", RequireAll(schema, parsed.params)) ELSE parsed

-----------------------------------------------------------------------------
(***************************************************************************)
(* L2: the walk along a PayloadPath.  A segment is a field of an object or *)
(* the index of an array, as strconv.Atoi reads it.                        *)
(***************************************************************************)
Atoi(seg) == CASE seg \in {"0", "00", "+0"} -> 0 [] seg \in {"1", "01"} -> 1 [] OTHER -> -1

Missing == [t |-> "missing"]

StepInto(cur, seg) ==
  CASE cur.t = "object" /\ seg \in DOMAIN cur.f            -> cur.f[seg]
    [] cur.t = "array" /\ Atoi(seg) \in 0..(Len(cur.e) - 1) -> cur.e[Atoi(seg) + 1]
    [] OTHER                                                -> Missing

ExtractScalar(payload, path) ==
  LET leaf == FoldLeft(StepInto, payload, path) IN IF leaf.t = "scalar" THEN leaf ELSE Missing

PathOf(schema, k) ==
  IF k \in DOMAIN schema /\ schema[k].path # <<>> THEN schema[k].path ELSE <<k>>

\* An event without a payload is Missing.
MatchPayload(schema, params, payload) ==
  \A k \in DOMAIN params : ExtractScalar(payload, PathOf(schema, k)) = Scalar(params[k])

-----------------------------------------------------------------------------
(***************************************************************************)
(* Every key registers, and what a consumer may filter on is in the events *)
(* of its key with the type that L1 checks: no filter is silently empty.   *)
(***************************************************************************)
SchemasAreFilterable ==
  /\ \A i \in DOMAIN Registrations :
       ~Bad(FoldLeft(RegisterKey, {}, SubSeq(Registrations, 1, i - 1)), Registrations[i])
  /\ UNION {ListKeys(Registry, d) : d \in KnownDomains(Registry)} = ListKeys(Registry, "")
  /\ \A def \in Registry : \A k \in DOMAIN def.params :
       ExtractScalar(def.payload, PathOf(def.params, k)) = Scalar(def.params[k].type)

(***************************************************************************)
(* The flags are accepted as a whole or the first one at fault is named,   *)
(* whatever the later ones are; what is accepted is what was given.        *)
(***************************************************************************)
EntryIsFine(schema, raw, i) ==
  /\ raw[i].equals /\ raw[i].key \in DOMAIN schema \ {""}
  /\ ValidateValue(raw[i].val, schema[raw[i].key])
  /\ \A j \in 1..(i - 1) : raw[j].key # raw[i].key

ParamsAgree(schema, raw) ==
  LET result == ParseAndValidateParams(schema, raw)
      faults == {i \in DOMAIN raw : ~EntryIsFine(schema, raw, i)}
      given == {raw[i].key : i \in DOMAIN raw}
      required == {k \in DOMAIN schema : schema[k].required} IN
  /\ result.ok <=> faults = {} /\ required \subseteq given
  /\ result.ok =>
       {<<k, result.params[k]>> : k \in DOMAIN result.params}
         = {<<raw[i].key, raw[i].val>> : i \in DOMAIN raw}
  /\ faults # {} => \E i \in faults : /\ \A j \in faults : i <= j
                                      /\ result.key = raw[i].key /\ result.why # "missing"

(***************************************************************************)
(* A payload matches when each parameter's value is one of its leaves, at  *)
(* the steps the path spells.                                              *)
(***************************************************************************)
Spells(path, steps) ==
  /\ Len(path) = Len(steps)
  /\ \A i \in DOMAIN path :
       IF IsKey(steps[i]) THEN steps[i].key = path[i] ELSE steps[i].at = Atoi(path[i]) + 1

MatchAgrees(schema, params, payload) ==
  MatchPayload(schema, params, payload) <=>
    \A k \in DOMAIN params : \E l \in Leaves(payload) :
      Spells(PathOf(schema, k), l.steps) /\ l.leaf = Scalar(params[k])
=============================================================================
