------------------------------- MODULE Envelope -------------------------------
(***************************************************************************)
(* agent/amp.py: which packets are AMP envelopes, what an envelope holds   *)
(* and how it is written; agent/poller.py: the task of a packet; and       *)
(* agent/reporter.py: the envelope that answers it.                        *)
(*                                                                         *)
(* A JSON value has a type and a content; an object has its members        *)
(* instead, those that are missing of type "absent".  Members nobody reads *)
(* are left out.                                                           *)
(***************************************************************************)
CONSTANTS
  Token,      \* contents of values
  Ulid, Uuid, Stamp, Canonical,  \* those that match the patterns of amp.py
  NewId, Now  \* uuid4() and _now_ts()

Value == [type : {"absent", "null", "str", "bool", "int", "object", "other"}, is : Token]

Missing == [type |-> "absent", is |-> ""]
Nil == [type |-> "null", is |-> ""]
StringValue(s) == [type |-> "str", is |-> s]
BoolValue(b) == [type |-> "bool", is |-> b]

IsString(x) == x.type = "str"
Absent(x) == x.type = "absent"
None(x) == x.type \in {"absent", "null"}
Optional(x, type) == None(x) \/ x.type = type
CanonicalOk(x) == IsString(x) /\ x.is \in Canonical

-----------------------------------------------------------------------------
(* parse_envelope *)

SourceOk(s) == s.type = "object" /\ IsString(s.brick) /\ IsString(s.instance)

IdentityOk(i) ==
  /\ i.type = "object" /\ i.self.type = "bool" /\ CanonicalOk(i.canonical)
  /\ Optional(i.display_name, "str") /\ Optional(i.raw, "object")
  /\ i.provisional.type \in {"absent", "bool"}

PayloadOk(p) ==
  /\ p.type = "object" /\ IsString(p.tag) /\ p.body.type = "object"
  /\ \/ p.tag.is = "harness_task" /\ IsString(p.body.kind)
     \/ p.tag.is = "harness_result" /\ ~Absent(p.body.task_id) /\ p.body.ok.type = "bool"

ReplyOk(r) ==
  /\ r.type = "object" /\ IsString(r.to_channel) /\ CanonicalOk(r.to_address)
  /\ Optional(r.reply_to_id, "str")

\* (A bool is an int to isinstance.)
IntOk(x) == x.type \in {"absent", "null", "int", "bool"}

RateLimitOk(l) ==
  None(l) \/ (l.type = "object" /\ IntOk(l.max_per_hour) /\ IntOk(l.min_interval_s))

AuditOk(a) ==
  None(a) \/ (a.type = "object" /\ Optional(a.decision, "str") /\ Optional(a.reason, "str"))

\* An inbound envelope carries a task, an outbound one a result.
Coherent(p) ==
  \/ p.direction.is = "inbound" /\ p.payload.tag.is = "harness_task"
  \/ p.direction.is = "outbound" /\ p.payload.tag.is = "harness_result"

Accepts(p, strict) ==
  /\ p.v.type \in {"int", "bool"} /\ p.v.is = "1"
  /\ IsString(p.id) /\ (strict => p.id.is \in Ulid \cup Uuid)
  /\ IsString(p.ts) /\ p.ts.is \in Stamp
  /\ IsString(p.direction) /\ SourceOk(p.source)
  /\ IsString(p.channel) /\ p.channel.is # ""
  /\ IdentityOk(p.identity) /\ PayloadOk(p.payload) /\ ReplyOk(p.reply) /\ Coherent(p)
  /\ RateLimitOk(p.rate_limit) /\ AuditOk(p.audit)

\* What the AmpEnvelope holds: None for what is missing, False for no
\* provisional.
Held(x) == IF None(x) THEN Nil ELSE x

HeldIdentity(i) ==
  [type |-> "object", self |-> i.self, canonical |-> i.canonical,
   display_name |-> Held(i.display_name), raw |-> Held(i.raw),
   provisional |-> IF Absent(i.provisional) THEN BoolValue("0") ELSE i.provisional]

HeldReply(r) ==
  [type |-> "object", to_channel |-> r.to_channel, to_address |-> r.to_address,
   reply_to_id |-> Held(r.reply_to_id)]

HeldRateLimit(l) ==
  IF None(l) THEN Nil
  ELSE [type |-> "object", max_per_hour |-> Held(l.max_per_hour),
        min_interval_s |-> Held(l.min_interval_s)]

HeldAudit(a) ==
  IF None(a) THEN Nil
  ELSE [type |-> "object", decision |-> Held(a.decision), reason |-> Held(a.reason)]

Parsed(p) ==
  [v |-> p.v, id |-> p.id, ts |-> p.ts, direction |-> p.direction, channel |-> p.channel,
   source |-> [type |-> "object", brick |-> p.source.brick, instance |-> p.source.instance],
   identity |-> HeldIdentity(p.identity),
   payload |-> [type |-> "object", tag |-> p.payload.tag, body |-> p.payload.body],
   reply |-> HeldReply(p.reply),
   rate_limit |-> HeldRateLimit(p.rate_limit), audit |-> HeldAudit(p.audit)]

\* to_dict: what is None is not written, nor is a provisional that is False.
Written(x) == IF x.type = "null" THEN Missing ELSE x

WrittenIdentity(i) ==
  [type |-> "object", self |-> i.self, canonical |-> i.canonical,
   display_name |-> Written(i.display_name), raw |-> Written(i.raw),
   provisional |-> IF i.provisional.is = "0" THEN Missing ELSE i.provisional]

WrittenReply(r) ==
  [type |-> "object", to_channel |-> r.to_channel, to_address |-> r.to_address,
   reply_to_id |-> Written(r.reply_to_id)]

WrittenRateLimit(l) ==
  IF l.type = "null" THEN Missing
  ELSE [type |-> "object", max_per_hour |-> Written(l.max_per_hour),
        min_interval_s |-> Written(l.min_interval_s)]

WrittenAudit(a) ==
  IF a.type = "null" THEN Missing
  ELSE [type |-> "object", decision |-> Written(a.decision), reason |-> Written(a.reason)]

Serialized(e) ==
  [v |-> e.v, id |-> e.id, ts |-> e.ts, direction |-> e.direction, channel |-> e.channel,
   kind |-> Missing, source |-> e.source, identity |-> WrittenIdentity(e.identity),
   payload |-> e.payload, reply |-> WrittenReply(e.reply),
   rate_limit |-> WrittenRateLimit(e.rate_limit), audit |-> WrittenAudit(e.audit)]

-----------------------------------------------------------------------------
(* The poller and the reporter *)

AmpShaped(p) == ~Absent(p.v) /\ ~Absent(p.payload) /\ Absent(p.kind)

\* task_from_packet: a packet with a kind of its own is read the old way; any
\* other is parsed, its id only held to the patterns it matches.
Legacy(p) == ~AmpShaped(p) /\ ~Absent(p.kind)
StrictId(p) == p.id.is \in Ulid \cup Uuid
IsTask(p) == ~Legacy(p) /\ Accepts(p, StrictId(p))

\* (A packet whose direction is outbound becomes a task too, of kind "shell".)
TaskOf(p) ==
  [id |-> p.id, payload |-> p.payload.body, envelope |-> Parsed(p),
   kind |-> IF Absent(p.payload.body.kind) THEN StringValue("shell") ELSE p.payload.body.kind]

\* The dict build_envelope parses for Reporter._build_result_payload; an id
\* that is empty is not replied to.
Answer(e, instance, result) ==
  [v |-> [type |-> "int", is |-> "1"], id |-> StringValue(NewId), ts |-> StringValue(Now),
   direction |-> StringValue("outbound"), channel |-> e.channel, kind |-> Missing,
   source |-> [type |-> "object", brick |-> StringValue("iddo-harness"), instance |-> instance],
   identity |->
     [type |-> "object", self |-> BoolValue("0"), canonical |-> StringValue("brick:iddo-harness"),
      display_name |-> Missing, raw |-> Missing, provisional |-> Missing],
   payload |-> [type |-> "object", tag |-> StringValue("harness_result"), body |-> result],
   reply |->
     [type |-> "object", to_channel |-> e.reply.to_channel, to_address |-> e.reply.to_address,
      reply_to_id |-> IF e.id.is = "" THEN Missing ELSE e.id],
   rate_limit |-> Missing, audit |-> Missing]
=============================================================================
