------------------------------ MODULE MCBridge -------------------------------
(***************************************************************************)
(* Instances of Bridge for TLC: two packets a and b.                       *)
(***************************************************************************)
EXTENDS Bridge, TLC

CONSTANTS a, b

RankNormal == [t \in Task |-> 1]
NoConstraint == [t \in Task |-> 0]
AExpires == a :> 0 @@ b :> MaxTime + 1
Independent == [t \in Task |-> {}]
OneAttempt == [t \in Task |-> 1]
BFails == a :> {"ok"} @@ b :> {"error"}

\* Packets as the bridge may hold them: what Envelope makes of them is
\* evaluated here, and proved for all of them in BridgeProofs.
E == INSTANCE Envelope WITH
  Token <- {"", "0", "1", "2", "x", "inbound", "outbound", "harness_task", "harness_result",
            "id", "new", "at", "who", "brick:iddo-harness"},
  Ulid <- {}, Uuid <- {"id", "new"}, Stamp <- {"at"},
  Canonical <- {"who", "brick:iddo-harness"}, NewId <- "new", Now <- "at"

S(x) == E!StringValue(x)
Number(x) == [type |-> "int", is |-> x]
Names == {E!Missing, E!Nil, S("x"), Number("1")}
Body(kind, ok) == [type |-> "object", kind |-> kind, task_id |-> S("x"), ok |-> ok]

Packets ==
  {[v |-> v, id |-> id, ts |-> S("at"), direction |-> S(d), channel |-> S("x"), kind |-> kind,
    source |-> [type |-> "object", brick |-> S("x"), instance |-> S("x")],
    identity |-> [type |-> "object", self |-> E!BoolValue("1"), canonical |-> S("who"),
                  display_name |-> name, raw |-> E!Missing, provisional |-> maybe],
    payload |-> [type |-> "object", tag |-> S(tag), body |-> body],
    reply |-> [type |-> "object", to_channel |-> S("x"), to_address |-> S("who"), reply_to_id |-> name],
    rate_limit |-> limit, audit |-> E!Missing] :
   v \in {Number("1"), Number("2"), E!BoolValue("1")},
   id \in {S("id"), S("x"), S(""), Number("1"), E!Missing},
   d \in {"inbound", "outbound", "x"}, kind \in {E!Missing, S("x")},
   name \in Names, maybe \in {E!Missing, E!Nil, E!BoolValue("0"), E!BoolValue("1")},
   tag \in {"harness_task", "harness_result"},
   body \in {Body(S("x"), E!Missing), Body(E!Missing, E!BoolValue("1"))},
   limit \in {E!Missing, E!Nil,
              [type |-> "object", max_per_hour |-> Number("2"), min_interval_s |-> E!Nil]}}

SomeResult == [type |-> "object", kind |-> E!Missing, task_id |-> S("x"), ok |-> E!BoolValue("0")]

ASSUME EnvelopesTravel ==
  /\ \E p \in Packets : E!IsTask(p) /\ p.id = S("") /\ p.direction.is = "outbound"
  /\ \A p \in Packets : E!IsTask(p) =>
       LET again == E!Serialized(E!Parsed(p))
           reply == E!Answer(E!TaskOf(p).envelope, S("x"), SomeResult)
       IN /\ E!Accepts(again, E!StrictId(p)) /\ E!Parsed(again) = E!Parsed(p)
          /\ E!Accepts(reply, TRUE) /\ E!IsTask(reply)
          /\ E!TaskOf(reply).kind = S("shell")
          /\ (p.id # S("")) => reply.reply.reply_to_id = p.id
=============================================================================
