----------------------------- MODULE AgentPacket -----------------------------
(***************************************************************************)
(* Packets between two Agents (pkg/agentpacket): the sender signs a packet *)
(* and posts it to the recipient's endpoint, where concurrent handlers     *)
(* verify it against the finalized state of both Agents and a ReplayGuard  *)
(* they share, before the application receives it. The recipient publishes *)
(* its endpoint in signed contact cards. Requests and answers are lost,    *)
(* and a body is delivered again, late or altered, by the network.         *)
(*                                                                         *)
(* A key is the number of the policy it belongs to: a rotation replaces    *)
(* the controllers by the next key. The guard lives in memory, so what it  *)
(* promises ends with its process.                                         *)
(***************************************************************************)
EXTENDS Integers, Sequences, FiniteSets

CONSTANTS
  Handlers, Nonces, Payloads,
  PacketTTL,       \* TTL of the ReplayGuard
  CardLifetime,    \* 24 hours
  MaxPacketTime, MaxPolicy, MaxAccepted, MaxSigned

ASSUME PacketAssumption ==
  PacketTTL \in Nat /\ CardLifetime \in Nat /\ MaxPacketTime \in Nat

VARIABLES
  packetTime,
  agents,      \* finalized state of both Agents
  authority,   \* sender keys that were in force at each time, a history
  wire,        \* bodies the network has seen
  post,        \* the sender's call of Post
  handler,     \* the requests in progress at the recipient
  seen,        \* seen of the ReplayGuard: packet key -> time
  accepted,    \* claims the guard of this process admitted, a history
  received,    \* packets given to the application, a history
  cards,       \* contact cards signed for the recipient
  contacts     \* cards a peer verified, with the time, a history

packetVars == <<packetTime, agents, authority, wire, post, handler, seen, accepted,
                received, cards, contacts>>

NoRequest == [at |-> "idle"]
Live(a) == agents[a].found /\ ~agents[a].tombstoned
Networks == {"tos", "other"}

PacketInit ==
  /\ packetTime = 0
  /\ agents = [sender |-> [found |-> TRUE, tombstoned |-> FALSE, key |-> 1],
               recipient |-> [found |-> FALSE, tombstoned |-> FALSE, key |-> 1]]
  /\ authority = [t \in 0 .. MaxPacketTime |-> IF t = 0 THEN {1} ELSE {}]
  /\ wire = {} /\ post = NoRequest
  /\ handler = [h \in Handlers |-> NoRequest]
  /\ seen = << >> /\ accepted = << >> /\ received = {}
  /\ cards = {} /\ contacts = {}

------------------------------------------------------------------------------
(* The packet, its signature and its JSON form.                             *)

PacketKey(p) == p.nonce

\* The preimage holds the digest of the payload and every other field.
SigningBytes(p) == [nonce |-> p.nonce, payload |-> p.payload, key |-> p.key]

Sign(nonce, payload, key) ==
  LET p == [nonce |-> nonce, payload |-> payload, key |-> key] IN
  [nonce |-> nonce, payload |-> payload, key |-> key,
   signature |-> [by |-> key, over |-> SigningBytes(p)]]

ValidatePacket(p) == p.payload \in Payloads /\ p.key # 0

EncodeJSON(p) == [schema |-> "packet", trailing |-> FALSE, fields |-> p]

\* A body decodes when it is one object of the packet schema.
DecodesJSON(body) == body.schema = "packet" /\ ~body.trailing /\ ValidatePacket(body.fields)

\* What the network makes of a body: the body, or one with other fields.
Copies(body) ==
  {body, [body EXCEPT !.trailing = TRUE]}
    \cup {[body EXCEPT !.fields.payload = payload] : payload \in Payloads}

------------------------------------------------------------------------------
(* Post: one request at a time; a caller may post a packet again after a    *)
(* failure, whatever became of the first request.                           *)

Post(p) ==
  /\ post.at # "open" /\ ValidatePacket(p)
  /\ post' = [at |-> "open", packet |-> p]
  /\ wire' = wire \cup {EncodeJSON(p)} /\ Cardinality(wire') <= MaxSigned
  /\ UNCHANGED <<packetTime, agents, authority, handler, seen, accepted, received, cards, contacts>>

\* The request or its answer is lost, or the caller's context ends.
PostFails ==
  /\ post.at = "open"
  /\ post' = [post EXCEPT !.at = "failed"]
  /\ handler' = [h \in Handlers |-> IF handler[h].at = "idle" THEN NoRequest
                                    ELSE [handler[h] EXCEPT !.live = FALSE]]
  /\ UNCHANGED <<packetTime, agents, authority, wire, seen, accepted, received, cards, contacts>>

\* The answer of the request in progress reaches the caller.
Answered(h, status) ==
  IF handler[h].live THEN [post EXCEPT !.at = status] ELSE post

------------------------------------------------------------------------------
(* Handler. The time given to Verify is read before the two Agents are      *)
(* resolved and is used after that, by the guard.                           *)

Arrive(h, body, live) ==
  /\ handler[h].at = "idle"
  /\ live => /\ post.at = "open" /\ body = EncodeJSON(post.packet)
             /\ \A g \in Handlers : handler[g].at # "idle" => ~handler[g].live
  /\ DecodesJSON(body)
  /\ handler' = [handler EXCEPT ![h] = [at |-> "sender", packet |-> body.fields,
                                        now |-> packetTime, live |-> live]]
  /\ UNCHANGED <<packetTime, agents, authority, wire, post, seen, accepted, received, cards, contacts>>

Refuse(h) ==
  /\ handler' = [handler EXCEPT ![h] = NoRequest]
  /\ post' = Answered(h, "failed")
  /\ UNCHANGED <<packetTime, agents, authority, wire, seen, accepted, received, cards, contacts>>

Continue(h, at) ==
  /\ handler' = [handler EXCEPT ![h].at = at]
  /\ UNCHANGED <<packetTime, agents, authority, wire, post, seen, accepted, received, cards, contacts>>

Authorized(p) ==
  /\ Live("sender") /\ p.key = agents.sender.key
  /\ p.signature.by = p.key /\ p.signature.over = SigningBytes(p)

ResolveSender(h) ==
  /\ handler[h].at = "sender"
  /\ \/ Authorized(handler[h].packet) /\ Continue(h, "recipient")
     \/ Refuse(h)    \* also when the resolver fails

ResolveRecipient(h) ==
  /\ handler[h].at = "recipient"
  /\ \/ agents.recipient.found /\ Continue(h, "claim")
     \/ Refuse(h)

\* Mutant: the guard forgets at its TTL.
KeptShort(now) == {k \in DOMAIN seen : now - seen[k] < PacketTTL}

\* The guard forgets what is older than its TTL at the time of this request.
Kept(now) == {k \in DOMAIN seen : now - seen[k] <= PacketTTL}

Claim(h) ==
  LET r == handler[h]
      key == PacketKey(r.packet)
      kept == Kept(r.now) IN
  /\ r.at = "claim" /\ Len(accepted) < MaxAccepted
  /\ IF key \in kept
     THEN /\ seen' = [k \in kept |-> seen[k]]
          /\ handler' = [handler EXCEPT ![h] = NoRequest]
          /\ post' = Answered(h, "failed")
          /\ UNCHANGED accepted
     ELSE /\ seen' = [k \in kept \cup {key} |-> IF k = key THEN r.now ELSE seen[k]]
          /\ handler' = [handler EXCEPT ![h].at = "receive"]
          /\ accepted' = Append(accepted, [packet |-> r.packet, arrived |-> r.now, claimed |-> packetTime])
          /\ UNCHANGED post
  /\ UNCHANGED <<packetTime, agents, authority, wire, received, cards, contacts>>

\* The application takes the packet, or fails: the claim stands either way.
Receive(h) ==
  /\ handler[h].at = "receive"
  /\ handler' = [handler EXCEPT ![h] = NoRequest]
  /\ \/ received' = received \cup {handler[h].packet} /\ post' = Answered(h, "accepted")
     \/ received' = received /\ post' = Answered(h, "failed")
  /\ UNCHANGED <<packetTime, agents, authority, wire, seen, accepted, cards, contacts>>

\* The recipient's process ends, and with it its guard.
RestartRecipient ==
  /\ accepted # << >>
  /\ seen' = << >> /\ accepted' = << >>
  /\ handler' = [h \in Handlers |-> NoRequest]
  /\ post' = IF post.at = "open" THEN [post EXCEPT !.at = "failed"] ELSE post
  /\ UNCHANGED <<packetTime, agents, authority, wire, received, cards, contacts>>

------------------------------------------------------------------------------
(* Contact cards.                                                           *)

ValidateContact(card, now) ==
  /\ card.expires # 0 /\ now < card.expires /\ card.expires <= now + CardLifetime

ContactBytes(card) == [key |-> card.key, network |-> card.network, expires |-> card.expires]

SignContactAt(key, network, expires) ==
  LET unsigned == [key |-> key, network |-> network, expires |-> expires]
      card == [key |-> key, network |-> network, expires |-> expires,
               signature |-> [by |-> key, over |-> ContactBytes(unsigned)]] IN
  /\ cards = {} /\ ValidateContact(unsigned, packetTime)
  /\ cards' = {[card |-> card, signed |-> packetTime]}
  /\ UNCHANGED <<packetTime, agents, authority, wire, post, handler, seen, accepted, received, contacts>>

\* A card is encoded and decoded whatever its age: it is validated as of the
\* second before it expires.
DecodesContactJSON(card) == ValidateContact(card, card.expires - 1)

\* What a rendezvous hands on: the card, or one with another expiry.
CardCopies(card) == {[card EXCEPT !.expires = t] : t \in 0 .. MaxPacketTime + CardLifetime}

\* A caller that names no network takes a card of any.
VerifyContactForNetwork(card, networks) ==
  /\ ValidateContact(card, packetTime)
  /\ card.network \in networks
  /\ Live("recipient") /\ card.key = agents.recipient.key
  /\ card.signature.by = card.key /\ card.signature.over = ContactBytes(card)

VerifyContact(card) ==
  /\ DecodesContactJSON(card) /\ VerifyContactForNetwork(card, {"tos"})
  /\ contacts' = contacts \cup {[card |-> card, at |-> packetTime]}
  /\ UNCHANGED <<packetTime, agents, authority, wire, post, handler, seen, accepted, received, cards>>

------------------------------------------------------------------------------
(* Finalized state (external) and time.                                     *)

FinalizeAgent(a, state) ==
  /\ agents' = [agents EXCEPT ![a] = state]
  /\ authority' = [authority EXCEPT ![packetTime] =
                     IF agents'.sender.tombstoned THEN @ ELSE @ \cup {agents'.sender.key}]
  /\ UNCHANGED <<packetTime, wire, post, handler, seen, accepted, received, cards, contacts>>

RegisterAgent(a) == ~agents[a].found /\ FinalizeAgent(a, [agents[a] EXCEPT !.found = TRUE])
RotateAgent(a) ==
  Live(a) /\ agents[a].key < MaxPolicy /\ FinalizeAgent(a, [agents[a] EXCEPT !.key = @ + 1])
TombstoneAgent(a) == Live(a) /\ FinalizeAgent(a, [agents[a] EXCEPT !.tombstoned = TRUE])

PacketTick ==
  /\ packetTime < MaxPacketTime
  /\ packetTime' = packetTime + 1
  /\ authority' = [authority EXCEPT ![packetTime + 1] = IF Live("sender") THEN {agents.sender.key} ELSE {}]
  /\ UNCHANGED <<agents, wire, post, handler, seen, accepted, received, cards, contacts>>

PacketNext ==
  \/ \E nonce \in Nonces, payload \in Payloads, key \in 1 .. agents.sender.key :
       Post(Sign(nonce, payload, key))
  \/ PostFails
  \/ \E h \in Handlers, sent \in wire : \E body \in Copies(sent), live \in BOOLEAN : Arrive(h, body, live)
  \/ \E h \in Handlers : ResolveSender(h) \/ ResolveRecipient(h) \/ Claim(h) \/ Receive(h)
  \/ RestartRecipient
  \/ RegisterAgent("recipient") \/ RotateAgent("sender") \/ TombstoneAgent("sender")
  \/ PacketTick

ContactNext ==
  \/ \E key \in 1 .. agents.recipient.key, network \in Networks, expires \in 1 .. MaxPacketTime + CardLifetime :
       SignContactAt(key, network, expires)
  \/ \E issued \in cards : \E card \in CardCopies(issued.card) : VerifyContact(card)
  \/ RegisterAgent("recipient") \/ RotateAgent("recipient") \/ TombstoneAgent("recipient")
  \/ PacketTick

------------------------------------------------------------------------------
\* While the recipient's process lives, a nonce that was accepted is accepted
\* again only after more than the TTL has passed since it first arrived, in
\* whatever order concurrent handlers reach the guard. What was accepted was
\* signed as it is by a key that controlled the live sender at some time
\* while the request was handled, and a Post that reports success was
\* received. A verified contact card is one that was signed, less than a
\* card's lifetime before.
PacketsAreAccountable ==
  /\ \A i, j \in DOMAIN accepted :
       i < j /\ PacketKey(accepted[i].packet) = PacketKey(accepted[j].packet) =>
         accepted[j].claimed > accepted[i].arrived + PacketTTL
  /\ \A i \in DOMAIN accepted :
       LET a == accepted[i] IN
       /\ EncodeJSON(a.packet) \in wire
       /\ \E t \in a.arrived .. a.claimed : a.packet.key \in authority[t]
  /\ post.at = "accepted" => post.packet \in received
  /\ \A c \in contacts : \E issued \in cards :
       c.card = issued.card /\ c.at < issued.signed + CardLifetime
==============================================================================
