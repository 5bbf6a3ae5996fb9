---------------------------- MODULE IntentHandoff ----------------------------
(***************************************************************************)
(* How a deal's content travels (pkg/agentcommerce intent.go, retrieval.go, *)
(* handoff.go): an issuer publishes the revisions of a signed intent and    *)
(* may withdraw one, a reader fetches the content it refers to through      *)
(* redirects, and two parties hand private content over under a signed      *)
(* challenge of the receiver.                                               *)
(*                                                                          *)
(* Digests are the objects they commit to; a sealed message is a record of  *)
(* what its key, its associated data and its plaintext are, and it opens    *)
(* only where all three agree.                                              *)
(***************************************************************************)
EXTENDS Integers, Sequences, FiniteSets, FiniteSetsExt, SequencesExt

CONSTANTS
    Payloads,        \* intent payloads an issuer may publish
    IntentLives,     \* lifetimes an intent may be signed with
    MaxIntentLife,   \* MaxIntentLifetime
    IntentSkew,      \* MaxIntentClockSkew
    WithdrawalLife,  \* the day a withdrawal may be presented
    InlineLimit,     \* MaxIntentInlineDetailBytes
    Retrieval,       \* the owner's ContentRetrievalPolicy and credential
    Sites,           \* what every origin answers: a redirect or a body
    WantedDigest,    \* the content a reader asks for
    Challenges,      \* private handoff challenges the receiver signs
    Manifests,       \* private content a sender may seal
    HandoffLife,     \* MaxHandoffLifetime
    RetentionLimit,  \* the 90 days a receiver may keep content
    MaxRevisions, MaxIssuerKey, MaxSealed, MaxOpened, MaxIntentTime

VARIABLES
    intentTime,
    keyStarts,       \* when each issuer key came into force
    revisions,       \* the signed revisions of the intent, retained
    tombstones,      \* signed withdrawals, not yet presented to the carrier
    withdrawn,       \* revisions a verified withdrawal removed from discovery
    hop,             \* a retrieval: where it is, and whether the header is set
    fetched,         \* bodies the retriever returned
    shown,           \* origins that received the owner's credential
    sealed,          \* authorizations with their ciphertext, in transit
    opened           \* what the receiver accepted

intentVars == <<intentTime, keyStarts, revisions, tombstones, withdrawn>>
retrievalVars == <<hop, fetched, shown>>
handoffVars == <<sealed, opened>>
contentVars == <<intentVars, retrievalVars, handoffVars>>

\* Times are times of the Unix epoch.
ASSUME ContentAssumption ==
    /\ IntentSkew \in Nat /\ IntentLives \in SUBSET Nat
    /\ \A c \in Challenges : c.issued \in Int /\ c.expires \in Int /\ c.deleteBy \in Int
    /\ \A m \in Manifests : m.plain \in Int

-----------------------------------------------------------------------------
(* Intents.                                                                 *)

Card(modes, classes, keywords, valueState, hints, schedule) ==
    [modes |-> modes, classes |-> classes, keywords |-> keywords,
     valueState |-> valueState, hints |-> hints, schedule |-> schedule]

Schedule(earliest, latest, minimum, maximum) ==
    [earliest |-> earliest, latest |-> latest, minimum |-> minimum, maximum |-> maximum]

ValidateDiscoveryCard(c) ==
    /\ c.modes # {} /\ c.classes # {} /\ c.keywords # {}
    /\ c.valueState \in {"specified", "range"} => c.hints > 0
    /\ c.schedule.latest # 0 => c.schedule.earliest <= c.schedule.latest
    /\ c.schedule.maximum # 0 => c.schedule.minimum <= c.schedule.maximum

ContentDescriptor(size, digest, inline) ==
    [size |-> size, digest |-> digest, inline |-> inline]

\* inline is the content itself, or "none"; its digest is the content.
ValidateContentDescriptor(d, allowInline) ==
    /\ d.size > 0
    /\ d.inline # "none" => allowInline /\ d.size <= InlineLimit /\ d.digest = d.inline

\* attachments holds at most one descriptor.
Payload(card, detail, attachments, routes) ==
    [card |-> card, detail |-> detail, attachments |-> attachments, routes |-> routes]

ValidateAgentIntentPayload(p) ==
    /\ ValidateDiscoveryCard(p.card)
    /\ ValidateContentDescriptor(p.detail, TRUE)
    /\ \A d \in p.attachments : ValidateContentDescriptor(d, FALSE)
    /\ p.routes > 0

IntentBody(revision, predecessor, created, expires, payload) ==
    [revision |-> revision, predecessor |-> predecessor, created |-> created,
     expires |-> expires, payload |-> payload]

\* ValidateIntentBody; predecessor 0 is the absent digest.
ValidateIntentBody(b, now) ==
    /\ b.revision > 0
    /\ b.created > 0
    /\ b.expires > b.created
    /\ b.expires - b.created <= MaxIntentLife
    /\ b.created <= now + IntentSkew
    /\ now < b.expires
    /\ (b.revision = 1) <=> (b.predecessor = 0)
    /\ ValidateAgentIntentPayload(b.payload)

\* External: the identity registry's answer for a key at a time.
AuthorizeIntentKey(key, at) ==
    /\ keyStarts[key] <= at
    /\ key < Len(keyStarts) => at < keyStarts[key + 1]

IssuerKey == CHOOSE key \in DOMAIN keyStarts : AuthorizeIntentKey(key, intentTime)

HistoryAtPresent(intent, observedAt, historical) ==
    /\ historical => intent.body.created <= observedAt + IntentSkew
    /\ ValidateIntentBody(intent.body, IF historical THEN intent.body.created ELSE observedAt)
    /\ AuthorizeIntentKey(intent.key, observedAt)

\* verifyIntent: history is verified at its issuance time.
VerifyIntent(intent, observedAt, historical) ==
    LET at == IF historical THEN intent.body.created ELSE observedAt
    IN  /\ historical => intent.body.created <= observedAt + IntentSkew
        /\ ValidateIntentBody(intent.body, at)
        /\ AuthorizeIntentKey(intent.key, at)

SignIntent(payload, life) ==
    LET n == Len(revisions)
        body == IntentBody(n + 1, n, intentTime, intentTime + life, payload)
    IN  /\ n < MaxRevisions
        /\ ValidateIntentBody(body, intentTime)
        /\ revisions' = Append(revisions, [body |-> body, key |-> IssuerKey])
        /\ UNCHANGED <<intentTime, keyStarts, tombstones, withdrawn>>

Withdrawal(n, created, key) ==
    [revision |-> n, created |-> created, expires |-> created + WithdrawalLife, key |-> key]

ValidateIntentWithdrawalBody(w, now) ==
    /\ w.revision > 0 /\ w.created > 0
    /\ w.expires > w.created /\ w.expires - w.created <= WithdrawalLife
    /\ w.created <= now + IntentSkew
    /\ now < w.expires

VerifyIntentWithdrawal(w, now) ==
    ValidateIntentWithdrawalBody(w, now) /\ AuthorizeIntentKey(w.key, now)

SignIntentWithdrawal(n) ==
    LET w == Withdrawal(n, intentTime, IssuerKey)
    IN  /\ n \in DOMAIN revisions \ withdrawn
        /\ tombstones = {}
        /\ ValidateIntentWithdrawalBody(w, w.created)
        /\ tombstones' = {w}
        /\ UNCHANGED <<intentTime, keyStarts, revisions, withdrawn>>

\* The carrier is shown a withdrawal, or the issuer gives it up.
PresentWithdrawal(w) ==
    /\ tombstones' = tombstones \ {w}
    /\ withdrawn' = IF VerifyIntentWithdrawal(w, intentTime)
                    THEN withdrawn \union {w.revision} ELSE withdrawn
    /\ UNCHANGED <<intentTime, keyStarts, revisions>>

\* External: the registry moves the issuer to its next key, from the next
\* moment on.
RotateIssuerKey ==
    /\ Len(keyStarts) < MaxIssuerKey
    /\ Last(keyStarts) <= intentTime
    /\ keyStarts' = Append(keyStarts, intentTime + 1)
    /\ UNCHANGED <<intentTime, revisions, tombstones, withdrawn>>

IntentTick ==
    /\ intentTime < MaxIntentTime
    /\ intentTime' = intentTime + 1
    /\ UNCHANGED <<keyStarts, revisions, tombstones, withdrawn>>

\* An intent a consumer finds: live, and not withdrawn.
Discoverable(n) == n \notin withdrawn /\ VerifyIntent(revisions[n], intentTime, FALSE)

-----------------------------------------------------------------------------
(* Retrieval.                                                               *)

Policy(allowed, credential, redirects, maxBytes) ==
    [allowed |-> allowed, credential |-> credential, redirects |-> redirects,
     maxBytes |-> maxBytes]

Body(size, digest) == [kind |-> "body", size |-> size, digest |-> digest, to |-> "none"]
Redirect(to) == [kind |-> "redirect", size |-> 0, digest |-> "none", to |-> to]

Idle == [at |-> "none", header |-> FALSE, redirects |-> 0]

ValidateRetrievalPolicy(p) == p.allowed # {} /\ p.redirects <= 3 /\ p.maxBytes > 0

ValidateRetrievalURL(origin) == origin \in Retrieval.allowed

\* Fetch up to client.Do: a configured credential must belong to the first
\* origin, whose request then carries it.
StartFetch(origin) ==
    /\ hop = Idle
    /\ ValidateRetrievalPolicy(Retrieval)
    /\ WantedDigest.size \in 1..Retrieval.maxBytes
    /\ ValidateRetrievalURL(origin)
    /\ Retrieval.credential \in {"none", origin}
    /\ hop' = [at |-> origin, header |-> Retrieval.credential = origin, redirects |-> 0]
    /\ UNCHANGED <<fetched, shown>>

HeaderFollows(to) == Retrieval.credential # "none"

\* CheckRedirect: net/http copies the first request's headers to every hop,
\* and the hook deletes the credential where the origin is not its own.
HeaderAfterRedirect(to) == Retrieval.credential # "none" /\ to = Retrieval.credential

\* The transport dials only public addresses; the answer is a redirect the
\* policy allows, the bounded content itself, or an error.
Answered(answer, public) ==
    LET redirects == hop.redirects + 1
    IN  /\ hop # Idle
        /\ answer \in Sites[hop.at]
        /\ shown' = IF public /\ hop.header THEN shown \union {hop.at} ELSE shown
        /\ IF /\ public /\ answer.kind = "redirect"
              /\ redirects <= Retrieval.redirects
              /\ ValidateRetrievalURL(answer.to)
           THEN hop' = [at |-> answer.to, header |-> HeaderAfterRedirect(answer.to),
                        redirects |-> redirects]
           ELSE hop' = Idle
        /\ fetched' = IF /\ public /\ answer.kind = "body"
                         /\ answer.size <= Retrieval.maxBytes
                         /\ [size |-> answer.size, digest |-> answer.digest] = WantedDigest
                      THEN fetched \union {answer} ELSE fetched

-----------------------------------------------------------------------------
(* Private handoff.                                                         *)

Challenge(id, sender, receiver, plain, cipher, files, media, issued, expires, deleteBy) ==
    [id |-> id, sender |-> sender, receiver |-> receiver, plain |-> plain,
     cipher |-> cipher, files |-> files, media |-> media, issued |-> issued,
     expires |-> expires, deleteBy |-> deleteBy]

Manifest(content, media, files, plain, expanded) ==
    [content |-> content, media |-> media, files |-> files, plain |-> plain,
     expanded |-> expanded]

DeletedAtAnyTime(c, now) ==
    /\ c.sender # c.receiver
    /\ c.plain > 0 /\ c.cipher >= c.plain + 1
    /\ c.files > 0 /\ c.media # {}
    /\ c.issued > 0 /\ c.expires > c.issued
    /\ c.deleteBy <= c.issued + RetentionLimit
    /\ c.expires - c.issued <= HandoffLife
    /\ c.issued <= now + IntentSkew
    /\ now < c.expires

\* validateHandoffChallenge; the authentication tag counts one byte.
ValidateHandoffChallenge(c, now) ==
    /\ c.sender # c.receiver
    /\ c.plain > 0 /\ c.cipher >= c.plain + 1
    /\ c.files > 0 /\ c.media # {}
    /\ c.issued > 0 /\ c.expires > c.issued
    /\ c.deleteBy >= c.expires
    /\ c.deleteBy <= c.issued + RetentionLimit
    /\ c.expires - c.issued <= HandoffLife
    /\ c.issued <= now + IntentSkew
    /\ now < c.expires

ValidateManifest(m, c) ==
    /\ m.files \in 1..c.files
    /\ m.plain \in 1..c.plain
    /\ m.expanded \in m.plain..c.plain
    /\ m.media \in c.media

PrivateHandoffAAD(c, m, action) == <<c, m, action>>

\* SealPrivateContent: the sender binds challenge, manifest and action in the
\* key, the associated data and the signed authorization.
SealPrivateContent(c, m, action) ==
    /\ Cardinality(sealed) < MaxSealed
    /\ c.issued <= intentTime
    /\ ValidateHandoffChallenge(c, c.issued)
    /\ ValidateManifest(m, c)
    /\ m.plain + 1 <= c.cipher
    /\ sealed' = sealed \union
         {[challenge |-> c, action |-> action, manifest |-> m, expires |-> c.expires,
           ciphertext |-> [aad |-> PrivateHandoffAAD(c, m, action), plaintext |-> m.content,
                           bytes |-> m.plain + 1]]}
    /\ UNCHANGED opened

OpenPrivateContent(c, a, ciphertext, now) ==
    /\ ValidateHandoffChallenge(c, now)
    /\ a.challenge = c /\ a.expires = c.expires
    /\ ciphertext = a.ciphertext
    /\ ciphertext.bytes <= c.cipher
    /\ ValidateManifest(a.manifest, c)
    /\ ciphertext.aad = PrivateHandoffAAD(c, a.manifest, a.action)
    /\ ciphertext.bytes = a.manifest.plain + 1
    /\ ciphertext.plaintext = a.manifest.content

AcceptedRecord(c, a, now) ==
    [challenge |-> c.id, action |-> a.action, content |-> a.manifest.content,
     plain |-> a.manifest.plain, acceptedAt |-> now, deleteBy |-> c.deleteBy]

\* validateAcceptedPrivateContent, which signing and verifying the
\* acknowledgement both apply.
ValidateAcceptedPrivateContent(r) == r.plain > 0 /\ r.acceptedAt > 0 /\ r.deleteBy >= r.acceptedAt

\* The receiver opens what arrived, whichever authorization and ciphertext the
\* transport paired with whichever of its challenges.
ReceivePrivateContent(c, a, b) ==
    /\ Cardinality(opened) < MaxOpened
    /\ OpenPrivateContent(c, a, b.ciphertext, intentTime)
    /\ opened' = opened \union {AcceptedRecord(c, a, intentTime)}
    /\ UNCHANGED sealed

-----------------------------------------------------------------------------
ContentInit ==
    /\ intentTime = 0
    /\ keyStarts = <<0>>
    /\ revisions = <<>> /\ tombstones = {} /\ withdrawn = {}
    /\ hop = Idle /\ fetched = {} /\ shown = {}
    /\ sealed = {} /\ opened = {}

IntentNext ==
    /\ \/ \E payload \in Payloads, life \in IntentLives : SignIntent(payload, life)
       \/ \E n \in 1..MaxRevisions : SignIntentWithdrawal(n)
       \/ \E w \in tombstones : PresentWithdrawal(w)
       \/ RotateIssuerKey
       \/ IntentTick
    /\ UNCHANGED <<retrievalVars, handoffVars>>

RetrievalNext ==
    /\ \/ \E origin \in DOMAIN Sites : StartFetch(origin)
       \/ \E answer \in UNION {Sites[o] : o \in DOMAIN Sites}, public \in BOOLEAN :
             Answered(answer, public)
    /\ UNCHANGED <<intentVars, handoffVars>>

HandoffNext ==
    \/ /\ \/ \E c \in Challenges, m \in Manifests, action \in 1..2 :
                SealPrivateContent(c, m, action)
          \/ \E c \in Challenges, a \in sealed, b \in sealed : ReceivePrivateContent(c, a, b)
       /\ UNCHANGED <<intentVars, retrievalVars>>
    \/ IntentTick /\ UNCHANGED <<retrievalVars, handoffVars>>

ContentSpec == ContentInit /\ [][IntentNext \/ RetrievalNext \/ HandoffNext]_contentVars

-----------------------------------------------------------------------------
(* Properties.                                                              *)

\* "Expiry removes an Intent from discovery, but cannot erase the signed
\* revision history needed to authenticate a live successor" (intent.go): behind
\* every revision a consumer can discover stands a chain of predecessors that
\* all still verify, whatever expired, was withdrawn or was rotated since.
HistoryStaysVerifiable ==
    \A n \in DOMAIN revisions : Discoverable(n) =>
        \A m \in 1..(n - 1) :
            /\ VerifyIntent(revisions[m], intentTime, TRUE)
            /\ revisions[m + 1].body.predecessor = m

\* Along any chain of redirects the owner's credential reaches no origin but
\* the one it was configured for, even an allowed one, and what a fetch
\* returns is the content asked for.
CredentialStaysHome ==
    /\ shown \subseteq {Retrieval.credential}
    /\ \A body \in fetched : [size |-> body.size, digest |-> body.digest] = WantedDigest

\* Private content the receiver opens is what the challenge's sender sealed
\* for that challenge, and the receiver can always acknowledge it: the record
\* of an accepted handoff is valid whenever the challenge still was.
OpenedIsAccountable ==
    \A r \in opened :
        /\ ValidateAcceptedPrivateContent(r)
        /\ \E s \in sealed : /\ s.challenge.id = r.challenge
                             /\ s.manifest.content = r.content
                             /\ s.action = r.action

\* Content moves only where it may: the credential to its own origin, and
\* private content from the sender of a challenge to its receiver.
HandoffIsContained == CredentialStaysHome /\ OpenedIsAccountable
=============================================================================
