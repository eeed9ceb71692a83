----------------------------- MODULE SigningKeys ------------------------------
(***************************************************************************)
(* The signing keys of TokenService across a rotation.                     *)
(*                                                                         *)
(* Keys come from the environment of an API task and are read once, when   *)
(* the task starts.  An operator rotates them by changing the secrets and  *)
(* restarting one task after the other, so tasks with different keys serve *)
(* side by side and see each other's tokens.                               *)
(*                                                                         *)
(* Keys are always given, as production requires: the key pair a task      *)
(* makes up when it has none is left out.  A signature is good exactly     *)
(* under the key with the kid it names.                                    *)
(***************************************************************************)
EXTENDS FiniteSets

CONSTANTS
    Tasks,   \* API tasks
    Kids     \* signing keys, by kid

VARIABLES
    secrets,  \* JWT_PRIVATE_JWK with JWT_ACTIVE_KID, and JWT_PUBLIC_JWKS
    ring,     \* the keys a task runs with
    live      \* the keys under which some access token has not expired yet

keyVars == <<secrets, ring, live>>

Secrets == [private: Kids, public: SUBSET Kids]

Ring == [sign: SUBSET Kids, verify: SUBSET Kids, activeKid: Kids]

-----------------------------------------------------------------------------
\* TokenService

importKeyPair(kid) == [sign |-> {kid}, verify |-> {kid}, activeKid |-> kid]

\* A public key replaces an entry with the same kid, private key and all.
importPublicKeys_Replacing(keys, kids) ==
    [keys EXCEPT !.sign = @ \ kids, !.verify = @ \cup kids]

\* Public keys whose kid is not there yet; they cannot sign.
importPublicKeys(keys, kids) == [keys EXCEPT !.verify = @ \cup (kids \ keys.verify)]

\* Only the key pair is read.
initialize_PairOnly(s) == importKeyPair(s.private)

initialize(s) == importPublicKeys(importKeyPair(s.private), s.public)

requireActiveSigningKey(task) == ring[task].activeKid \in ring[task].sign

issueAccessToken(task) ==
    /\ requireActiveSigningKey(task)
    /\ live' = live \cup {ring[task].activeKid}
    /\ UNCHANGED <<secrets, ring>>

\* Whether a task accepts a token signed under kid that has not expired.
validateAccessToken(task, kid) == kid \in ring[task].verify

\* A start, a restart by the operator, or one after a crash.
StartTask(task) ==
    /\ ring' = [ring EXCEPT ![task] = initialize(secrets)]
    /\ UNCHANGED <<secrets, live>>

-----------------------------------------------------------------------------
\* The operator (external; docs/operations/runbook.md) and time.

PublishKey(kid) ==
    /\ secrets' = [secrets EXCEPT !.public = @ \cup {kid}]
    /\ UNCHANGED <<ring, live>>

SwitchKey(kid) ==
    /\ kid \in secrets.public
    /\ secrets' = [secrets EXCEPT !.private = kid]
    /\ UNCHANGED <<ring, live>>

\* After the restarts, when the lifetime of a token has passed.
RetireKey(kid) ==
    /\ kid # secrets.private /\ kid \notin live
    /\ \A task \in Tasks : ring[task].activeKid # kid
    /\ secrets' = [secrets EXCEPT !.public = @ \ {kid}]
    /\ UNCHANGED <<ring, live>>

\* The last token signed under kid expires.
TokensExpire(kid) ==
    /\ kid \in live
    /\ live' = live \ {kid}
    /\ UNCHANGED <<secrets, ring>>

KeysInit ==
    /\ secrets \in {[private |-> kid, public |-> {kid}] : kid \in Kids}
    /\ ring = [task \in Tasks |-> initialize(secrets)]
    /\ live = {}

KeysNext ==
    \/ \E task \in Tasks : issueAccessToken(task) \/ StartTask(task)
    \/ \E kid \in Kids :
         PublishKey(kid) \/ SwitchKey(kid) \/ RetireKey(kid) \/ TokensExpire(kid)

KeysSpec == KeysInit /\ [][KeysNext]_keyVars

-----------------------------------------------------------------------------
\* Properties.

\* Secrets and key rings have their types.
KeysTypeOK ==
    /\ secrets \in Secrets
    /\ ring \in [Tasks -> Ring]
    /\ live \subseteq Kids

\* However the restarts of a rotation fall, a task that runs with the secrets of the
\* moment accepts every token still in circulation, whoever signed it: a task that
\* still signs with an old key does not strand its tokens.
UpToDateTasksAcceptAll ==
    \A task \in Tasks : ring[task] = initialize(secrets) =>
        \A kid \in live : validateAccessToken(task, kid)

\* No step of a rotation leaves a task that cannot sign, although the secrets name
\* the signing key twice, as a pair and among the public keys.
TasksCanSign == \A task \in Tasks : requireActiveSigningKey(task)

=============================================================================
