----------------------------- MODULE CrossValidator -----------------------------
(***************************************************************************)
(* The cross-validator of src/core_engine/src/burner/cross_validator.cpp.  *)
(*                                                                         *)
(* A token is minted from a seed and a secret that stay in the caller's    *)
(* memory, and from a text; validate recomputes both of its hashes.        *)
(* Dissolving a token overwrites the caller's seed and secret, kills the   *)
(* token object, and arms its first hash as a honeypot: whoever presents   *)
(* that hash later is taken in.                                            *)
(*                                                                         *)
(* Tokens are plain structs which callers hold and copy, and which two     *)
(* threads do not work on at once.  A dissolve is two steps, the second    *)
(* under honeypot_lock_; everything else is one.  An HMAC is the record of *)
(* what went into it, so it is injective, and never fails.  The times of a *)
(* token are written and not read by the validator, its target room is not *)
(* read by anyone: both are left out.                                      *)
(*                                                                         *)
(* Definitions named Mut... are deliberate faults, used by no action: they *)
(* replace the definition that follows to confirm the properties notice.   *)
(***************************************************************************)
EXTENDS Naturals, Sequences, Functions

CONSTANTS
  Seeds, Secrets,              \* what callers generate
  Zeroed,                      \* what an overwritten buffer holds
  SeedBuffers, SecretBuffers,  \* the callers' memory
  Cycles, Rooms,
  Texts,                       \* [entropy, tick_salt], sequences of words
  Bars,                        \* the word "||"
  Slots,                       \* the callers' token objects
  Threads,
  NoHash,                      \* an overwritten flex_hash; also: nothing to arm
  MaxMints,                    \* bound: tokens minted
  MaxChecks                    \* bound: check-ins to room 5

\* the bytes of both factors: the text is one string, so it does not tell where the
\* entropy ends
Joined(t) == t.entropy \o <<Bars>> \o t.tick_salt
LiveHash(s, cycle, room, t) ==
  [seed |-> s, cycle_id |-> cycle, room |-> room, text |-> Joined(t)]
FlexHash(f, room) == [secret |-> f, room |-> room]

LiveHashes == {LiveHash(s, y, r, t) : s \in Seeds \cup {Zeroed}, y \in Cycles,
                                     r \in Rooms, t \in Texts}
FlexHashes == {FlexHash(f, r) : f \in Secrets \cup {Zeroed}, r \in Rooms}

Token ==
  [cycle_id : Cycles, source_room : Rooms,
   live_hash : LiveHashes, factor_one : BOOLEAN, seed_alive : BOOLEAN,
   flex_hash : FlexHashes \cup {NoHash}, factor_two : BOOLEAN, secret_alive : BOOLEAN]

\* what a token was made of, and whether it, or what it was copied from, is dissolved
Origin == [seed : Seeds \cup {Zeroed}, secret : Secrets \cup {Zeroed}, text : Texts,
           dissolved : BOOLEAN]

ASSUME CrossValidatorAssumption ==
  /\ MaxMints \in Nat /\ MaxChecks \in Nat
  /\ NoHash \notin LiveHashes \cup FlexHashes

VARIABLES
  seed, secret,       \* the contents of the buffers
  token,              \* the token objects in existence
  origin,             \* history: of each token object
  active_honeypots,   \* active_honeypots_
  room_5_queue,       \* room_5_queue_: the stolen_key of each check-in
  arming,             \* the hash each dissolve in progress has saved
  minted,             \* history: tokens minted
  baits               \* history: first hashes of the tokens dissolved

memory == <<seed, secret>>
objects == <<token, origin, minted>>
traps == <<active_honeypots, room_5_queue, arming, baits>>
vars == <<memory, objects, traps>>

TypeOK ==
  /\ seed \in [SeedBuffers -> Seeds \cup {Zeroed}]
  /\ secret \in [SecretBuffers -> Secrets \cup {Zeroed}]
  /\ DOMAIN token \subseteq Slots /\ token \in [DOMAIN token -> Token]
  /\ origin \in [DOMAIN token -> Origin]
  /\ active_honeypots \subseteq LiveHashes
  /\ room_5_queue \in Seq(LiveHashes)
  /\ arming \in [Threads -> LiveHashes \cup {NoHash}]
  /\ minted \in Nat /\ baits \subseteq LiveHashes

-----------------------------------------------------------------------------
(* What the operations compute.                                            *)

Minted(s, f, cycle, room, t) ==
  [cycle_id |-> cycle, source_room |-> room,
   live_hash |-> LiveHash(s, cycle, room, t), factor_one |-> TRUE, seed_alive |-> TRUE,
   flex_hash |-> FlexHash(f, room), factor_two |-> TRUE, secret_alive |-> TRUE]

\* validate, which changes nothing
Validates(k, s, f, t) ==
  /\ k.live_hash = LiveHash(s, k.cycle_id, k.source_room, t)
  /\ k.flex_hash = FlexHash(f, k.source_room)

\* is_valid
IsValid(k) == k.factor_one /\ k.factor_two /\ k.seed_alive /\ k.secret_alive

MutDissolvedKeepsFlex(k) ==
  [k EXCEPT !.seed_alive = FALSE, !.factor_one = FALSE,
            !.secret_alive = FALSE, !.factor_two = FALSE]

\* the token object as dissolve_to_bait leaves it; live_hash stays
Dissolved(k) ==
  [k EXCEPT !.seed_alive = FALSE, !.factor_one = FALSE,
            !.secret_alive = FALSE, !.factor_two = FALSE, !.flex_hash = NoHash]

\* token object x comes to hold k, with history o
Hold(x, k, o) ==
  /\ token' = [y \in DOMAIN token \cup {x} |-> IF y = x THEN k ELSE token[y]]
  /\ origin' = [y \in DOMAIN token \cup {x} |-> IF y = x THEN o ELSE origin[y]]

-----------------------------------------------------------------------------
(* Callers.                                                                *)

Fill(b, s, c, f) ==
  /\ seed' = [seed EXCEPT ![b] = s]
  /\ secret' = [secret EXCEPT ![c] = f]

\* new random bytes in a buffer that a dissolve has overwritten
Reseed(b, s, c, f) ==
  /\ seed[b] = Zeroed /\ secret[c] = Zeroed
  /\ Fill(b, s, c, f)
  /\ UNCHANGED <<objects, traps>>

\* mint, its result assigned to token object x
Mint(x, b, c, cycle, room, t) ==
  /\ minted < MaxMints
  /\ minted' = minted + 1
  /\ Hold(x, Minted(seed[b], secret[c], cycle, room, t),
          [seed |-> seed[b], secret |-> secret[c], text |-> t, dissolved |-> FALSE])
  /\ UNCHANGED <<memory, traps>>

Copy(x, y) ==
  /\ x \in DOMAIN token /\ x # y
  /\ Hold(y, token[x], origin[x])
  /\ UNCHANGED <<memory, traps, minted>>

-----------------------------------------------------------------------------
(* dissolve_to_bait.                                                       *)

MutSaveInMember(n, x) ==
  arming' = [m \in Threads |->
               IF m = n \/ arming[m] # NoHash THEN token[x].live_hash ELSE NoHash]

\* each call saves the hash in a local of its own
SaveBait(n, x) == arming' = [arming EXCEPT ![n] = token[x].live_hash]

\* the hash is saved, both buffers and the token object are wiped
Dissolve(n, x, b, c) ==
  /\ arming[n] = NoHash /\ x \in DOMAIN token
  /\ SaveBait(n, x)
  /\ baits' = baits \cup {token[x].live_hash}
  /\ Fill(b, Zeroed, c, Zeroed)
  /\ Hold(x, Dissolved(token[x]), [origin[x] EXCEPT !.dissolved = TRUE])
  /\ UNCHANGED <<active_honeypots, room_5_queue, minted>>

\* register_master_key_bait; dissolve_to_bait returns
Arm(n) ==
  /\ arming[n] # NoHash
  /\ active_honeypots' = active_honeypots \cup {arming[n]}
  /\ arming' = [arming EXCEPT ![n] = NoHash]
  /\ UNCHANGED <<memory, objects, room_5_queue, baits>>

-----------------------------------------------------------------------------
(* check_honeypot_use.  (A check of any other hash changes nothing.)       *)

CheckHit(h) ==
  /\ h \in active_honeypots
  /\ Len(room_5_queue) < MaxChecks
  /\ room_5_queue' = Append(room_5_queue, h)
  /\ UNCHANGED <<memory, objects, active_honeypots, arming, baits>>

-----------------------------------------------------------------------------

Init ==
  /\ seed \in [SeedBuffers -> Seeds] /\ secret \in [SecretBuffers -> Secrets]
  /\ token = <<>> /\ origin = <<>>
  /\ active_honeypots = {} /\ room_5_queue = <<>>
  /\ arming = [n \in Threads |-> NoHash]
  /\ minted = 0 /\ baits = {}

Next ==
  \/ \E b \in SeedBuffers, s \in Seeds, c \in SecretBuffers, f \in Secrets : Reseed(b, s, c, f)
  \/ \E x \in Slots, b \in SeedBuffers, c \in SecretBuffers, cycle \in Cycles,
        room \in Rooms, t \in Texts : Mint(x, b, c, cycle, room, t)
  \/ \E x, y \in Slots : Copy(x, y)
  \/ \E n \in Threads, x \in Slots, b \in SeedBuffers, c \in SecretBuffers :
       Dissolve(n, x, b, c)
  \/ \E n \in Threads : Arm(n)
  \/ \E h \in LiveHashes : CheckHit(h)

Spec == Init /\ [][Next]_vars

-----------------------------------------------------------------------------
(* Properties.                                                             *)

\* In every reachable state validate accepts a token object, with the buffers and text it
\* is given, exactly when the object was not dissolved and they are what it was minted
\* from: copies, wiped and refilled buffers, a second token of the same seeds, and the
\* dissolve of another object never change the answer.  The struct's own is_valid, which
\* validate does not ask, agrees about the dissolve.
ValidIffGenuine ==
  \A x \in DOMAIN token :
    /\ IsValid(token[x]) <=> ~origin[x].dissolved
    /\ \A b \in SeedBuffers, c \in SecretBuffers, t \in Texts :
         Validates(token[x], seed[b], secret[c], t) <=>
           /\ ~origin[x].dissolved
           /\ seed[b] = origin[x].seed /\ secret[c] = origin[x].secret
           /\ Joined(t) = Joined(origin[x].text)

\* The honeypots are the first hashes of the tokens whose dissolve has returned, whoever
\* dissolves at the same time, and room 5 holds nothing but uses of them; what a dissolved
\* object still shows is one, or about to be.
BaitIsArmed ==
  /\ active_honeypots \cup ({arming[n] : n \in Threads} \ {NoHash}) = baits
  /\ \A i \in 1..Len(room_5_queue) : room_5_queue[i] \in active_honeypots
  /\ \A x \in DOMAIN token : origin[x].dissolved => token[x].live_hash \in baits

=============================================================================
