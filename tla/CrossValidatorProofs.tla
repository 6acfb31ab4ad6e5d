-------------------------- MODULE CrossValidatorProofs --------------------------
(***************************************************************************)
(* Theorems about CrossValidator, for every number of threads, token       *)
(* objects and buffers, and every set of seeds, secrets and texts.         *)
(***************************************************************************)
EXTENDS CrossValidator, SequenceTheorems, TLAPS

-----------------------------------------------------------------------------
(* Type correctness.                                                       *)

\* The empty map is a function to any set.
LEMMA EmptyMap ==
  ASSUME NEW S
  PROVE  <<>> \in [DOMAIN <<>> -> S] /\ DOMAIN <<>> = {}
  OBVIOUS

\* Assigning a token object keeps the map of objects, and their histories, well-formed.
LEMMA HoldType ==
  ASSUME TypeOK, NEW x \in Slots, NEW k \in Token, NEW o \in Origin, Hold(x, k, o)
  PROVE  /\ DOMAIN token' \subseteq Slots /\ token' \in [DOMAIN token' -> Token]
         /\ origin' \in [DOMAIN token' -> Origin]
  BY DEF Hold, TypeOK

\* A minted token is a token.
LEMMA MintedType ==
  ASSUME NEW s \in Seeds \cup {Zeroed}, NEW f \in Secrets \cup {Zeroed},
         NEW cycle \in Cycles, NEW room \in Rooms, NEW t \in Texts
  PROVE  Minted(s, f, cycle, room, t) \in Token
  <1>1. LiveHash(s, cycle, room, t) \in LiveHashes
    BY DEF LiveHashes
  <1>2. FlexHash(f, room) \in FlexHashes
    BY DEF FlexHashes
  <1> QED
    BY <1>1, <1>2 DEF Minted, Token

\* So is a dissolved one.
LEMMA DissolvedType ==
  ASSUME NEW k \in Token
  PROVE  Dissolved(k) \in Token
  BY DEF Dissolved, Token

\* Every step keeps every variable's type.
LEMMA NextType == TypeOK /\ [Next]_vars => TypeOK'
  <1> SUFFICES ASSUME TypeOK, [Next]_vars PROVE TypeOK'
    OBVIOUS
  <1>1. ASSUME NEW b \in SeedBuffers, NEW s \in Seeds, NEW c \in SecretBuffers,
               NEW f \in Secrets, Reseed(b, s, c, f)
        PROVE  TypeOK'
    BY <1>1 DEF Reseed, Fill, objects, traps, TypeOK
  <1>2. ASSUME NEW x \in Slots, NEW b \in SeedBuffers, NEW c \in SecretBuffers,
               NEW cycle \in Cycles, NEW room \in Rooms, NEW t \in Texts,
               Mint(x, b, c, cycle, room, t)
        PROVE  TypeOK'
    <2> DEFINE k == Minted(seed[b], secret[c], cycle, room, t)
               o == [seed |-> seed[b], secret |-> secret[c], text |-> t, dissolved |-> FALSE]
    <2>1. seed[b] \in Seeds \cup {Zeroed} /\ secret[c] \in Secrets \cup {Zeroed}
      BY DEF TypeOK
    <2>2. k \in Token
      BY <2>1, MintedType
    <2>3. o \in Origin
      BY <2>1 DEF Origin
    <2>4. Hold(x, k, o) /\ minted' = minted + 1 /\ UNCHANGED <<memory, traps>>
      BY <1>2 DEF Mint
    <2> HIDE DEF k, o
    <2>5. /\ DOMAIN token' \subseteq Slots /\ token' \in [DOMAIN token' -> Token]
          /\ origin' \in [DOMAIN token' -> Origin]
      BY <2>2, <2>3, <2>4, HoldType
    <2> QED
      BY <2>4, <2>5 DEF memory, traps, TypeOK
  <1>3. ASSUME NEW x \in Slots, NEW y \in Slots, Copy(x, y) PROVE TypeOK'
    <2>1. token[x] \in Token /\ origin[x] \in Origin /\ Hold(y, token[x], origin[x])
      BY <1>3 DEF Copy, TypeOK
    <2>2. /\ DOMAIN token' \subseteq Slots /\ token' \in [DOMAIN token' -> Token]
          /\ origin' \in [DOMAIN token' -> Origin]
      BY <2>1, HoldType
    <2> QED
      BY <1>3, <2>2 DEF Copy, memory, traps, TypeOK
  <1>4. ASSUME NEW n \in Threads, NEW x \in Slots, NEW b \in SeedBuffers,
               NEW c \in SecretBuffers, Dissolve(n, x, b, c)
        PROVE  TypeOK'
    <2> DEFINE o == [origin[x] EXCEPT !.dissolved = TRUE]
    <2>1. token[x] \in Token /\ token[x].live_hash \in LiveHashes
      BY <1>4 DEF Dissolve, TypeOK, Token
    <2>2. o \in Origin
      BY <1>4 DEF Dissolve, TypeOK, Origin
    <2>3. Hold(x, Dissolved(token[x]), o)
      BY <1>4 DEF Dissolve
    <2> HIDE DEF o
    <2>4. /\ DOMAIN token' \subseteq Slots /\ token' \in [DOMAIN token' -> Token]
          /\ origin' \in [DOMAIN token' -> Origin]
      BY <2>1, <2>2, <2>3, HoldType, DissolvedType
    <2>5. arming' \in [Threads -> LiveHashes \cup {NoHash}] /\ baits' \subseteq LiveHashes
      BY <1>4, <2>1 DEF Dissolve, SaveBait, TypeOK
    <2> QED
      BY <1>4, <2>4, <2>5 DEF Dissolve, Fill, TypeOK
  <1>5. ASSUME NEW n \in Threads, Arm(n) PROVE TypeOK'
    BY <1>5 DEF Arm, memory, objects, TypeOK
  <1>6. ASSUME NEW h \in LiveHashes, CheckHit(h) PROVE TypeOK'
    <2>1. room_5_queue' \in Seq(LiveHashes)
      BY <1>6, AppendProperties DEF CheckHit, TypeOK
    <2> QED
      BY <1>6, <2>1 DEF CheckHit, memory, objects, TypeOK
  <1>7. CASE UNCHANGED vars
    BY <1>7 DEF vars, memory, objects, traps, TypeOK
  <1> QED
    BY <1>1, <1>2, <1>3, <1>4, <1>5, <1>6, <1>7 DEF Next

\* Every variable of the cross-validator and its callers keeps its type.
THEOREM TypeInvariant == Spec => []TypeOK
  <1>1. Init => TypeOK
    BY EmptyMap DEF Init, TypeOK
  <1>2. TypeOK /\ [Next]_vars => TypeOK'
    BY NextType
  <1> QED
    BY <1>1, <1>2, PTL DEF Spec

-----------------------------------------------------------------------------
(* What validate accepts.                                                  *)

\* A token object k with history o has the hashes it was minted with, or, dissolved, the
\* first of them.
Kept(k, o) ==
  /\ k.live_hash = LiveHash(o.seed, k.cycle_id, k.source_room, o.text)
  /\ k.flex_hash = IF o.dissolved THEN NoHash ELSE FlexHash(o.secret, k.source_room)
  /\ IsValid(k) <=> ~o.dissolved

AllKept == \A x \in DOMAIN token : Kept(token[x], origin[x])

\* A token object that is assigned something kept leaves every object kept.
LEMMA HoldKeeps ==
  ASSUME AllKept, NEW x, NEW k, NEW o, Kept(k, o), Hold(x, k, o)
  PROVE  AllKept'
  BY DEF Hold, AllKept

\* Minting makes, and dissolving keeps, what Kept says.
LEMMA MintedKept ==
  ASSUME NEW s, NEW f, NEW cycle, NEW room, NEW t
  PROVE  Kept(Minted(s, f, cycle, room, t),
              [seed |-> s, secret |-> f, text |-> t, dissolved |-> FALSE])
  BY DEF Kept, Minted, IsValid

LEMMA DissolvedKept ==
  ASSUME NEW k \in Token, NEW o \in Origin, Kept(k, o)
  PROVE  Kept(Dissolved(k), [o EXCEPT !.dissolved = TRUE])
  BY DEF Kept, Dissolved, IsValid, Token, Origin

\* Every step keeps every object's hashes.
LEMMA AllKeptStep == TypeOK /\ AllKept /\ [Next]_vars => AllKept'
  <1> SUFFICES ASSUME TypeOK, AllKept, [Next]_vars PROVE AllKept'
    OBVIOUS
  <1>1. ASSUME NEW x \in Slots, NEW b \in SeedBuffers, NEW c \in SecretBuffers,
               NEW cycle \in Cycles, NEW room \in Rooms, NEW t \in Texts,
               Mint(x, b, c, cycle, room, t)
        PROVE  AllKept'
    BY <1>1, MintedKept, HoldKeeps DEF Mint
  <1>2. ASSUME NEW x \in Slots, NEW y \in Slots, Copy(x, y) PROVE AllKept'
    BY <1>2, HoldKeeps DEF Copy, AllKept
  <1>3. ASSUME NEW n \in Threads, NEW x \in Slots, NEW b \in SeedBuffers,
               NEW c \in SecretBuffers, Dissolve(n, x, b, c)
        PROVE  AllKept'
    <2>1. token[x] \in Token /\ origin[x] \in Origin /\ Kept(token[x], origin[x])
      BY <1>3 DEF Dissolve, TypeOK, AllKept
    <2> QED
      BY <1>3, <2>1, DissolvedKept, HoldKeeps DEF Dissolve
  <1>4. CASE UNCHANGED objects
    BY <1>4 DEF objects, AllKept
  <1>5. \/ \E b \in SeedBuffers, s \in Seeds, c \in SecretBuffers, f \in Secrets : Reseed(b, s, c, f)
        \/ \E n \in Threads : Arm(n)
        \/ \E h \in LiveHashes : CheckHit(h)
        \/ UNCHANGED vars
        => UNCHANGED objects
    BY DEF Reseed, Arm, CheckHit, vars
  <1> QED
    BY <1>1, <1>2, <1>3, <1>4, <1>5 DEF Next

\* What the invariant says of one call of validate.
LEMMA ValidatesOnlyKept ==
  ASSUME NEW k \in Token, NEW o \in Origin, Kept(k, o), NEW s, NEW t,
         NEW f \in Secrets \cup {Zeroed}
  PROVE  Validates(k, s, f, t) <=>
           /\ ~o.dissolved /\ s = o.seed /\ f = o.secret
           /\ Joined(t) = Joined(o.text)
  <1>1. FlexHash(f, k.source_room) # NoHash
    BY CrossValidatorAssumption DEF FlexHashes, Token
  <1>2. k.flex_hash = FlexHash(f, k.source_room) <=> ~o.dissolved /\ f = o.secret
    BY <1>1 DEF Kept, FlexHash
  <1>3. k.live_hash = LiveHash(s, k.cycle_id, k.source_room, t)
          <=> s = o.seed /\ Joined(t) = Joined(o.text)
    BY DEF Kept, LiveHash
  <1> QED
    BY <1>2, <1>3 DEF Validates

\* However tokens are copied, dissolved and overwritten and buffers wiped and refilled,
\* validate accepts exactly an undissolved token with what it was minted from.
THEOREM OnlyGenuineValidates == Spec => []ValidIffGenuine
  <1>1. Init => AllKept
    BY EmptyMap DEF Init, AllKept
  <1>2. TypeOK /\ AllKept /\ [Next]_vars => AllKept'
    BY AllKeptStep
  <1>3. TypeOK /\ AllKept => ValidIffGenuine
    <2> SUFFICES ASSUME TypeOK, AllKept, NEW x \in DOMAIN token
                 PROVE  /\ IsValid(token[x]) <=> ~origin[x].dissolved
                        /\ \A b \in SeedBuffers, c \in SecretBuffers, t \in Texts :
                             Validates(token[x], seed[b], secret[c], t) <=>
                               /\ ~origin[x].dissolved
                               /\ seed[b] = origin[x].seed /\ secret[c] = origin[x].secret
                               /\ Joined(t) = Joined(origin[x].text)
      BY DEF ValidIffGenuine
    <2>1. token[x] \in Token /\ origin[x] \in Origin /\ Kept(token[x], origin[x])
      BY DEF TypeOK, AllKept
    <2>2. \A c \in SecretBuffers : secret[c] \in Secrets \cup {Zeroed}
      BY DEF TypeOK
    <2> QED
      BY <2>1, <2>2, ValidatesOnlyKept DEF Kept
  <1> QED
    BY <1>1, <1>2, <1>3, TypeInvariant, PTL DEF Spec

-----------------------------------------------------------------------------
(* The honeypots.                                                          *)

\* Every step keeps the honeypots and the check-ins to the dissolved tokens' hashes.
LEMMA BaitStep == TypeOK /\ BaitIsArmed /\ [Next]_vars => BaitIsArmed'
  <1> SUFFICES ASSUME TypeOK, BaitIsArmed, [Next]_vars PROVE BaitIsArmed'
    OBVIOUS
  <1>1. ASSUME NEW x \in Slots, NEW b \in SeedBuffers, NEW c \in SecretBuffers,
               NEW cycle \in Cycles, NEW room \in Rooms, NEW t \in Texts,
               Mint(x, b, c, cycle, room, t)
        PROVE  BaitIsArmed'
    BY <1>1 DEF Mint, Hold, traps, BaitIsArmed
  <1>2. ASSUME NEW x \in Slots, NEW y \in Slots, Copy(x, y) PROVE BaitIsArmed'
    BY <1>2 DEF Copy, Hold, traps, BaitIsArmed
  <1>3. ASSUME NEW n \in Threads, NEW x \in Slots, NEW b \in SeedBuffers,
               NEW c \in SecretBuffers, Dissolve(n, x, b, c)
        PROVE  BaitIsArmed'
    <2> DEFINE h == token[x].live_hash
    <2>1. h \in LiveHashes /\ h # NoHash
      BY <1>3, CrossValidatorAssumption DEF Dissolve, TypeOK, Token
    <2>2. /\ arming[n] = NoHash /\ arming' = [arming EXCEPT ![n] = h]
          /\ active_honeypots' = active_honeypots /\ room_5_queue' = room_5_queue
          /\ baits' = baits \cup {h}
      BY <1>3 DEF Dissolve, SaveBait
    <2>3. Dissolved(token[x]).live_hash = h
      BY <1>3 DEF Dissolve, Dissolved, TypeOK, Token
    <2>4. \A y \in DOMAIN token' : origin'[y].dissolved => token'[y].live_hash \in baits'
      BY <1>3, <2>2, <2>3 DEF Dissolve, Hold, BaitIsArmed
    <2> HIDE DEF h
    <2>5. {arming'[m] : m \in Threads} \ {NoHash}
            = ({arming[m] : m \in Threads} \ {NoHash}) \cup {h}
      BY <2>1, <2>2 DEF TypeOK
    <2> QED
      BY <2>2, <2>4, <2>5 DEF BaitIsArmed
  <1>4. ASSUME NEW n \in Threads, Arm(n) PROVE BaitIsArmed'
    <2>1. /\ active_honeypots' = active_honeypots \cup {arming[n]} /\ arming[n] # NoHash
          /\ arming' = [arming EXCEPT ![n] = NoHash]
          /\ UNCHANGED <<token, origin, room_5_queue, baits>>
      BY <1>4 DEF Arm, objects
    <2>2. active_honeypots' \cup ({arming'[m] : m \in Threads} \ {NoHash})
            = active_honeypots \cup ({arming[m] : m \in Threads} \ {NoHash})
      BY <2>1 DEF TypeOK
    <2> QED
      BY <2>1, <2>2 DEF BaitIsArmed
  <1>5. ASSUME NEW h \in LiveHashes, CheckHit(h) PROVE BaitIsArmed'
    <2>1. /\ h \in active_honeypots /\ room_5_queue' = Append(room_5_queue, h)
          /\ UNCHANGED <<token, origin, active_honeypots, arming, baits>>
      BY <1>5 DEF CheckHit, objects
    <2>2. \A i \in 1..Len(room_5_queue') : room_5_queue'[i] \in active_honeypots
      BY <2>1, AppendProperties DEF TypeOK, BaitIsArmed
    <2> QED
      BY <2>1, <2>2 DEF BaitIsArmed
  <1>6. CASE UNCHANGED <<objects, traps>>
    BY <1>6 DEF objects, traps, BaitIsArmed
  <1>7. \/ \E b \in SeedBuffers, s \in Seeds, c \in SecretBuffers, f \in Secrets : Reseed(b, s, c, f)
        \/ UNCHANGED vars
        => UNCHANGED <<objects, traps>>
    BY DEF Reseed, vars
  <1> QED
    BY <1>1, <1>2, <1>3, <1>4, <1>5, <1>6, <1>7 DEF Next

\* Whoever dissolves at the same time, the honeypots are exactly the dissolved tokens'
\* first hashes, and room 5 holds nothing but uses of them.
THEOREM BaitsAreDissolved == Spec => []BaitIsArmed
  <1>1. Init => BaitIsArmed
    BY EmptyMap DEF Init, BaitIsArmed
  <1>2. TypeOK /\ BaitIsArmed /\ [Next]_vars => BaitIsArmed'
    BY BaitStep
  <1> QED
    BY <1>1, <1>2, TypeInvariant, PTL DEF Spec

=============================================================================
