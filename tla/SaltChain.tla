----------------------------- MODULE SaltChain -----------------------------
(***************************************************************************)
(* The salts of the encrypted commands (pyloxone_api/connection.py:        *)
(* _send_text_command(), _generate_salt(), _new_salt_needed()): a salt is  *)
(* replaced after a number of uses or when it is old, and the command that *)
(* replaces it names both, so that the Miniserver can follow.  Checking    *)
(* the socket, encrypting and handing the frame to the websocket is one    *)
(* step of the event loop.  Salts are numbered and reused.                 *)
(***************************************************************************)
EXTENDS Naturals

CONSTANT MaxUses   \* SALT_MAX_USE_COUNT

ASSUME SaltChainAssumption == MaxUses \in Nat \ {0}

VARIABLES
  salt,      \* _salt
  used,      \* _salt_used_count
  aged,      \* _salt_time_stamp is more than SALT_MAX_AGE_SECONDS ago
  accepts,   \* the salt the Miniserver expects: NoSalt until the first command
  encrypted, \* the commands it has seen with that salt
  refused    \* it has seen a salt it did not expect

saltVars == <<salt, used, aged, accepts, encrypted, refused>>

Salts == 0..2
NoSalt == 3
NextSalt(s) == (s + 1) % 3

\* open() generates a salt, and a new websocket knows none.
StartSalt ==
  /\ salt' = NextSalt(salt) /\ used' = 0 /\ aged' = FALSE
  /\ accepts' = NoSalt /\ encrypted' = 0 /\ refused' = FALSE
InitSalt ==
  /\ salt = 0 /\ used = 0 /\ aged = FALSE
  /\ accepts = NoSalt /\ encrypted = 0 /\ refused = FALSE

\* _new_salt_needed(): the count is raised before it is compared.
NewSaltNeeded == used + 1 > MaxUses \/ aged

\* What goes out: salt/<salt>/... or nextSalt/<old>/<new>/...
Command == IF NewSaltNeeded
           THEN [old |-> salt, new |-> NextSalt(salt)]
           ELSE [old |-> salt, new |-> salt]

\* Mutation: a new salt is simply used.
Unannounced(c) == [old |-> c.new, new |-> c.new]
Announced(c) == c

\* The Miniserver follows the chain.
Seen(c) ==
  /\ refused' = (refused \/ (accepts # NoSalt /\ c.old # accepts))
  /\ accepts' = c.new
  /\ encrypted' = IF c.new = accepts THEN encrypted + 1 ELSE 1

\* An encrypted command on an open socket.
SendEncrypted ==
  /\ salt' = Command.new
  /\ used' = IF NewSaltNeeded THEN 0 ELSE used + 1
  /\ aged' = (aged /\ ~NewSaltNeeded)
  /\ Seen(Announced(Command))

SaltAges == ~aged /\ aged' = TRUE /\ UNCHANGED <<salt, used, accepts, encrypted, refused>>

(***************************************************************************)
(* Properties.                                                             *)
(***************************************************************************)
\* Every command the Miniserver decrypts continues its chain of salts, and no
\* salt (with the initialisation vector that never changes) encrypts more than
\* MaxUses commands and the one that introduced it.
SaltChainUnbroken == ~refused /\ encrypted <= MaxUses + 1
=============================================================================
