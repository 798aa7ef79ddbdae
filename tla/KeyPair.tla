------------------------------ MODULE KeyPair -------------------------------
(***************************************************************************)
(* Encryptor: generating an RSA key pair and saving it in public.pem and   *)
(* private.pem, and encrypting and decrypting a message with what these    *)
(* files hold.  The n-th pair that is generated is n; the cryptography is  *)
(* OpenSSL's: a cipher text is opened by the private key of its pair and   *)
(* by nothing else.                                                        *)
(***************************************************************************)
EXTENDS Naturals

CONSTANT MaxPairs   \* bound: key pairs generated in a behaviour

Pairs == 1 .. MaxPairs

\* A key file that is missing, empty or cut short.
NoKey == 0

VARIABLES
  pub,      \* the key in public.pem
  priv,     \* the key in private.pem
  pair,     \* the newest pair generated
  saving,   \* where generate_key_pair is, or "idle"
  pkey,     \* generate_key_pair's pkey
  made,     \* what it last returned, "none" before it did and after a crash
  wire,     \* the last cipher text: [key, form], or NoWire
  plain     \* what decrypting it gave, "none" before

vars == <<pub, priv, pair, saving, pkey, made, wire, plain>>

\* How std::string(out) takes a buffer that has no terminator: up to a zero
\* byte within it, exactly, or on past its end.
Forms == {"cut", "whole", "overrun"}
NoWire == [key |-> NoKey, form |-> "cut"]

TypeOK ==
  /\ pub \in Pairs \cup {NoKey}
  /\ priv \in Pairs \cup {NoKey}
  /\ pair \in Pairs \cup {NoKey}
  /\ saving \in {"idle", "public", "write public", "private", "write private"}
  /\ pkey \in Pairs \cup {NoKey}
  /\ made \in {"none", "true", "false"}
  /\ wire \in [key : Pairs \cup {NoKey}, form : Forms]
  /\ plain \in {"none", "message", "message and more"}

Init ==
  /\ pub = NoKey
  /\ priv = NoKey
  /\ pair = NoKey
  /\ saving = "idle"
  /\ pkey = NoKey
  /\ made = "none"
  /\ wire = NoWire
  /\ plain = "none"

-----------------------------------------------------------------------------
\* Mistake: a pair that could not be saved is kept for the next call.
GenerateKeepsPair ==
  /\ saving = "idle"
  /\ \/ /\ pair < MaxPairs
        /\ pair' = IF pkey = NoKey \/ made = "true" THEN pair + 1 ELSE pair
        /\ pkey' = pair'
        /\ saving' = "public"
        /\ made' = made
     \/ /\ made' = "false"
        /\ UNCHANGED <<pair, pkey, saving>>
  /\ UNCHANGED <<pub, priv, wire, plain>>

\* generate_key_pair up to save_key_pair: a pair, or FALSE from one of the
\* four calls of OpenSSL.
Generate ==
  /\ saving = "idle"
  /\ \/ /\ pair < MaxPairs
        /\ pair' = pair + 1
        /\ pkey' = pair'
        /\ saving' = "public"
        /\ made' = made
     \/ /\ made' = "false"
        /\ UNCHANGED <<pair, pkey, saving>>
  /\ UNCHANGED <<pub, priv, wire, plain>>

\* save_public_key, opening the file: mode w+ empties it.  Without it the
\* write fails, and the pair is dropped.
OpenPublic ==
  /\ saving = "public"
  /\ \/ pub' = NoKey /\ saving' = "write public" /\ UNCHANGED made
     \/ pub' = pub /\ saving' = "idle" /\ made' = "false"
  /\ UNCHANGED <<priv, pair, pkey, wire, plain>>

\* PEM_write_bio fills a buffer, and its failure drops the pair.  The buffer is
\* written out when the file is closed, and if that fails nobody learns of it.
WritePublic ==
  /\ saving = "write public"
  /\ \/ pub' \in {pkey, pub} /\ saving' = "private" /\ UNCHANGED made
     \/ pub' = pub /\ saving' = "idle" /\ made' = "false"
  /\ UNCHANGED <<priv, pair, pkey, wire, plain>>

\* Mistake: the file is opened to be overwritten from its start (r+).
OpenPrivateKeeps ==
  /\ saving = "private"
  /\ \/ saving' = "write private" /\ UNCHANGED made
     \/ saving' = "idle" /\ made' = "false"
  /\ UNCHANGED <<pub, priv, pair, pkey, wire, plain>>

\* save_private_key, only after save_public_key returned true.
OpenPrivate ==
  /\ saving = "private"
  /\ \/ priv' = NoKey /\ saving' = "write private" /\ UNCHANGED made
     \/ priv' = priv /\ saving' = "idle" /\ made' = "false"
  /\ UNCHANGED <<pub, pair, pkey, wire, plain>>

\* As WritePublic: generate_key_pair may return true with an empty private.pem.
WritePrivate ==
  /\ saving = "write private"
  /\ \/ priv' \in {pkey, priv} /\ made' = "true"
     \/ priv' = priv /\ made' = "false"
  /\ saving' = "idle"
  /\ UNCHANGED <<pub, pair, pkey, wire, plain>>

\* The process is gone and started again; the files stay as they are.
Crash ==
  /\ saving # "idle"
  /\ saving' = "idle"
  /\ made' = "none"
  /\ pkey' = NoKey
  /\ UNCHANGED <<pub, priv, pair, wire, plain>>

\* public_encrypt, given the key in public.pem.  Without a key there is no
\* cipher text, and nothing is written over the last one.
Encrypt ==
  /\ saving = "idle"
  /\ pub # NoKey
  /\ \E f \in Forms : wire' = [key |-> pub, form |-> f]
  /\ plain' = "none"
  /\ UNCHANGED <<pub, priv, pair, saving, pkey, made>>

\* private_decrypt, given the key in private.pem: nothing on any failure, and the
\* message otherwise, to which the buffer's unterminated end may add.
Decrypt ==
  /\ saving = "idle"
  /\ wire # NoWire
  /\ plain' \in IF priv = wire.key /\ wire.form = "whole"
                THEN {"message", "message and more"} ELSE {"none"}
  /\ UNCHANGED <<pub, priv, pair, saving, pkey, made, wire>>

Next ==
  \/ Generate \/ OpenPublic \/ WritePublic \/ OpenPrivate \/ WritePrivate
  \/ Crash \/ Encrypt \/ Decrypt

Spec == Init /\ [][Next]_vars

-----------------------------------------------------------------------------
\* When the last generate_key_pair returned true, neither file holds a key of an
\* earlier pair, whatever calls failed or died before: the two are never halves
\* of different pairs.  A file may hold no key at all, because true is returned
\* also when the disk was full on closing.
SuccessLeavesNoOlderKey ==
  saving = "idle" /\ made = "true" => pub \in {pair, NoKey} /\ priv \in {pair, NoKey}

\* A pair whose private key no file holds and no call is about to write.
Lost(n) ==
  /\ n <= pair
  /\ priv # n
  /\ ~(pkey = n /\ saving \in {"public", "write public", "private", "write private"})

\* What was encrypted for a lost pair stays unreadable, through any number of
\* generations, failures and crashes: a private key is written once or never.
\* That includes the pair whose public half was saved when the private half
\* failed, for which messages are still encrypted.
LostForGood ==
  [][\A n \in Pairs :
       Lost(n) => Lost(n)' /\ (wire.key = n /\ plain = "none" => plain' = "none")]_vars

=============================================================================
