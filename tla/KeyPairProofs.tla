--------------------------- MODULE KeyPairProofs ----------------------------
(* Proofs about KeyPair, for any number of key pairs.                      *)
EXTENDS KeyPair, TLAPS

\* What is being saved is the newest pair, half by half, and each file is emptied
\* before it is written.
SavingInv ==
  /\ saving # "idle" => pkey = pair /\ pair # NoKey
  /\ saving = "write public" => pub = NoKey
  /\ saving \in {"private", "write private"} => pub \in {pair, NoKey}
  /\ saving = "write private" => priv = NoKey

KeyInv == TypeOK /\ SavingInv /\ SuccessLeavesNoOlderKey

\* The numbers of the pairs, apart from everything that is a string.
LEMMA PairFacts ==
  ASSUME MaxPairs \in Nat
  PROVE  /\ NoKey \notin Pairs
         /\ \A m \in Pairs \cup {NoKey} : m < MaxPairs => m + 1 \in Pairs
         /\ \A m, n \in Pairs \cup {NoKey} : n <= m => n <= m + 1 /\ n # m + 1
BY DEF Pairs, NoKey

LEMMA KeyInit == Init => KeyInv
BY DEF Init, KeyInv, TypeOK, SavingInv, SuccessLeavesNoOlderKey, NoWire, Forms

\* What Generate does, the number of the pair apart.
LEMMA GenerateFacts ==
  ASSUME MaxPairs \in Nat, TypeOK, Generate
  PROVE  \/ /\ pair' \in Pairs /\ pkey' = pair' /\ saving' = "public" /\ made' = made
            /\ \A n \in Pairs : n <= pair => n <= pair' /\ n # pair'
         \/ /\ made' = "false" /\ saving' = "idle"
            /\ pair' = pair /\ pkey' = pkey
<1>1. CASE /\ pair < MaxPairs /\ pair' = pair + 1 /\ pkey' = pair'
           /\ saving' = "public" /\ made' = made
  <2>1. pair \in Pairs \cup {NoKey}
    BY DEF TypeOK
  <2>2. pair < MaxPairs /\ pair' = pair + 1
    BY <1>1
  <2>3. pair' \in Pairs /\ \A n \in Pairs : n <= pair => n <= pair' /\ n # pair'
    BY <2>1, <2>2, PairFacts
  <2>4. pkey' = pair' /\ saving' = "public" /\ made' = made
    BY <1>1
  <2>5. QED
    BY <2>3, <2>4
<1>2. CASE made' = "false" /\ UNCHANGED <<pair, pkey, saving>>
  BY <1>2 DEF Generate
<1>3. QED
  <2>1. \/ /\ pair < MaxPairs /\ pair' = pair + 1 /\ pkey' = pair'
           /\ saving' = "public" /\ made' = made
        \/ made' = "false" /\ UNCHANGED <<pair, pkey, saving>>
    BY Zenon DEF Generate
  <2>2. QED
    BY <2>1, <1>1, <1>2

LEMMA TypeNext ==
  ASSUME MaxPairs \in Nat, TypeOK, [Next]_vars
  PROVE  TypeOK'
<1> USE DEF TypeOK
<1>1. CASE UNCHANGED vars
  BY <1>1 DEF vars
<1>2. CASE Generate
  <2>1. UNCHANGED <<pub, priv, wire, plain>>
    BY <1>2 DEF Generate
  <2>2. QED
    BY <1>2, <2>1, GenerateFacts
<1>3. CASE OpenPublic
  BY <1>3 DEF OpenPublic
<1>4. CASE WritePublic
  BY <1>4 DEF WritePublic
<1>5. CASE OpenPrivate
  BY <1>5 DEF OpenPrivate
<1>6. CASE WritePrivate
  BY <1>6 DEF WritePrivate
<1>7. CASE Crash
  BY <1>7 DEF Crash
<1>8. CASE Encrypt
  <2>1. PICK f \in Forms : wire' = [key |-> pub, form |-> f]
    BY <1>8 DEF Encrypt
  <2>2. wire' \in [key : Pairs \cup {NoKey}, form : Forms]
    BY <2>1
  <2>3. QED
    BY <1>8, <2>2 DEF Encrypt
<1>9. CASE Decrypt
  BY <1>9 DEF Decrypt
<1>10. QED
  BY <1>1, <1>2, <1>3, <1>4, <1>5, <1>6, <1>7, <1>8, <1>9 DEF Next

LEMMA KeyNext ==
  ASSUME MaxPairs \in Nat, KeyInv, [Next]_vars
  PROVE  KeyInv'
<1>1. TypeOK'
  BY TypeNext DEF KeyInv
<1>2. SavingInv' /\ SuccessLeavesNoOlderKey'
  <2> USE DEF KeyInv, TypeOK, SavingInv, SuccessLeavesNoOlderKey
  <2>1. CASE UNCHANGED vars
    BY <2>1 DEF vars
  <2>2. CASE Generate
    <3>1. pub' = pub /\ priv' = priv /\ NoKey \notin Pairs
      BY <2>2, PairFacts DEF Generate
    <3>2. QED
      BY <2>2, <3>1, GenerateFacts
  <2>3. CASE OpenPublic
    BY <2>3 DEF OpenPublic
  <2>4. CASE WritePublic
    BY <2>4 DEF WritePublic
  <2>5. CASE OpenPrivate
    BY <2>5 DEF OpenPrivate
  <2>6. CASE WritePrivate
    BY <2>6 DEF WritePrivate
  <2>7. CASE Crash
    BY <2>7 DEF Crash
  <2>8. CASE Encrypt \/ Decrypt
    BY <2>8 DEF Encrypt, Decrypt
  <2>9. QED
    BY <2>1, <2>2, <2>3, <2>4, <2>5, <2>6, <2>7, <2>8 DEF Next
<1>3. QED
  BY <1>1, <1>2 DEF KeyInv

\* The files, the pair in memory and the message stay in their types.
THEOREM KeyPairTypes ==
  ASSUME MaxPairs \in Nat
  PROVE  Spec => []TypeOK
<1>1. KeyInv => TypeOK
  BY DEF KeyInv
<1>2. QED
  BY <1>1, KeyInit, KeyNext, PTL DEF Spec

\* A call that returned true leaves no key of an earlier pair in either file,
\* however many calls failed or died before it.
THEOREM NoOlderKeyAfterSuccess ==
  ASSUME MaxPairs \in Nat
  PROVE  Spec => []SuccessLeavesNoOlderKey
<1>1. KeyInv => SuccessLeavesNoOlderKey
  BY DEF KeyInv
<1>2. QED
  BY <1>1, KeyInit, KeyNext, PTL DEF Spec

-----------------------------------------------------------------------------
LEMMA LostNext ==
  ASSUME MaxPairs \in Nat, KeyInv, [Next]_vars, NEW n \in Pairs, Lost(n)
  PROVE  Lost(n)' /\ (wire.key = n /\ plain = "none" => plain' = "none")
<1> USE DEF KeyInv, TypeOK, SavingInv
<1>1. NoKey \notin Pairs /\ n # NoKey
  BY PairFacts
<1>2. Lost(n)'
  <2> USE DEF Lost
  <2>1. CASE UNCHANGED vars
    BY <2>1 DEF vars
  <2>2. CASE Generate
    <3>1. priv' = priv
      BY <2>2 DEF Generate
    <3>2. n <= pair' /\ priv' # n
      BY <2>2, <3>1, GenerateFacts
    <3>3. ~(pkey' = n /\ saving' \in {"public", "write public", "private", "write private"})
      BY <2>2, GenerateFacts
    <3>4. QED
      BY <3>2, <3>3
  <2>3. CASE OpenPublic
    BY <2>3 DEF OpenPublic
  <2>4. CASE WritePublic
    BY <2>4 DEF WritePublic
  <2>5. CASE OpenPrivate
    BY <1>1, <2>5 DEF OpenPrivate
  <2>6. CASE WritePrivate
    BY <2>6 DEF WritePrivate
  <2>7. CASE Crash
    BY <2>7 DEF Crash
  <2>8. CASE Encrypt \/ Decrypt
    BY <2>8 DEF Encrypt, Decrypt
  <2>9. QED
    BY <2>1, <2>2, <2>3, <2>4, <2>5, <2>6, <2>7, <2>8 DEF Next
<1>3. ASSUME wire.key = n, plain = "none" PROVE plain' = "none"
  <2>1. priv # wire.key
    BY <1>3 DEF Lost
  <2>2. CASE Decrypt
    BY <2>1, <2>2 DEF Decrypt
  <2>3. CASE Encrypt
    BY <2>3 DEF Encrypt
  <2>4. CASE ~Decrypt /\ ~Encrypt
    BY <1>3, <2>4 DEF Next, vars, Generate, OpenPublic, WritePublic, OpenPrivate,
       WritePrivate, Crash
  <2>5. QED
    BY <2>2, <2>3, <2>4
<1>4. QED
  BY <1>2, <1>3

\* A private key that was not saved, or was overwritten, never comes back, and
\* nothing that was encrypted for it is ever read again.
THEOREM LostKeysStayLost ==
  ASSUME MaxPairs \in Nat
  PROVE  Spec => LostForGood
<1>1. KeyInv /\ [Next]_vars =>
        \A n \in Pairs :
          Lost(n) => Lost(n)' /\ (wire.key = n /\ plain = "none" => plain' = "none")
  BY LostNext
<1>2. QED
  BY <1>1, KeyInit, KeyNext, PTL DEF Spec, LostForGood

=============================================================================
