--------------------------- MODULE LibraryProofs ----------------------------
(* Library explores its parts one at a time.  Here they run side by side, as *)
(* they do in the program, and what was proved of each part alone is shown   *)
(* to hold of all of them together.  A step of Library is one of Interleaved *)
(* in which the other parts stand still.                                     *)
EXTENDS Library, TLAPS

SoloStart == INSTANCE StartUpProofs
SoloKeys == INSTANCE KeyPairProofs
SoloPrices == INSTANCE ConverterProofs

\* A step of any part, whichever Library's initial state has chosen.
AnyPart ==
  \/ Start!Next /\ UNCHANGED <<part, keyVars, priceVars, boxVars, formVars>>
  \/ Keys!Next /\ UNCHANGED <<part, startVars, priceVars, boxVars, formVars>>
  \/ Prices!Next /\ UNCHANGED <<part, startVars, keyVars, boxVars, formVars>>
  \/ Box!Next /\ UNCHANGED <<part, startVars, keyVars, priceVars, formVars>>
  \/ Forms!Next /\ UNCHANGED <<part, startVars, keyVars, priceVars, boxVars>>

Interleaved == Init /\ [][AnyPart]_vars

-----------------------------------------------------------------------------
LEMMA StartAlone ==
  /\ Init => SoloStart!Init
  /\ [AnyPart]_vars => [SoloStart!Next]_SoloStart!vars
<1>1. (Start!Init => SoloStart!Init) /\ (Start!Next => SoloStart!Next)
  BY DEF Start!Init, SoloStart!Init, Start!Next, SoloStart!Next, Start!vars,
     SoloStart!vars, Start!UserEdits, SoloStart!UserEdits, Start!Launch,
     SoloStart!Launch, Start!Program, SoloStart!Program, Start!FileThere,
     SoloStart!FileThere, Start!RunText, SoloStart!RunText,
     Start!SecondLook, SoloStart!SecondLook, Start!OpenFile,
     SoloStart!OpenFile, Start!WriteFile, SoloStart!WriteFile,
     Start!LoadFile, SoloStart!LoadFile, Start!Check, SoloStart!Check,
     Start!Exit, SoloStart!Exit, Start!Kill, SoloStart!Kill, Start!Goto,
     SoloStart!Goto
<1>2. UNCHANGED startVars => UNCHANGED SoloStart!vars
  BY DEF startVars, SoloStart!vars
<1>3. [AnyPart]_vars => Start!Next \/ UNCHANGED startVars
  BY DEF AnyPart, vars, startVars
<1>4. QED
  BY <1>1, <1>2, <1>3 DEF Init

\* Whatever the other parts do, an empty or cut config.lua comes from a crash, a
\* full disk or the user.
THEOREM StartUpBreaksNoFile == Interleaved => []BrokenNeedsDamage
<1>1. SoloStart!BrokenNeedsDamage => BrokenNeedsDamage
  BY DEF BrokenNeedsDamage, Start!BrokenNeedsDamage,
     SoloStart!BrokenNeedsDamage
<1>2. SoloStart!Spec => []SoloStart!BrokenNeedsDamage
  BY SoloStart!BrokenFileNeedsDamage
<1>3. QED
  BY <1>1, <1>2, StartAlone, PTL DEF Interleaved, SoloStart!Spec

\* Whatever the other parts do, no program gets past such a file until the user
\* acts.
THEOREM StartUpStaysWedged == Interleaved => WedgedForGood
<1>1. SoloStart!WedgedForGood => WedgedForGood
  BY PTL DEF WedgedForGood, Start!WedgedForGood, SoloStart!WedgedForGood,
     Start!Wedged, SoloStart!Wedged, Start!vars, SoloStart!vars
<1>2. SoloStart!Spec => SoloStart!WedgedForGood
  BY SoloStart!BrokenFileIsForGood
<1>3. QED
  BY <1>1, <1>2, StartAlone, PTL DEF Interleaved, SoloStart!Spec

\* Whatever the other parts do, a program is left without settings only over a
\* file that is damaged or that another program is writing at that moment.
THEOREM StartUpRefusesOverBroken == Interleaved => RefusedOnlyOverBroken
<1>1. SoloStart!RefusedOnlyOverBroken => RefusedOnlyOverBroken
  BY PTL DEF RefusedOnlyOverBroken, Start!RefusedOnlyOverBroken,
     SoloStart!RefusedOnlyOverBroken, Start!vars, SoloStart!vars
<1>2. SoloStart!Spec => SoloStart!RefusedOnlyOverBroken
  BY SoloStart!OnlyBrokenFilesRefuse
<1>3. QED
  BY <1>1, <1>2, StartAlone, PTL DEF Interleaved, SoloStart!Spec

-----------------------------------------------------------------------------
LEMMA KeysAlone ==
  /\ Init => SoloKeys!Init
  /\ [AnyPart]_vars => [SoloKeys!Next]_SoloKeys!vars
<1>1. (Keys!Init => SoloKeys!Init) /\ (Keys!Next => SoloKeys!Next)
  BY DEF Keys!Init, SoloKeys!Init, Keys!Next, SoloKeys!Next, Keys!vars,
     SoloKeys!vars, Keys!NoKey, SoloKeys!NoKey, Keys!NoWire,
     SoloKeys!NoWire, Keys!Pairs, SoloKeys!Pairs, Keys!Forms,
     SoloKeys!Forms, Keys!Generate, SoloKeys!Generate, Keys!OpenPublic,
     SoloKeys!OpenPublic, Keys!WritePublic, SoloKeys!WritePublic,
     Keys!OpenPrivate, SoloKeys!OpenPrivate, Keys!WritePrivate,
     SoloKeys!WritePrivate, Keys!Crash, SoloKeys!Crash, Keys!Encrypt,
     SoloKeys!Encrypt, Keys!Decrypt, SoloKeys!Decrypt
<1>2. UNCHANGED keyVars => UNCHANGED SoloKeys!vars
  BY DEF keyVars, SoloKeys!vars
<1>3. [AnyPart]_vars => Keys!Next \/ UNCHANGED keyVars
  BY DEF AnyPart, vars, keyVars
<1>4. QED
  BY <1>1, <1>2, <1>3 DEF Init

\* Whatever the other parts do, a generate_key_pair that returned true left no key
\* of an earlier pair in either file.
THEOREM SavedKeysAreNotOlder == Interleaved => []SuccessLeavesNoOlderKey
<1>1. SoloKeys!SuccessLeavesNoOlderKey => SuccessLeavesNoOlderKey
  BY DEF SuccessLeavesNoOlderKey, Keys!SuccessLeavesNoOlderKey,
     SoloKeys!SuccessLeavesNoOlderKey, Keys!NoKey, SoloKeys!NoKey
<1>2. SoloKeys!Spec => []SoloKeys!SuccessLeavesNoOlderKey
  BY SoloKeys!NoOlderKeyAfterSuccess, MaxPairsAssumption
<1>3. QED
  BY <1>1, <1>2, KeysAlone, PTL DEF Interleaved, SoloKeys!Spec

\* Whatever the other parts do, a lost private key never comes back.
THEOREM LostKeysAreLost == Interleaved => LostForGood
<1>1. SoloKeys!LostForGood => LostForGood
  BY PTL DEF LostForGood, Keys!LostForGood, SoloKeys!LostForGood, Keys!Lost,
     SoloKeys!Lost, Keys!Pairs, SoloKeys!Pairs, Keys!vars, SoloKeys!vars
<1>2. SoloKeys!Spec => SoloKeys!LostForGood
  BY SoloKeys!LostKeysStayLost, MaxPairsAssumption
<1>3. QED
  BY <1>1, <1>2, KeysAlone, PTL DEF Interleaved, SoloKeys!Spec

-----------------------------------------------------------------------------
LEMMA PricesAlone ==
  /\ Init => SoloPrices!Init
  /\ [AnyPart]_vars => [SoloPrices!Next]_SoloPrices!vars
<1>1. (Prices!Init => SoloPrices!Init) /\ (Prices!Next => SoloPrices!Next)
  BY DEF Prices!Init, SoloPrices!Init, Prices!Next, SoloPrices!Next,
     Prices!vars, SoloPrices!vars, Prices!Idle, SoloPrices!Idle,
     Prices!RateTable, SoloPrices!RateTable, Prices!Direct,
     SoloPrices!Direct, Prices!Cryptowatch, SoloPrices!Cryptowatch,
     Prices!Dollars, SoloPrices!Dollars, Prices!Last, SoloPrices!Last,
     Prices!Sources, SoloPrices!Sources, Prices!ConvertXmr,
     SoloPrices!ConvertXmr, Prices!GoOn, SoloPrices!GoOn, Prices!Refused,
     SoloPrices!Refused, Prices!Priced, SoloPrices!Priced,
     Prices!Answered, SoloPrices!Answered, Prices!Throws,
     SoloPrices!Throws
<1>2. UNCHANGED priceVars => UNCHANGED SoloPrices!vars
  BY DEF priceVars, SoloPrices!vars
<1>3. [AnyPart]_vars => Prices!Next \/ UNCHANGED priceVars
  BY DEF AnyPart, vars, priceVars
<1>4. QED
  BY <1>1, <1>2, <1>3 DEF Init

\* Whatever the other parts do, the rest of an earlier answer never gets past
\* the first request of a conversion.
THEOREM AnswersStayApart == Interleaved => []CleanBetweenSources
<1>1. SoloPrices!CleanBetweenSources => CleanBetweenSources
  BY DEF CleanBetweenSources, Prices!CleanBetweenSources,
     SoloPrices!CleanBetweenSources, Prices!Sources, SoloPrices!Sources,
     Prices!RateTable, SoloPrices!RateTable
<1>2. SoloPrices!Spec => []SoloPrices!CleanBetweenSources
  BY SoloPrices!CleanAfterTheFirst
<1>3. QED
  BY <1>1, <1>2, PricesAlone, PTL DEF Interleaved, SoloPrices!Spec

\* Whatever the other parts do, a conversion that began with such a rest gives
\* no finite price by way of dollars.
THEOREM RubbishGivesNoPrice == Interleaved => []RubbishSpoils
<1>1. SoloPrices!RubbishSpoils => RubbishSpoils
  BY DEF RubbishSpoils, Prices!RubbishSpoils, SoloPrices!RubbishSpoils,
     Prices!Idle, SoloPrices!Idle
<1>2. SoloPrices!Spec => []SoloPrices!RubbishSpoils
  BY SoloPrices!NoPriceFromRubbish
<1>3. QED
  BY <1>1, <1>2, PricesAlone, PTL DEF Interleaved, SoloPrices!Spec

-----------------------------------------------------------------------------
(* The message box, for any set of deposits.                               *)

\* Without a race the two threads are never both inside the box, and no restore
\* is under way in a box that is shown.
Apart ==
  /\ ~raced /\ post # "idle" => draw = "idle"
  /\ ~raced /\ box => draw = "idle"

\* What an undisturbed posting has done by each of its steps.
PostedSoFar ==
  /\ post \in {"text0", "text1", "label1"} => posting \in Deposits
  /\ ~raced /\ post \in {"text1", "label1"} => text0 = posting
  /\ ~raced /\ post = "label1" => text1 = posting
  /\ ~raced /\ post = "done" => ~label1
  /\ ~raced /\ post \in {"button", "box"} =>
       \/ text0 = Box!SyncDone /\ ~label1
       \/ text0 \in Deposits /\ text1 = text0 /\ label1
  /\ ~raced /\ post = "box" => button

\* The second label is for deposits, and deposits come after the first sync.
NothingBeforeSync == ~synced => post = "idle" /\ ~label1

BoxInv == Box!TypeOK /\ Apart /\ PostedSoFar /\ NothingBeforeSync /\ Box!WholeUnlessRaced

LEMMA BoxInit == Box!Init => BoxInv
BY DEF Box!Init, BoxInv, Box!TypeOK, Apart, PostedSoFar, NothingBeforeSync,
       Box!WholeUnlessRaced

LEMMA SyncThreadNext == BoxInv /\ Box!SyncThread => BoxInv'
<1> SUFFICES ASSUME BoxInv, Box!SyncThread PROVE BoxInv'
  OBVIOUS
<1> USE DEF BoxInv, Box!TypeOK, Apart, PostedSoFar, NothingBeforeSync,
            Box!WholeUnlessRaced, Box!Then
<1>1. ASSUME NEW d \in Deposits, Box!Receive(d) PROVE BoxInv'
  BY <1>1 DEF Box!Receive
<1>2. CASE Box!PostText0
  BY <1>2 DEF Box!PostText0
<1>3. CASE Box!PostDone
  BY <1>3 DEF Box!PostDone
<1>4. CASE Box!SyncedAgain
  BY <1>4 DEF Box!SyncedAgain
<1>5. CASE Box!PressCloseInSync
  BY <1>5 DEF Box!PressCloseInSync
<1>6. CASE Box!PostText1
  BY <1>6 DEF Box!PostText1
<1>7. CASE Box!ShowLabel1
  BY <1>7 DEF Box!ShowLabel1
<1>8. CASE Box!ShowButton
  BY <1>8 DEF Box!ShowButton
<1>9. CASE Box!ShowBox
  BY <1>9 DEF Box!ShowBox, Box!Whole
<1>10. QED
  BY <1>1, <1>2, <1>3, <1>4, <1>5, <1>6, <1>7, <1>8, <1>9 DEF Box!SyncThread

LEMMA MainThreadNext == BoxInv /\ Box!MainThread => BoxInv'
<1> SUFFICES ASSUME BoxInv, Box!MainThread PROVE BoxInv'
  OBVIOUS
<1> USE DEF BoxInv, Box!TypeOK, Apart, PostedSoFar, NothingBeforeSync,
            Box!WholeUnlessRaced
<1>1. CASE Box!OnSyncProgress
  BY <1>1 DEF Box!OnSyncProgress, Box!Whole
<1>2. CASE Box!PressClose
  BY <1>2 DEF Box!PressClose
<1>3. CASE Box!OnDraw
  BY <1>3 DEF Box!OnDraw, Box!Whole
<1>4. CASE Box!RestoreText0
  BY <1>4 DEF Box!RestoreText0
<1>5. CASE Box!RestoreText1
  BY <1>5 DEF Box!RestoreText1
<1>6. CASE Box!HideButton
  BY <1>6 DEF Box!HideButton
<1>7. CASE Box!HideLabel1
  BY <1>7 DEF Box!HideLabel1
<1>8. QED
  BY <1>1, <1>2, <1>3, <1>4, <1>5, <1>6, <1>7 DEF Box!MainThread

LEMMA BoxStutters == BoxInv /\ UNCHANGED Box!vars => BoxInv'
BY DEF BoxInv, Box!TypeOK, Apart, PostedSoFar, NothingBeforeSync, Box!WholeUnlessRaced,
       Box!Whole, Box!vars

\* What the steps of the message box preserve holds, whatever the others do.
LEMMA BoxNext == BoxInv /\ [AnyPart]_vars => BoxInv'
<1>1. [AnyPart]_vars => Box!Next \/ UNCHANGED boxVars
  BY DEF AnyPart, vars, boxVars
<1>2. UNCHANGED boxVars => UNCHANGED Box!vars
  BY DEF boxVars, Box!vars
<1>3. QED
  BY <1>1, <1>2, SyncThreadNext, MainThreadNext, BoxStutters DEF Box!Next

\* Whatever the other parts do, a shown message box is whole unless a restore
\* met its posting.
THEOREM ShownBoxIsWhole == Interleaved => []WholeUnlessRaced
<1>1. Init => BoxInv
  BY BoxInit DEF Init
<1>2. BoxInv => WholeUnlessRaced
  BY DEF BoxInv, WholeUnlessRaced
<1>3. QED
  BY <1>1, <1>2, BoxNext, PTL DEF Interleaved

-----------------------------------------------------------------------------
(* Registration, for forms with names of any length.                       *)

\* find_first_of(username) on the name itself is its first position and
\* find_last_of its last, so that the checks look at the right characters.
LEMMA EndsOfName ==
  ASSUME NEW name \in Seq(Forms!Chars), Len(name) > 0
  PROVE  /\ Forms!FirstChar(name) = Head(name)
         /\ Forms!LastChar(name) = name[Len(name)]
<1>1. Forms!OwnChars(name) = 1 .. Len(name)
  BY DEF Forms!OwnChars
<1>2. Len(name) \in Nat /\ 1 \in 1 .. Len(name) /\ Len(name) \in 1 .. Len(name)
  OBVIOUS
<1> DEFINE own == Forms!OwnChars(name)
<1>3. (CHOOSE i \in own : \A j \in own : i <= j) = 1
  BY <1>1, <1>2
<1>4. (CHOOSE i \in own : \A j \in own : i >= j) = Len(name)
  BY <1>1, <1>2
<1>5. Forms!FirstChar(name) = name[1] /\ Forms!LastChar(name) = name[Len(name)]
  BY <1>3, <1>4, Zenon DEF Forms!FirstChar, Forms!LastChar
<1>6. QED
  BY <1>5

LEMMA CharsAllowedAreListed ==
  ASSUME NEW name \in Seq(Forms!Chars)
  PROVE  Forms!CharsAllowed(name) <=>
           \A c \in Forms!Chars \ {"letter", "digit", "mark"} :
             \A i \in 1 .. Len(name) : name[i] # c
<1>1. \A i \in 1 .. Len(name) : name[i] \in Forms!Chars
  OBVIOUS
<1>2. QED
  BY <1>1 DEF Forms!CharsAllowed, Forms!Chars, Forms!Alnum

\* The loop and the searches of validate_username decide what validator.hpp lists.
LEMMA UsernameByTheRules ==
  ASSUME NEW f \in Forms!Forms
  PROVE  Forms!ValidateUsername(f.name, f.reserved) <=> Forms!UsernameRules(f)
<1>1. f.name \in Seq(Forms!Chars) /\ f.reserved \in BOOLEAN
  BY DEF Forms!Forms
<1>2. Len(f.name) \in Nat
  BY <1>1
<1>3. Len(f.name) \in MinLength .. MaxLength
        <=> MinLength <= Len(f.name) /\ Len(f.name) <= MaxLength
  BY <1>2, LengthAssumption
<1>4. Len(f.name) >= MinLength => Len(f.name) > 0
  BY <1>2, LengthAssumption
<1>5. Len(f.name) >= MinLength <=> MinLength <= Len(f.name)
  BY <1>2, LengthAssumption
<1>6. Len(f.name) > 0 => /\ Forms!FirstChar(f.name) = Head(f.name)
                         /\ Forms!LastChar(f.name) = f.name[Len(f.name)]
  BY <1>1, EndsOfName
<1>7. Forms!CharsAllowed(f.name) <=>
        \A c \in Forms!Chars \ {"letter", "digit", "mark"} :
          \A i \in 1 .. Len(f.name) : f.name[i] # c
  BY <1>1, CharsAllowedAreListed
<1>8. QED
  BY <1>1, <1>3, <1>4, <1>5, <1>6, <1>7, Zenon
     DEF Forms!ValidateUsername, Forms!UsernameRules, Forms!Alnum

LEMMA PasswordByTheRules ==
  ASSUME NEW f \in Forms!Forms
  PROVE  Forms!ValidatePassword(f.password, f.eight) <=> Forms!PasswordRules(f)
BY DEF Forms!Forms, Forms!ValidatePassword, Forms!PasswordRules

FormsInv == Forms!TypeOK /\ Forms!ByTheRules

LEMMA FormsInit == Init => FormsInv
<1>1. Forms!Blank \in Forms!Forms
  BY DEF Forms!Blank, Forms!Forms
<1>2. QED
  BY <1>1 DEF Init, Forms!Init, FormsInv, Forms!TypeOK, Forms!ByTheRules

LEMMA FormsNext == FormsInv /\ [AnyPart]_vars => FormsInv'
<1> SUFFICES ASSUME FormsInv, [AnyPart]_vars PROVE FormsInv'
  OBVIOUS
<1>1. CASE Forms!FillIn
  <2>1. form' \in Forms!Forms /\ answer' = "asked"
    BY <1>1, TypedAssumption DEF Forms!FillIn
  <2>2. QED
    BY <2>1 DEF FormsInv, Forms!TypeOK, Forms!ByTheRules
<1>2. CASE Forms!RegisterUser
  <2>1. form' = form /\ form \in Forms!Forms
    BY <1>2 DEF Forms!RegisterUser, FormsInv, Forms!TypeOK
  <2>2. Forms!ValidateUsername(form.name, form.reserved) <=> Forms!UsernameRules(form)
    BY <2>1, UsernameByTheRules
  <2>3. Forms!ValidatePassword(form.password, form.eight) <=> Forms!PasswordRules(form)
    BY <2>1, PasswordByTheRules
  <2>4. QED
    BY <1>2, <2>1, <2>2, <2>3 DEF Forms!RegisterUser, FormsInv, Forms!TypeOK,
       Forms!ByTheRules
<1>3. CASE UNCHANGED formVars
  BY <1>3 DEF formVars, FormsInv, Forms!TypeOK, Forms!ByTheRules,
     Forms!UsernameRules, Forms!PasswordRules
<1>4. Forms!Next \/ UNCHANGED formVars
  BY DEF AnyPart, vars, formVars
<1>5. QED
  BY <1>1, <1>2, <1>3, <1>4 DEF Forms!Next

\* Whatever the other parts do, registration decides by the rules of
\* validator.hpp, for names of any length.
THEOREM RegistrationKeepsTheRules == Interleaved => []ByTheRules
<1>1. FormsInv => ByTheRules
  BY DEF FormsInv, ByTheRules
<1>2. QED
  BY <1>1, FormsInit, FormsNext, PTL DEF Interleaved

-----------------------------------------------------------------------------
\* Every part's variables stay in their types, side by side as in the runs.
THEOREM PartsAreTyped == Interleaved => []TypeOK
<1>1. Interleaved => []Start!TypeOK
  <2>1. SoloStart!Spec => []SoloStart!TypeOK
    BY SoloStart!StartUpTypes
  <2>2. SoloStart!TypeOK => Start!TypeOK
    BY DEF SoloStart!TypeOK, Start!TypeOK, SoloStart!Phases, Start!Phases
  <2>3. QED
    BY <2>1, <2>2, StartAlone, PTL DEF Interleaved, SoloStart!Spec
<1>2. Interleaved => []Keys!TypeOK
  <2>1. SoloKeys!Spec => []SoloKeys!TypeOK
    BY SoloKeys!KeyPairTypes, MaxPairsAssumption
  <2>2. SoloKeys!TypeOK => Keys!TypeOK
    BY DEF SoloKeys!TypeOK, Keys!TypeOK, SoloKeys!Pairs, Keys!Pairs, SoloKeys!NoKey,
           Keys!NoKey,
       SoloKeys!Forms, Keys!Forms
  <2>3. QED
    BY <2>1, <2>2, KeysAlone, PTL DEF Interleaved, SoloKeys!Spec
<1>3. Interleaved => []Prices!TypeOK
  <2>1. SoloPrices!Spec => []SoloPrices!TypeOK
    BY SoloPrices!ConverterTypes
  <2>2. SoloPrices!TypeOK => Prices!TypeOK
    BY DEF SoloPrices!TypeOK, Prices!TypeOK, SoloPrices!Sources, Prices!Sources,
       SoloPrices!Idle, Prices!Idle
  <2>3. QED
    BY <2>1, <2>2, PricesAlone, PTL DEF Interleaved, SoloPrices!Spec
<1>4. Interleaved => []Box!TypeOK
  <2>1. Init => BoxInv
    BY BoxInit DEF Init
  <2>2. BoxInv => Box!TypeOK
    BY DEF BoxInv
  <2>3. QED
    BY <2>1, <2>2, BoxNext, PTL DEF Interleaved
<1>5. Interleaved => []Forms!TypeOK
  <2>1. FormsInv => Forms!TypeOK
    BY DEF FormsInv
  <2>2. QED
    BY <2>1, FormsInit, FormsNext, PTL DEF Interleaved
<1>6. Interleaved => [](part \in Parts)
  <2>1. Init => part \in Parts
    BY DEF Init
  <2>2. part \in Parts /\ [AnyPart]_vars => (part \in Parts)'
    BY DEF AnyPart, vars
  <2>3. QED
    BY <2>1, <2>2, PTL DEF Interleaved
<1>7. QED
  BY <1>1, <1>2, <1>3, <1>4, <1>5, <1>6, PTL DEF TypeOK

=============================================================================
