-------------------------- MODULE ConverterProofs ---------------------------
(* Proofs about Converter.                                                 *)
EXTENDS Converter, TLAPS

\* Rates are read by the first request or not at all, and by none that finds
\* rubbish; without them, a price by way of dollars is infinite.
RatesInv ==
  /\ source = RateTable => rates = "missing" /\ route = "direct" /\ began = json
  /\ began # "empty" => rates = "missing"
  /\ route = "dollars" /\ rates = "missing" => price = "infinite"
  /\ source = Idle /\ outcome = "finite" => price = "finite"

ConverterInv == TypeOK /\ CleanBetweenSources /\ RatesInv

\* The counter, apart from everything that is a string.
LEMMA SourceFacts ==
  /\ Idle # RateTable /\ Idle \notin Sources /\ RateTable \in Sources /\ Idle # Last
  /\ \A s \in Sources : s # Last => s + 1 \in Sources /\ s + 1 # RateTable /\ s + 1 # Idle
BY DEF Sources, Idle, RateTable, Last

LEMMA ConverterInit == Init => ConverterInv
BY SourceFacts DEF Init, ConverterInv, TypeOK, CleanBetweenSources, RatesInv

\* What GoOn, the end of a source, makes of the counter and the result.
LEMMA GoOnFacts ==
  ASSUME TypeOK, source # Idle, GoOn, price' \in {"none", "finite", "infinite"}
  PROVE  /\ source' \in Sources \cup {Idle}
         /\ source' # RateTable
         /\ outcome' \in {"none", "minus one", "thrown", "finite", "infinite"}
         /\ source' = Idle /\ outcome' = "finite" => price' = "finite"
<1>1. source \in Sources
  BY DEF TypeOK
<1>2. CASE source # Last /\ source' = source + 1 /\ outcome' = outcome
  <2>1. source' \in Sources /\ source' # RateTable /\ source' # Idle
    BY <1>1, <1>2, SourceFacts
  <2>2. outcome' = outcome
    BY <1>2
  <2>3. QED
    BY <2>1, <2>2 DEF TypeOK
<1>3. CASE /\ source \in {RateTable, Last} /\ source' = Idle
           /\ outcome' = IF source = RateTable \/ price' = "none" THEN "minus one" ELSE price'
  BY <1>3, SourceFacts
<1>4. QED
  <2>1. \/ source # Last /\ source' = source + 1 /\ outcome' = outcome
        \/ /\ source \in {RateTable, Last} /\ source' = Idle
           /\ outcome' = IF source = RateTable \/ price' = "none"
                         THEN "minus one" ELSE price'
    BY Zenon DEF GoOn
  <2>2. QED
    BY <2>1, <1>2, <1>3

LEMMA AnsweredNext == ConverterInv /\ Answered => ConverterInv'
<1> SUFFICES ASSUME ConverterInv, Answered PROVE ConverterInv'
  OBVIOUS
<1> USE DEF ConverterInv
<1>1. /\ source # Idle /\ json' = "empty" /\ began' = began /\ GoOn
  BY DEF Answered
<1>2. /\ rates' \in {"known", "missing"}
      /\ price' \in {"none", "finite", "infinite"}
      /\ route' \in {"direct", "dollars"}
  <2>1. CASE source = RateTable
    BY <2>1 DEF Answered, TypeOK
  <2>2. CASE source # RateTable
    BY <2>2 DEF Answered, TypeOK, Priced
  <2>3. QED
    BY <2>1, <2>2
<1>3. began' # "empty" => rates' = "missing"
  <2>1. CASE source = RateTable
    BY <2>1 DEF Answered, RatesInv, TypeOK
  <2>2. CASE source # RateTable
    BY <2>2 DEF Answered, RatesInv
  <2>3. QED
    BY <2>1, <2>2
<1>4. route' = "dollars" /\ rates' = "missing" => price' = "infinite"
  <2>1. CASE source = RateTable
    BY <2>1 DEF Answered, RatesInv
  <2>2. CASE source # RateTable
    BY <2>2 DEF Answered, RatesInv, Priced
  <2>3. QED
    BY <2>1, <2>2
<1>5. /\ source' \in Sources \cup {Idle} /\ source' # RateTable
      /\ outcome' \in {"none", "minus one", "thrown", "finite", "infinite"}
      /\ source' = Idle /\ outcome' = "finite" => price' = "finite"
  BY <1>1, <1>2, GoOnFacts
<1>6. TypeOK'
  BY <1>1, <1>2, <1>5 DEF TypeOK
<1>7. RatesInv'
  BY <1>3, <1>4, <1>5 DEF RatesInv
<1>8. QED
  BY <1>1, <1>6, <1>7 DEF CleanBetweenSources

LEMMA RefusedNext == ConverterInv /\ Refused => ConverterInv'
<1> SUFFICES ASSUME ConverterInv, Refused PROVE ConverterInv'
  OBVIOUS
<1> USE DEF ConverterInv
<1>1. /\ source # Idle /\ json' = "empty" /\ GoOn
      /\ rates' = rates /\ price' = price /\ route' = route /\ began' = began
  BY DEF Refused
<1>2. /\ source' \in Sources \cup {Idle} /\ source' # RateTable
      /\ outcome' \in {"none", "minus one", "thrown", "finite", "infinite"}
      /\ source' = Idle /\ outcome' = "finite" => price' = "finite"
  <2>1. price' \in {"none", "finite", "infinite"}
    BY <1>1 DEF TypeOK
  <2>2. QED
    BY <1>1, <2>1, GoOnFacts
<1>3. TypeOK'
  BY <1>1, <1>2 DEF TypeOK
<1>4. RatesInv'
  BY <1>1, <1>2 DEF RatesInv
<1>5. QED
  BY <1>1, <1>3, <1>4 DEF CleanBetweenSources

LEMMA ConverterNext == ConverterInv /\ [Next]_vars => ConverterInv'
<1> SUFFICES ASSUME ConverterInv, [Next]_vars PROVE ConverterInv'
  OBVIOUS
<1> USE SourceFacts DEF ConverterInv, TypeOK, CleanBetweenSources, RatesInv
<1>1. CASE UNCHANGED vars
  BY <1>1 DEF vars
<1>2. CASE ConvertXmr
  BY <1>2 DEF ConvertXmr
<1>3. CASE Throws
  BY <1>3 DEF Throws
<1>4. QED
  BY <1>1, <1>2, <1>3, AnsweredNext, RefusedNext DEF Next

\* The conversion's variables stay in their types.
THEOREM ConverterTypes == Spec => []TypeOK
<1>1. ConverterInv => TypeOK
  BY DEF ConverterInv
<1>2. QED
  BY <1>1, ConverterInit, ConverterNext, PTL DEF Spec

\* Rubbish in the static string never gets past the first request.
THEOREM CleanAfterTheFirst == Spec => []CleanBetweenSources
<1>1. ConverterInv => CleanBetweenSources
  BY DEF ConverterInv
<1>2. QED
  BY <1>1, ConverterInit, ConverterNext, PTL DEF Spec

\* A conversion that began with rubbish gives no finite price by way of dollars.
THEOREM NoPriceFromRubbish == Spec => []RubbishSpoils
<1>1. ConverterInv => RubbishSpoils
  BY DEF ConverterInv, RatesInv, RubbishSpoils, TypeOK
<1>2. QED
  BY <1>1, ConverterInit, ConverterNext, PTL DEF Spec

=============================================================================
