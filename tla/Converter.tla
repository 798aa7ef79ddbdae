----------------------------- MODULE Converter ------------------------------
(***************************************************************************)
(* Converter::convert_xmr: seven requests in a row, whose answers all go   *)
(* through one static string.  An answer that is not the expected JSON     *)
(* throws; nothing in the repository catches it inside convert_xmr, and a  *)
(* caller that does, and calls again, finds the string as it was left.     *)
(***************************************************************************)
EXTENDS Naturals

VARIABLES
  json,     \* json_string: "empty", nothing but white space, or "rubbish", the text
            \* of an earlier answer
  source,   \* the request convert_xmr is at, or Idle
  rates,    \* the currency in currencies_in_usd: "known" or "missing"
  price,    \* prices: "none", all "finite", or one is "infinite"
  route,    \* how they came: all "direct", or one by way of "dollars"
  outcome,  \* of the last call: "none" yet, "minus one", "thrown", or what price was
  began     \* history: what was in the string when the call began

vars == <<json, source, rates, price, route, outcome, began>>

Idle == 0
RateTable == 1        \* coinmarketcap: every currency in dollars
Direct == {2, 3}      \* coingecko, coinmarketcap: in the currency asked for
Cryptowatch == 4      \* a row for each exchange, in dollars
Dollars == {4, 6, 7}  \* cryptowatch, cryptorank, coincodex; cointelegraph, the
                      \* fifth, has the currency or else dollars
Last == 7
Sources == 1 .. 7

TypeOK ==
  /\ json \in {"empty", "rubbish"}
  /\ source \in Sources \cup {Idle}
  /\ rates \in {"known", "missing"}
  /\ price \in {"none", "finite", "infinite"}
  /\ route \in {"direct", "dollars"}
  /\ outcome \in {"none", "minus one", "thrown", "finite", "infinite"}
  /\ began \in {"empty", "rubbish"}

Init ==
  /\ json = "empty"
  /\ source = Idle
  /\ rates = "missing"
  /\ price = "none"
  /\ route = "direct"
  /\ outcome = "none"
  /\ began = "empty"

-----------------------------------------------------------------------------
ConvertXmr ==
  /\ source = Idle
  /\ source' = RateTable
  /\ rates' = "missing"
  /\ price' = "none"
  /\ route' = "direct"
  /\ began' = json
  /\ UNCHANGED <<json, outcome>>

\* Mistake: one source too many.
GoOnTooFar ==
  \/ source' = source + 1 /\ outcome' = outcome
  \/ /\ source \in {RateTable, Last}
     /\ source' = Idle
     /\ outcome' = IF source = RateTable \/ price' = "none" THEN "minus one" ELSE price'

\* After the last source, and after the first when the currency is not a
\* supported one or the quantity is negative, the call returns.
GoOn ==
  \/ /\ source # Last
     /\ source' = source + 1
     /\ outcome' = outcome
  \/ /\ source \in {RateTable, Last}
     /\ source' = Idle
     /\ outcome' = IF source = RateTable \/ price' = "none" THEN "minus one" ELSE price'

\* Mistake: the string is cleared only when a request was answered.
RefusedKeeps ==
  /\ source # Idle
  /\ json' \in {json, "rubbish"}
  /\ UNCHANGED <<rates, price, route, began>>
  /\ GoOn

\* request returns false, perhaps after a part of the answer; the string is
\* cleared and the source skipped.
Refused ==
  /\ source # Idle
  /\ json' = "empty"
  /\ UNCHANGED <<rates, price, route, began>>
  /\ GoOn

\* A price in dollars is divided by the currency's, which operator[] makes 0
\* when the table does not have it.
Priced(way) ==
  /\ price' = IF way = "dollars" /\ rates = "missing" THEN "infinite"
              ELSE IF price = "none" THEN "finite" ELSE price
  /\ route' = IF way = "dollars" THEN way ELSE route

\* Mistake: the answer is parsed alone, whatever the string began with.
AnsweredAfresh ==
  /\ source # Idle
  /\ json' = "empty"
  /\ IF source = RateTable
     THEN rates' \in {"known", "missing"} /\ UNCHANGED <<price, route>>
     ELSE /\ rates' = rates
          /\ \E way \in {"direct", "dollars"} :
               /\ source \in Direct => way = "direct"
               /\ source \in Dollars => way = "dollars"
               /\ Priced(way)
  /\ began' = began
  /\ GoOn

\* The string was empty and the answer is the expected JSON.  The table may
\* lack the currency, and the rows of cryptowatch may be none.  Rubbish passes
\* for a table without any currency, when it is JSON and the answer is empty.
Answered ==
  /\ source # Idle
  /\ json = "empty" \/ source = RateTable
  /\ json' = "empty"
  /\ IF source = RateTable
     THEN /\ rates' \in {"known", "missing"}
          /\ rates' = "known" => json = "empty"
          /\ UNCHANGED <<price, route>>
     ELSE /\ rates' = rates
          /\ \/ source = Cryptowatch /\ UNCHANGED <<price, route>>
             \/ \E way \in {"direct", "dollars"} :
                  /\ source \in Direct => way = "direct"
                  /\ source \in Dollars => way = "dollars"
                  /\ Priced(way)
  /\ began' = began
  /\ GoOn

\* An answer that does not parse or lacks a field, and almost any answer that
\* was appended to rubbish: the exception leaves the string as it is.
Throws ==
  /\ source # Idle
  /\ json' \in IF json = "empty" THEN {"empty", "rubbish"} ELSE {json}
  /\ outcome' = "thrown"
  /\ source' = Idle
  /\ UNCHANGED <<rates, price, route, began>>

Next == ConvertXmr \/ Refused \/ Answered \/ Throws

Spec == Init /\ [][Next]_vars

-----------------------------------------------------------------------------
\* Rubbish meets the first request and no other: each later one starts from an
\* empty string, so that one source's answer is never read as another's.
CleanBetweenSources ==
  source \in Sources \ {RateTable} => json = "empty"

\* A call that began with rubbish ends with an exception, unless its request
\* for the rates brought nothing: then it has none, and whatever price it
\* reaches by way of dollars is infinite.  One bad answer takes the conversions
\* after it down with it.
RubbishSpoils ==
  began # "empty" /\ source = Idle /\ outcome = "finite" => route = "direct"

=============================================================================
