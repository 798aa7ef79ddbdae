------------------------------ MODULE Library -------------------------------
(***************************************************************************)
(* The parts of neroshop that share no state with each other, nor with the *)
(* daemon and the wallet: start-up, key pairs, price conversion, the       *)
(* wallet's message box, registration.  What one does is the same whatever *)
(* the others do in between, so a behaviour is about one of them, and the  *)
(* rest keep their initial state: the part that TLC explores is chosen in  *)
(* the initial state.  LibraryProofs proves the same properties of the     *)
(* parts side by side.                                                     *)
(***************************************************************************)
EXTENDS Naturals, Sequences

CONSTANTS Programs, MaxPairs, Deposits, MinLength, MaxLength, Typed

ASSUME MaxPairsAssumption == MaxPairs \in Nat
ASSUME LengthAssumption == MinLength \in Nat \ {0} /\ MaxLength \in Nat

VARIABLES
  part,
  cfg, lua, launch, hurt,
  pub, priv, pair, saving, pkey, made, wire, plain,
  json, source, rates, price, route, outcome, began,
  text0, text1, label1, button, box, synced, posting, post, draw, raced,
  form, answer

Start == INSTANCE StartUp
Keys == INSTANCE KeyPair
Prices == INSTANCE Converter
Box == INSTANCE MessageBox
Forms == INSTANCE Validator

ASSUME TypedAssumption == Typed \subseteq Forms!Forms

startVars == <<cfg, lua, launch, hurt>>
keyVars == <<pub, priv, pair, saving, pkey, made, wire, plain>>
priceVars == <<json, source, rates, price, route, outcome, began>>
boxVars == <<text0, text1, label1, button, box, synced, posting, post, draw, raced>>
formVars == <<form, answer>>
vars == <<part, startVars, keyVars, priceVars, boxVars, formVars>>

Parts == {"start-up", "keys", "prices", "box", "forms"}

TypeOK ==
  /\ part \in Parts
  /\ Start!TypeOK /\ Keys!TypeOK /\ Prices!TypeOK /\ Box!TypeOK /\ Forms!TypeOK

Init ==
  /\ part \in Parts
  /\ Start!Init
  /\ Keys!Init
  /\ Prices!Init
  /\ Box!Init
  /\ Forms!Init

Next ==
  \/ /\ part = "start-up"
     /\ Start!Next
     /\ UNCHANGED <<part, keyVars, priceVars, boxVars, formVars>>
  \/ /\ part = "keys"
     /\ Keys!Next
     /\ UNCHANGED <<part, startVars, priceVars, boxVars, formVars>>
  \/ /\ part = "prices"
     /\ Prices!Next
     /\ UNCHANGED <<part, startVars, keyVars, boxVars, formVars>>
  \/ /\ part = "box"
     /\ Box!Next
     /\ UNCHANGED <<part, startVars, keyVars, priceVars, formVars>>
  \/ /\ part = "forms"
     /\ Forms!Next
     /\ UNCHANGED <<part, startVars, keyVars, priceVars, boxVars>>

Spec == Init /\ [][Next]_vars

-----------------------------------------------------------------------------
(* The properties of the parts; each is stated and explained in its module. *)

\* After an empty or cut config.lua no program starts until the user acts.
WedgedForGood == Start!WedgedForGood

\* Only a crash, a full disk or the user leaves such a file.
BrokenNeedsDamage == Start!BrokenNeedsDamage

\* A program is left without settings only over a damaged or half-written file.
RefusedOnlyOverBroken == Start!RefusedOnlyOverBroken

\* A generate_key_pair that returned true left no key of an earlier pair.
SuccessLeavesNoOlderKey == Keys!SuccessLeavesNoOlderKey

\* A private key that was not saved, or was overwritten, never comes back.
LostForGood == Keys!LostForGood

\* One source's answer is never read as another's within a conversion.
CleanBetweenSources == Prices!CleanBetweenSources

\* A conversion that began with an earlier answer's text gives no price by way
\* of dollars.
RubbishSpoils == Prices!RubbishSpoils

\* A shown message box is whole unless a restore raced with its posting.
WholeUnlessRaced == Box!WholeUnlessRaced

\* Registration welcomes and refuses by the rules of validator.hpp.
ByTheRules == Forms!ByTheRules

=============================================================================
