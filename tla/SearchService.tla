---------------------------- MODULE SearchService ----------------------------
(***************************************************************************)
(* What neromon promises to its command-line clients, without sockets,     *)
(* threads or processes: a client asks at most one thing at a time; an     *)
(* answer is of the kind that was asked for, is given at most once, and    *)
(* the answer to a query is what the store held at one moment between the  *)
(* question and the answer.  A question or its answer may be lost, and     *)
(* then it is never answered; what is stored stays stored.                 *)
(***************************************************************************)

CONSTANTS
  Clients,
  Nothing,   \* nothing asked, or no answer yet
  Lost       \* there will be no answer

Kinds == {"connect", "query", "add", "other"}

VARIABLES
  asked,     \* asked[c]: the kind of request client c waits on
  answer,    \* answer[c]: the answer on its way to c
  stored     \* the documents of the input file are in the store

serviceVars == <<asked, answer, stored>>

\* The answer to a request, given the store.
AnswerTo(kind, full) ==
  CASE kind = "connect" -> "accept"
    [] kind = "query" -> IF full THEN "hits" ELSE "no hits"
    [] OTHER -> "echo"

ServiceInit ==
  /\ asked = [c \in Clients |-> Nothing]
  /\ answer = [c \in Clients |-> Nothing]
  /\ stored = FALSE

Ask(c) ==
  /\ asked[c] = Nothing
  /\ \E k \in Kinds : asked' = [asked EXCEPT ![c] = k]
  /\ UNCHANGED <<answer, stored>>

Answer(c) ==
  /\ asked[c] \in {"connect", "query", "add"}
  /\ answer[c] = Nothing
  /\ answer' = [answer EXCEPT ![c] = AnswerTo(asked[c], stored)]
  /\ UNCHANGED <<asked, stored>>

\* Questions on their way to an answer, or answers on their way back, are lost.
Lose ==
  \E C \in SUBSET {c \in Clients : asked[c] # Nothing} :
    /\ answer' = [c \in Clients |-> IF c \in C THEN Lost ELSE answer[c]]
    /\ UNCHANGED <<asked, stored>>

\* The client takes its answer, or gives up: either way nothing is pending.
Take(c) ==
  /\ asked[c] # Nothing
  /\ asked' = [asked EXCEPT ![c] = Nothing]
  /\ answer' = [answer EXCEPT ![c] = Nothing]
  /\ UNCHANGED stored

Store ==
  /\ stored' = TRUE
  /\ UNCHANGED <<asked, answer>>

ServiceNext ==
  \/ \E c \in Clients : Ask(c) \/ Answer(c) \/ Take(c)
  \/ Lose
  \/ Store

ServiceSpec == ServiceInit /\ [][ServiceNext]_serviceVars

=============================================================================
