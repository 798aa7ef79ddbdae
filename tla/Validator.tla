----------------------------- MODULE Validator ------------------------------
(***************************************************************************)
(* Validator::register_user and the checks it makes of a form.  A user     *)
(* name is a sequence of kinds of characters, a password the kinds in it   *)
(* and whether it is long enough; hashing is bcrypt's and OpenSSL's, and   *)
(* may fail.  save_user stores nothing at this commit, so that no answer   *)
(* depends on an earlier one.                                              *)
(***************************************************************************)
EXTENDS Naturals, Sequences

CONSTANTS
  MinLength,   \* 2 in the code
  MaxLength,   \* 30 in the code
  Typed        \* the forms that are filled in

\* '-', '_' and '.' are marks; other symbols are invalid.
Chars == {"letter", "digit", "mark", "space", "symbol"}
PasswordKinds == {"upper", "lower", "digit", "special"}

\* reserved: the name is "guest", in whatever case.
Forms ==
  [name : Seq(Chars), reserved : BOOLEAN,
   password : SUBSET PasswordKinds, eight : BOOLEAN, confirmed : BOOLEAN,
   email : {"none", "valid", "invalid"}]

VARIABLES form, answer

vars == <<form, answer>>

TypeOK == form \in Forms /\ answer \in {"none", "asked", "welcome", "refused", "failed"}

Blank ==
  [name |-> <<>>, reserved |-> FALSE, password |-> {}, eight |-> FALSE,
   confirmed |-> TRUE, email |-> "none"]

Init == form = Blank /\ answer = "none"

-----------------------------------------------------------------------------
Alnum == {"letter", "digit"}

\* The loop over the characters, up to where it returns.
CharsAllowed(name) ==
  \A i \in 1 .. Len(name) : name[i] # "space" /\ (name[i] \in Alnum \/ name[i] = "mark")

\* find_first_of(username), of the name in itself, is the first position at
\* which it has a character of its own: the least i of all.  find_last_of is
\* the greatest.
OwnChars(name) == {i \in 1 .. Len(name) : \E j \in 1 .. Len(name) : name[j] = name[i]}
FirstChar(name) == name[CHOOSE i \in OwnChars(name) : \A j \in OwnChars(name) : i <= j]
LastChar(name) == name[CHOOSE i \in OwnChars(name) : \A j \in OwnChars(name) : i >= j]

\* Mistake: a name may begin with whatever it may end with.
ValidateUsernameEnds(name, reserved) ==
  /\ Len(name) >= MinLength
  /\ Len(name) <= MaxLength
  /\ CharsAllowed(name)
  /\ FirstChar(name) \in Alnum
  /\ LastChar(name) \in Alnum
  /\ ~reserved

ValidateUsername(name, reserved) ==
  /\ Len(name) >= MinLength
  /\ Len(name) <= MaxLength
  /\ CharsAllowed(name)
  /\ FirstChar(name) = "letter"
  /\ LastChar(name) \in Alnum
  /\ ~reserved

ValidatePassword(kinds, eight) == kinds = PasswordKinds /\ eight

FillIn ==
  /\ answer = "none"
  /\ form' \in Typed
  /\ answer' = "asked"

\* Each check that fails ends the call; then come three hashes, each of which
\* may fail, and save_user.
RegisterUser ==
  /\ answer = "asked"
  /\ form' = form
  /\ IF /\ ValidateUsername(form.name, form.reserved)
        /\ ValidatePassword(form.password, form.eight)
        /\ form.confirmed
        /\ form.email # "invalid"
     THEN answer' \in {"welcome", "failed"}
     ELSE answer' = "refused"

Next == FillIn \/ RegisterUser

Spec == Init /\ [][Next]_vars

-----------------------------------------------------------------------------
\* The rules as validator.hpp lists them, and the reserved name.
UsernameRules(f) ==
  /\ Len(f.name) \in MinLength .. MaxLength
  /\ \A c \in Chars \ {"letter", "digit", "mark"} : \A i \in 1 .. Len(f.name) : f.name[i] # c
  /\ Head(f.name) = "letter"
  /\ f.name[Len(f.name)] \in {"letter", "digit"}
  /\ ~f.reserved

PasswordRules(f) == f.eight /\ PasswordKinds \subseteq f.password

\* Who is welcomed has kept every rule of validator.hpp, and who is refused has
\* broken one, the confirmation or the form of the email.
ByTheRules ==
  LET kept == UsernameRules(form) /\ PasswordRules(form) /\ form.confirmed /\ form.email # "invalid"
  IN  (answer = "welcome" => kept) /\ (answer = "refused" => ~kept)

=============================================================================
