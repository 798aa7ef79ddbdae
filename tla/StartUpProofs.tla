--------------------------- MODULE StartUpProofs ----------------------------
(* Proofs about StartUp, for any set of programs.                          *)
EXTENDS StartUp, TLAPS

LEMMA TypeInit == Init => TypeOK
BY DEF Init, TypeOK, Phases

LEMMA TypeNext == TypeOK /\ [Next]_vars => TypeOK'
<1>1. SUFFICES ASSUME TypeOK, [Next]_vars
               PROVE  TypeOK'
  OBVIOUS
<1>2. CASE UNCHANGED vars
  BY <1>1, <1>2 DEF TypeOK, vars
<1>3. CASE UserEdits
  BY <1>1, <1>3 DEF TypeOK, UserEdits
<1>4. ASSUME NEW p \in Programs, Launch(p) \/ Program(p) \/ Exit(p) \/ Kill(p)
      PROVE  TypeOK'
  <2>1. CASE Launch(p)
    BY <1>1, <2>1 DEF TypeOK, Launch, Goto, Phases
  <2>2. CASE FileThere(p)
    BY <1>1, <2>2 DEF TypeOK, FileThere, Goto, Phases
  <2>3. CASE RunText(p)
    BY <1>1, <2>3 DEF TypeOK, RunText, Goto, Phases
  <2>4. CASE SecondLook(p)
    BY <1>1, <2>4 DEF TypeOK, SecondLook, Goto, Phases
  <2>5. CASE OpenFile(p)
    BY <1>1, <2>5 DEF TypeOK, OpenFile, Goto, Phases
  <2>6. CASE WriteFile(p)
    BY <1>1, <2>6 DEF TypeOK, WriteFile, Goto, Phases
  <2>7. CASE LoadFile(p)
    BY <1>1, <2>7 DEF TypeOK, LoadFile, Goto, Phases
  <2>8. CASE Check(p)
    BY <1>1, <2>8 DEF TypeOK, Check, Goto, Phases
  <2>9. CASE Exit(p)
    BY <1>1, <2>9 DEF TypeOK, Exit, Goto, Phases
  <2>10. CASE Kill(p)
    BY <1>1, <2>10 DEF TypeOK, Kill, Goto, Phases
  <2>11. QED
    BY <1>4, <2>1, <2>2, <2>3, <2>4, <2>5, <2>6, <2>7, <2>8, <2>9, <2>10 DEF Program
<1>5. QED
  BY <1>1, <1>2, <1>3, <1>4 DEF Next

\* The state of a launch stays in its types: what the file and each program's
\* settings can be.
THEOREM StartUpTypes == Spec => []TypeOK
BY TypeInit, TypeNext, PTL DEF Spec

-----------------------------------------------------------------------------
LEMMA DamageNext ==
  TypeOK /\ BrokenNeedsDamage /\ [Next]_vars => BrokenNeedsDamage'
<1>1. SUFFICES ASSUME TypeOK, BrokenNeedsDamage, [Next]_vars, cfg' = "broken", ~hurt'
               PROVE  \E q \in Programs : launch'[q] = "write"
  BY DEF BrokenNeedsDamage
<1>2. CASE UNCHANGED vars
  BY <1>1, <1>2 DEF BrokenNeedsDamage, vars
<1>3. CASE UserEdits
  BY <1>1, <1>3 DEF UserEdits
<1>4. ASSUME NEW p \in Programs, Launch(p) \/ Program(p) \/ Exit(p) \/ Kill(p)
      PROVE  \E q \in Programs : launch'[q] = "write"
  <2>1. CASE cfg = "broken" /\ ~hurt /\ launch[p] # "write"
    <3>1. PICK w \in Programs : launch[w] = "write"
      BY <1>1, <2>1 DEF BrokenNeedsDamage
    <3>2. launch'[w] = launch[w]
      BY <1>1, <1>4, <2>1, <3>1 DEF TypeOK, Program, Launch, FileThere, RunText,
         SecondLook, OpenFile, WriteFile, LoadFile, Check, Exit, Kill, Goto
    <3>3. QED
      BY <3>1, <3>2
  <2>2. CASE launch[p] = "write"
    <3>1. ~Launch(p) /\ ~Exit(p)
      BY <2>2 DEF Launch, Exit
    <3>2. ~Kill(p)
      BY <1>1, <2>2 DEF Kill
    <3>3. WriteFile(p)
      BY <1>4, <2>2, <3>1, <3>2 DEF Program, FileThere, RunText, SecondLook, OpenFile,
         LoadFile, Check
    <3>4. QED
      BY <1>1, <3>3 DEF WriteFile
  <2>3. CASE launch[p] # "write" /\ ~(cfg = "broken" /\ ~hurt)
    <3>1. cfg' # cfg \/ hurt' # hurt
      BY <1>1, <2>3 DEF TypeOK
    <3>2. OpenFile(p)
      BY <1>1, <1>4, <2>3, <3>1 DEF TypeOK, Program, Launch, FileThere, RunText,
         SecondLook, WriteFile, LoadFile, Check, Exit, Kill
    <3>3. launch'[p] = "write"
      BY <1>1, <2>3, <3>1, <3>2 DEF TypeOK, OpenFile, Goto
    <3>4. QED
      BY <3>3
  <2>4. QED
    BY <2>1, <2>2, <2>3
<1>5. QED
  BY <1>1, <1>2, <1>3, <1>4 DEF Next

\* However many programs create config.lua at once, a broken file that nobody
\* is writing comes of a crash, a full disk or the user.
THEOREM BrokenFileNeedsDamage == Spec => []BrokenNeedsDamage
<1>1. Init => BrokenNeedsDamage
  BY DEF Init, BrokenNeedsDamage
<1>2. QED
  BY <1>1, TypeInit, TypeNext, DamageNext, PTL DEF Spec

-----------------------------------------------------------------------------
\* Who goes to load_config without a file has run the built-in text.
TextBeforeLoad ==
  \A p \in Programs : launch[p] = "load" /\ cfg = "none" => lua[p] = "text"

LEMMA TextBeforeLoadNext ==
  TypeOK /\ TextBeforeLoad /\ [Next]_vars => TextBeforeLoad'
<1>1. SUFFICES ASSUME TypeOK, TextBeforeLoad, [Next]_vars, NEW q \in Programs,
                      launch'[q] = "load", cfg' = "none"
               PROVE  lua'[q] = "text"
  BY DEF TextBeforeLoad
<1>2. CASE UNCHANGED vars
  BY <1>1, <1>2 DEF TextBeforeLoad, vars
<1>3. CASE UserEdits
  BY <1>1, <1>3 DEF UserEdits
<1>4. ASSUME NEW p \in Programs, Launch(p) \/ Program(p) \/ Exit(p) \/ Kill(p)
      PROVE  lua'[q] = "text"
  <2>1. cfg = "none"
    BY <1>1, <1>4 DEF TypeOK, Program, Launch, FileThere, RunText, SecondLook,
       OpenFile, WriteFile, LoadFile, Check, Exit, Kill
  <2>2. CASE q # p
    <3>1. launch'[q] = launch[q] /\ lua'[q] = lua[q]
      BY <1>1, <1>4, <2>1, <2>2 DEF TypeOK, Program, Launch, FileThere, RunText,
         SecondLook, OpenFile, WriteFile, LoadFile, Check, Exit, Kill, Goto
    <3>2. QED
      BY <1>1, <2>1, <3>1 DEF TextBeforeLoad
  <2>3. CASE q = p
    <3>1. RunText(p)
      BY <1>1, <1>4, <2>1, <2>3 DEF TypeOK, Program, Launch, FileThere,
         SecondLook, OpenFile, WriteFile, LoadFile, Check, Exit, Kill, Goto
    <3>2. QED
      BY <1>1, <2>3, <3>1 DEF TypeOK, RunText
  <2>4. QED
    BY <2>2, <2>3
<1>5. QED
  BY <1>1, <1>2, <1>3, <1>4 DEF Next

LEMMA RefusedStep ==
  ASSUME TypeOK, BrokenNeedsDamage, TextBeforeLoad, [Next]_vars, NEW p \in Programs,
         launch[p] = "load", launch'[p] = "check", lua'[p] = "unset"
  PROVE  hurt \/ \E q \in Programs \ {p} : launch[q] = "write"
<1>1. PICK q \in Programs : Launch(q) \/ Program(q) \/ Exit(q) \/ Kill(q)
  BY DEF Next, vars, UserEdits
<1>2. q = p
  BY <1>1 DEF TypeOK, Program, Launch, FileThere, RunText, SecondLook, OpenFile,
     WriteFile, LoadFile, Check, Exit, Kill, Goto
<1>3. LoadFile(p)
  BY <1>1, <1>2 DEF TypeOK, Program, Launch, FileThere, RunText, SecondLook,
     OpenFile, WriteFile, Check, Exit, Kill, Goto
<1>4. CASE cfg = "none"
  <2>1. lua' = [lua EXCEPT ![p] = lua[p]] /\ lua[p] = "text"
    BY <1>3, <1>4 DEF LoadFile, TextBeforeLoad
  <2>2. QED
    BY <2>1 DEF TypeOK
<1>5. CASE cfg = "usable"
  <2>1. lua' = [lua EXCEPT ![p] = "file"]
    BY <1>3, <1>5 DEF LoadFile
  <2>2. QED
    BY <2>1 DEF TypeOK
<1>6. CASE cfg = "broken"
  BY <1>6 DEF BrokenNeedsDamage
<1>7. QED
  BY <1>4, <1>5, <1>6 DEF TypeOK

\* However many programs start at once, one is left without settings only over a
\* file that is damaged or that another is writing at that moment.
THEOREM OnlyBrokenFilesRefuse == Spec => RefusedOnlyOverBroken
<1>1. Init => BrokenNeedsDamage /\ TextBeforeLoad
  BY DEF Init, BrokenNeedsDamage, TextBeforeLoad
<1>2. TypeOK /\ BrokenNeedsDamage /\ TextBeforeLoad /\ [Next]_vars =>
        \A p \in Programs :
          launch[p] = "load" /\ launch'[p] = "check" /\ lua'[p] = "unset" =>
            hurt \/ \E q \in Programs \ {p} : launch[q] = "write"
  BY RefusedStep
<1>3. QED
  BY <1>1, <1>2, TypeInit, TypeNext, DamageNext, TextBeforeLoadNext, PTL
  DEF Spec, RefusedOnlyOverBroken

-----------------------------------------------------------------------------
LEMMA WedgedNext ==
  TypeOK /\ [Next]_vars => (Wedged /\ launch' # launch => Wedged')
<1>1. SUFFICES ASSUME TypeOK, [Next]_vars, Wedged, launch' # launch
               PROVE  Wedged'
  OBVIOUS
<1>2. PICK p \in Programs : Launch(p) \/ Program(p) \/ Exit(p) \/ Kill(p)
  BY <1>1 DEF Next, vars, UserEdits
<1>3. Launch(p) \/ FileThere(p) \/ LoadFile(p) \/ Check(p) \/ Kill(p)
  BY <1>1, <1>2 DEF Wedged, Program, RunText, SecondLook, OpenFile, WriteFile, Exit
<1>4. cfg' = "broken"
  BY <1>1, <1>3 DEF Wedged, Launch, FileThere, LoadFile, Check, Kill
<1>5. \A q \in Programs \ {p} : launch'[q] = launch[q] /\ lua'[q] = lua[q]
  BY <1>1, <1>3 DEF TypeOK, Launch, FileThere, LoadFile, Check, Kill, Goto
<1>6. /\ launch'[p] \in {"down", "create", "load", "check"}
      /\ launch'[p] # "down" => lua'[p] = "unset"
  <2>1. CASE Launch(p)
    BY <1>1, <2>1 DEF TypeOK, Launch, Goto
  <2>2. CASE FileThere(p)
    BY <1>1, <2>2 DEF TypeOK, FileThere, Goto, Wedged
  <2>3. CASE LoadFile(p)
    BY <1>1, <2>3 DEF TypeOK, LoadFile, Goto, Wedged
  <2>4. CASE Check(p)
    BY <1>1, <2>4 DEF TypeOK, Check, Goto, Wedged
  <2>5. CASE Kill(p)
    BY <1>1, <2>5 DEF TypeOK, Kill, Goto
  <2>6. QED
    BY <1>3, <2>1, <2>2, <2>3, <2>4, <2>5
<1>7. QED
  BY <1>1, <1>4, <1>5, <1>6 DEF Wedged

\* No program, however often started, gets past an empty or cut config.lua.
THEOREM BrokenFileIsForGood == Spec => WedgedForGood
BY TypeInit, TypeNext, WedgedNext, PTL DEF Spec, WedgedForGood

=============================================================================
