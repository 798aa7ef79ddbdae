----------------------------- MODULE MCLibrary ------------------------------
(* A small instance of Library for TLC.                                    *)
EXTENDS Library, SequencesExt

\* Every name of up to four characters, with every form around it; "guest" is
\* played by a name of three letters.
MCNames == BoundedSeq({"letter", "digit", "mark", "space", "symbol"}, 4)
MCGuest == <<"letter", "letter", "letter">>

MCTyped ==
  {f \in [name : MCNames, reserved : BOOLEAN,
          password : {{"upper", "lower", "digit", "special"}, {"upper", "lower", "digit"},
                      {"lower", "special"}},
          eight : BOOLEAN, confirmed : BOOLEAN, email : {"none", "valid", "invalid"}] :
     f.reserved => f.name = MCGuest}

=============================================================================
