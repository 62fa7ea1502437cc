-------------------------------- MODULE Round -------------------------------
(***************************************************************************)
(* What one round of the engine promises its caller, without its threads:  *)
(* it either finds nothing to start from, or answers once, with the symbol *)
(* of the word module or of the phrase module at the index.  A word has to *)
(* be more excited than the phrase, so only a phrase can be the dummy.     *)
(***************************************************************************)
CONSTANTS Answers,   \* the symbols a module can answer
          Dummy      \* "DummySymbol", when no symbol reaches band 1

VARIABLES stage,     \* "running", "failed" or "answered"
          kind,      \* which of the two modules answered, or "none"
          symbol     \* what it answered

vars == <<stage, kind, symbol>>

Init == stage = "running" /\ kind = "none" /\ symbol = Dummy

Fail == stage = "running" /\ stage' = "failed" /\ UNCHANGED <<kind, symbol>>

AnswerWord(s) ==
  /\ stage = "running" /\ stage' = "answered"
  /\ kind' = "word" /\ symbol' = s

AnswerPhrase(s) ==
  /\ stage = "running" /\ stage' = "answered"
  /\ kind' = "phrase" /\ symbol' = s

Next == \/ Fail
        \/ \E s \in Answers : AnswerWord(s)
        \/ \E s \in Answers \cup {Dummy} : AnswerPhrase(s)

Spec == Init /\ [][Next]_vars
=============================================================================
