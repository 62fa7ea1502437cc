----------------------------- MODULE Knowledge ------------------------------
(***************************************************************************)
(* What a knowledge base and the two modules it joins promise, in the      *)
(* terms of KnowledgeBase (bags of links) and Excitation (functions from   *)
(* symbols to excitations), which the models of learning and of a round    *)
(* are built on: links are counted, their strengths are transmitted.       *)
(***************************************************************************)
EXTENDS Excitation, KnowledgeBase

CONSTANTS LinkStrength(_),   \* ComputeLinkStrength of <<count, sum>>
          Inputs,            \* what other modules may send to the source
          Levels             \* band levels

VARIABLES kb,       \* what is counted
          link,     \* kbase_: link[t][s]; the zero matrix while it learns
          learned,  \* kbase_ exists
          source, target    \* the excitations of the two modules

knowledgeVars == <<kb, link, learned, source, target>>

NoLinks == [t \in Symbols |-> ZeroVector]

Init ==
  /\ kb = EmptyKb /\ link = NoLinks /\ learned = FALSE
  /\ source = ZeroVector /\ target = ZeroVector

\* One pair is learned.
Add(t, s) ==
  /\ ~learned
  /\ kb' = AddAll(kb, {1}, <<s>>, <<t>>)
  /\ UNCHANGED <<link, learned, source, target>>

Learn ==
  LET strengths == ComputeLinkStrengths(kb).strengths
  IN  /\ ~learned /\ learned' = TRUE
      /\ kb' = EmptyKb
      /\ link' = [t \in Symbols |-> [s \in Symbols |->
                    IF <<t, s>> \in DOMAIN strengths THEN LinkStrength(strengths[<<t, s>>])
                    ELSE 0]]
      /\ UNCHANGED <<source, target>>

ActivateSymbol(s) ==
  learned /\ source' = [source EXCEPT ![s] = BandGap] /\ UNCHANGED <<kb, link, learned, target>>

Receive(input) ==
  learned /\ source' = AddVectors(source, input) /\ UNCHANGED <<kb, link, learned, target>>

TransferExcitation ==
  /\ learned
  /\ target' = AddVectors(target, Transmit(link, source))
  /\ UNCHANGED <<kb, link, learned, source>>

PartialConfabulation(level) ==
  /\ learned
  /\ target' = ExcitationsAbove(level, target)
  /\ UNCHANGED <<kb, link, learned, source>>

Contract ==
  /\ learned
  /\ target' = Contracted(ElementaryConfabulation(target))
  /\ UNCHANGED <<kb, link, learned, source>>

ExcitationsToZero ==
  /\ learned /\ source' = ZeroVector /\ target' = ZeroVector
  /\ UNCHANGED <<kb, link, learned>>

Next ==
  \/ \E t, s \in Symbols : Add(t, s)
  \/ Learn
  \/ \E s \in Symbols : ActivateSymbol(s)
  \/ \E input \in Inputs : Receive(input)
  \/ \E level \in Levels : PartialConfabulation(level)
  \/ TransferExcitation \/ Contract \/ ExcitationsToZero

Spec == Init /\ [][Next]_knowledgeVars
=============================================================================
