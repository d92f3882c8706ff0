--------------------------- MODULE MCUserFunctions ---------------------------
(* UserFunctions for TLC: two Callables, two connections, a function of one
   and of two arguments and of any number; and Signals, with two values and
   statements of one and of two rows.  One of the two is followed while the
   other has not begun: functions and signals do not depend on each other. *)
EXTENDS UserFunctions, Signals, TLC

CONSTANTS h1, h2, c1, c2, null, number, text1, text2, wide, garbled, a, b

MCHandles   == {h1, h2}
MCCallables == {c1, c2}
MCNumbers   == {number}
MCTexts     == {text1, text2}
MCLists     == {<<number>>, <<number, null>>, <<null, number>>}
MCLatin1    == [t \in MCTexts |-> t]

(* The run about the arguments has a text that is not ASCII. *)
WideTexts   == {wide}
WideLists   == {<<wide, null>>}
WideLatin1  == [t \in WideTexts |-> garbled]

MCValues    == {a, b}
MCInserts   == {<<a>>, <<b>>, <<a, b>>, <<b, a>>}

MCSymmetry  == Permutations(MCHandles) \union Permutations(MCCallables)
                 \union Permutations(MCTexts) \union Permutations(MCValues)

MCInit == Init /\ SignalsInit
MCNext ==
  \/ SignalsInit /\ Next /\ UNCHANGED signalsVars
  \/ Init /\ SignalsNext /\ UNCHANGED vars

MCSpec == MCInit /\ [][MCNext]_<<vars, signalsVars>>
=============================================================================
