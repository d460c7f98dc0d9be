------------------------- MODULE SessionLedgerProofs -------------------------
(***************************************************************************)
(* Proofs about SessionLedger, for every set of tokens and families.       *)
(***************************************************************************)
EXTENDS SessionLedger, TLAPS

\* A step keeps the types.
LEMMA LedgerTypeStep ==
    ASSUME LedgerAssumption, LedgerTypeOK, [Next]_vars
    PROVE  LedgerTypeOK'
<1> USE DEF LedgerAssumption, LedgerTypeOK, Is
<1>1. ASSUME NEW t \in Tokens, NEW f \in Families, Issue(t, f)
      PROVE  LedgerTypeOK'
  BY <1>1 DEF Issue
<1>2. ASSUME NEW t \in Tokens, NEW next \in Tokens, Rotate(t, next)
      PROVE  LedgerTypeOK'
  BY <1>2 DEF Rotate
<1>3. ASSUME NEW t \in Tokens, NEW next \in Tokens, Join(t, next)
      PROVE  LedgerTypeOK'
  BY <1>3 DEF Join
<1>4. ASSUME NEW T \in SUBSET Tokens, Close(T)
      PROVE  LedgerTypeOK'
  BY <1>4 DEF Close
<1>5. CASE UNCHANGED vars
  BY <1>5 DEF vars
<1>6. QED
  BY <1>1, <1>2, <1>3, <1>4, <1>5 DEF Next

\* Tokens have a status, and a family from the moment they are issued.
THEOREM LedgerTypeCorrect ==
    ASSUME LedgerAssumption
    PROVE  Spec => []LedgerTypeOK
<1>1. Init => LedgerTypeOK
  BY DEF Init, LedgerTypeOK, Is
<1>2. QED
  BY <1>1, LedgerTypeStep, PTL DEF Spec

\* A step that leaves the spent tokens of an ended family spent, and adds no
\* live one, leaves it ended.
LEMMA EndedStep ==
    ASSUME LedgerAssumption, LedgerTypeOK, [Next]_vars,
           NEW f \in Families \ Joinable, Ended(f)
    PROVE  Ended(f)'
<1> SUFFICES /\ Members(f) \subseteq Members(f)'
             /\ \A x \in Tokens : x \in Members(f)' => ~Is(x, "live")'
  BY DEF Ended, HasLive, Members, Is
<1> USE DEF LedgerAssumption
<1>1. \A x \in Members(f) : x \in Tokens /\ family[x] = f /\ Is(x, "spent")
  BY DEF LedgerTypeOK, Ended, HasLive, Members, Is
<1>2. ASSUME NEW t \in Tokens, NEW g \in Families, Issue(t, g)
      PROVE  /\ Members(f) \subseteq Members(f)'
             /\ \A x \in Tokens : x \in Members(f)' => ~Is(x, "live")'
  <2>1. g # f
    BY <1>2 DEF Issue, Ended
  <2>2. QED
    BY <1>1, <1>2, <2>1 DEF Issue, Members, Is, LedgerTypeOK
<1>3. ASSUME NEW t \in Tokens, NEW next \in Tokens,
             Rotate(t, next) \/ Join(t, next)
      PROVE  /\ Members(f) \subseteq Members(f)'
             /\ \A x \in Tokens : x \in Members(f)' => ~Is(x, "live")'
  <2>1. family[t] # f
    BY <1>1, <1>3 DEF Rotate, Join, Ended, HasLive, Members, Is
  <2>2. QED
    BY <1>1, <1>3, <2>1 DEF Rotate, Join, Members, Is, LedgerTypeOK
<1>4. ASSUME NEW T \in SUBSET Tokens, Close(T)
      PROVE  /\ Members(f) \subseteq Members(f)'
             /\ \A x \in Tokens : x \in Members(f)' => ~Is(x, "live")'
  BY <1>1, <1>4 DEF Close, Members, Is
<1>5. CASE UNCHANGED vars
  BY <1>1, <1>5 DEF vars, Members, Is
<1>6. QED
  BY <1>2, <1>3, <1>4, <1>5 DEF Next

\* A login that has ended, its tokens all spent, stays ended.
THEOREM EndedForEver ==
    ASSUME LedgerAssumption
    PROVE  Spec => EndedStaysEnded
<1>1. LedgerTypeOK /\ [Next]_vars =>
        [\A f \in Families \ Joinable : Ended(f) => Ended(f)']_vars
  BY EndedStep
<1>2. QED
  BY <1>1, LedgerTypeCorrect, PTL DEF Spec, EndedStaysEnded

=============================================================================
