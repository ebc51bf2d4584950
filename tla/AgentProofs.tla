----------------------------- MODULE AgentProofs -----------------------------
(***************************************************************************)
(* Proofs about four parts of the agent, each by itself: deliveries on     *)
(* Telegram, turns with their counters and images, the network sampler,    *)
(* and the process with its pool and adapters.                             *)
(***************************************************************************)
EXTENDS MCAgent, MemoryStoreProofs, FiniteSetTheorems, SequenceTheorems

-----------------------------------------------------------------------------

(***************************************************************************)
(* Deliveries: for replies of any length, what is not delivered was put    *)
(* off by flood control, what arrives twice had an attempt of unknown      *)
(* outcome, and no typing action follows the reply.                        *)
(***************************************************************************)

-----------------------------------------------------------------------------

LEMMA InitDInv ==
  ASSUME Init
  PROVE  DInv
<1>1. /\ MaxChunks \in Nat \ {0} /\ MaxImages \in Nat /\ 1 \in 1..Attempts
  BY DeliveryAssumption DEF Attempts
<1>2. ASSUME NEW text \in 0..MaxChunks, NEW photos \in 0..MaxImages
      PROVE  Messages(text, photos) \in 0..MaxChunks
  BY <1>1, <1>2 DEF Messages
<1>3. chunks \in 0..MaxChunks /\ images \in 0..MaxImages
  BY <1>1, <1>2 DEF Init
<1>4. TypeOK
  <2>1. part \in 1..(MaxChunks + MaxImages + 1) /\ attempt \in 1..Attempts
    BY <1>1 DEF Init
  <2>2. /\ copies \in [Parts -> Nat] /\ timeouts \in [Parts -> Nat]
        /\ answer \in [Parts -> Answers]
    BY DEF Init, Answers
  <2>3. /\ pc \in {"turn", "stopping", "sending", "returned", "raised"} /\ failed \in BOOLEAN
        /\ mode \in {"markdown", "plain"} /\ stop \in BOOLEAN
        /\ typing \in {"calling", "waiting", "off"}
    BY DEF Init
  <2>4. QED BY <1>3, <2>1, <2>2, <2>3 DEF TypeOK
<1>5. part = 1 /\ \A p \in Parts : answer[p] = "none" /\ copies[p] = 0 /\ timeouts[p] = 0 /\ p >= 1
  BY <1>1 DEF Init, Parts
<1>6. InOrder
  <2>1. chunks \in Nat /\ images \in Nat BY <1>1, <1>3
  <2>2. \A p \in Parts : p \in Nat /\ ~(p < 1) BY <1>1 DEF Parts
  <2>3. QED BY <1>5, <2>1, <2>2 DEF InOrder
<1>7. AllPassed /\ IndicatorFirst BY DEF Init, AllPassed, IndicatorFirst
<1>8. NotYetTaken /\ CopiesNeedTimeouts BY <1>5 DEF NotYetTaken, CopiesNeedTimeouts
<1>9. CopiesBounded
  <2>1. chunks \in Nat /\ failed = FALSE /\ \A p \in Parts : p \in Nat BY <1>1, <1>3 DEF Init, Parts
  <2>2. \A p \in Parts : MostCopies(p) = 1 \/ MostCopies(p) = 5 BY <2>1 DEF MostCopies, Attempts
  <2>3. QED BY <1>5, <2>2 DEF CopiesBounded
<1>10. FewTries
  <2>1. failed = FALSE /\ attempt = 1 /\ mode = "markdown" /\ (pc = "turn" => images = 0)
    BY DEF Init
  <2>2. QED BY <1>5, <2>1 DEF FewTries
<1>11. QED BY <1>4, <1>6, <1>7, <1>8, <1>9, <1>10 DEF DInv, FewCopies

\* Where await typing leads.
LEMMA Awaited ==
  ASSUME TypingAwaited, failed \in BOOLEAN
  PROVE  /\ pc = "stopping" /\ typing = "off"
         /\ \/ pc' = "sending" /\ ~failed
            \/ pc' = "returned" /\ failed /\ Sent
            \/ pc' = "raised" /\ failed /\ ~Sent
         /\ UNCHANGED <<reply, part, mode, attempt, indicator, history>>
<1>1. CASE ~failed BY <1>1, Zenon DEF TypingAwaited
<1>2. CASE failed /\ Sent BY <1>2, Zenon DEF TypingAwaited
<1>3. CASE failed /\ ~Sent BY <1>3, Zenon DEF TypingAwaited
<1>4. QED BY <1>1, <1>2, <1>3

\* The steps that send nothing.
LEMMA QuietKeeps ==
  ASSUME DInv, TurnReturns \/ TurnRaises \/ TypingAwaited \/ ActionSent \/ Woken \/ UNCHANGED vars
  PROVE  DInv'
<1>1. /\ MaxChunks \in Nat \ {0} /\ MaxImages \in Nat /\ TypeOK
      /\ Parts = 1..(MaxChunks + MaxImages) /\ failed \in BOOLEAN
  BY DeliveryAssumption DEF DInv, Parts, TypeOK
<1>2. copies' = copies /\ timeouts' = timeouts /\ answer' = answer /\ part' = part
  BY <1>1, Awaited DEF TurnReturns, TurnRaises, ActionSent, Woken, vars, reply, history
<1>3. chunks' \in 0..MaxChunks /\ images' \in 0..MaxImages
  <2>1. ASSUME NEW text \in 0..MaxChunks, NEW photos \in 0..MaxImages
        PROVE  Messages(text, photos) \in 0..MaxChunks
    BY <1>1 DEF Messages
  <2>2. CASE TurnReturns BY <2>1, <2>2 DEF TurnReturns
  <2>3. CASE ~TurnReturns
    BY <1>1, <2>3, Awaited DEF TypeOK, TurnRaises, ActionSent, Woken, vars, reply
  <2>4. QED BY <2>2, <2>3
<1>4. TypeOK'
  <2>1. pc' \in {"turn", "stopping", "sending", "returned", "raised"} /\ failed' \in BOOLEAN
    BY <1>1, Awaited DEF TypeOK, TurnReturns, TurnRaises, ActionSent, Woken, vars, reply
  <2>2. /\ mode' \in {"markdown", "plain"} /\ attempt' \in 1..Attempts
        /\ stop' \in BOOLEAN /\ typing' \in {"calling", "waiting", "off"}
    BY <1>1, Awaited DEF TypeOK, TurnReturns, TurnRaises, ActionSent, Woken, vars, indicator
  <2>3. QED BY <1>1, <1>2, <1>3, <2>1, <2>2 DEF TypeOK
<1>5. /\ part <= chunks' + images' + 1
      /\ pc' \in {"turn", "stopping"} /\ ~failed' => part = 1
  <2>1. CASE TurnReturns
    BY <1>1, <1>3, <2>1 DEF TurnReturns, DInv, InOrder, IndicatorFirst
  <2>2. CASE TurnRaises
    BY <1>1, <1>3, <2>2 DEF TurnRaises, DInv, InOrder, IndicatorFirst
  <2>3. CASE ~TurnReturns /\ ~TurnRaises
    <3>1. chunks' = chunks /\ images' = images /\ failed' = failed
      BY <1>1, <2>3, Awaited DEF ActionSent, Woken, vars, reply
    <3>2. pc' = pc \/ pc' \notin {"turn", "stopping"}
      BY <1>1, <2>3, Awaited DEF ActionSent, Woken, vars
    <3>3. QED BY <3>1, <3>2 DEF DInv, InOrder
  <2>4. QED BY <2>1, <2>2, <2>3
<1>6. InOrder' BY <1>2, <1>5 DEF DInv, InOrder
<1>7. AllPassed'
  <2>1. SUFFICES ASSUME pc' = "returned" PROVE part' = chunks' + images' + 1
    BY DEF AllPassed
  <2>2. chunks' = chunks /\ images' = images /\ (pc = "returned" \/ (failed /\ Sent))
    BY <1>1, <2>1, Awaited DEF TurnReturns, TurnRaises, ActionSent, Woken, vars, reply
  <2>3. QED BY <1>1, <1>2, <2>2 DEF DInv, InOrder, AllPassed, Sent, TypeOK
<1>8. NotYetTaken' /\ CopiesNeedTimeouts'
  BY <1>2 DEF DInv, NotYetTaken, FewCopies, CopiesNeedTimeouts
<1>9. IndicatorFirst'
  BY <1>1, Awaited DEF DInv, IndicatorFirst, TurnReturns, TurnRaises, ActionSent, Woken, vars,
         reply, indicator
<1>10. CopiesBounded'
  <2>1. CASE chunks' = chunks /\ failed' = failed
    BY <1>2, <2>1 DEF DInv, FewCopies, CopiesBounded, MostCopies
  <2>2. CASE TurnReturns \/ TurnRaises
    <3>1. pc = "turn" /\ ~failed /\ part = 1 /\ attempt = 1 /\ mode = "markdown"
      BY <1>1, <2>2 DEF TurnReturns, TurnRaises, DInv, IndicatorFirst, InOrder, FewTries
    <3>2. \A p \in Parts : copies[p] = 0
      <4>1. \A p \in Parts : p > 1 => copies[p] = 0 BY <3>1 DEF DInv, InOrder
      <4>2. 1 \in Parts BY <1>1
      <4>3. timeouts[1] <= 0 BY <3>1, <4>2 DEF DInv, FewTries
      <4>4. answer[1] # "taken" BY <1>1, <3>1, <4>2 DEF DInv, NotYetTaken
      <4>5. copies[1] <= timeouts[1] BY <1>1, <4>2, <4>4 DEF DInv, FewCopies, CopiesNeedTimeouts, TypeOK
      <4>6. copies[1] = 0 BY <1>1, <4>2, <4>3, <4>5 DEF TypeOK
      <4>7. \A p \in Parts : p = 1 \/ p > 1 BY <1>1
      <4>8. QED BY <4>1, <4>6, <4>7
    <3>3. \A p \in Parts : MostCopies(p)' \in {1, 3, 5}
      <4>1. chunks' \in Int /\ failed' \in BOOLEAN /\ \A p \in Parts : p \in Int
        BY <1>1, <1>3, <1>4 DEF TypeOK
      <4>2. QED BY <4>1 DEF MostCopies, Attempts
    <3>4. QED BY <1>2, <3>2, <3>3 DEF CopiesBounded
  <2>3. QED BY <1>1, <2>1, <2>2, Awaited DEF ActionSent, Woken, vars, reply
<1>11. FewTries'
  <2>1. CASE TurnReturns
    <3>1. /\ pc = "turn" /\ ~failed /\ pc' = "stopping" /\ failed' = failed
          /\ attempt' = attempt /\ mode' = mode
      BY <2>1 DEF TurnReturns, DInv, IndicatorFirst
    <3>2. QED BY <1>2, <3>1 DEF DInv, FewTries
  <2>2. CASE TurnRaises
    <3>1. /\ pc = "turn" /\ ~failed /\ part = 1 /\ pc' = "sending" /\ failed' /\ mode' = "plain"
          /\ chunks' = 1 /\ images' = 0 /\ attempt' = attempt /\ attempt = 1 /\ mode = "markdown"
      BY <1>1, <2>2 DEF TurnRaises, DInv, IndicatorFirst, InOrder, FewTries
    <3>2. 1 \in Parts /\ timeouts[1] <= 0 BY <1>1, <3>1 DEF DInv, FewTries
    <3>3. ~IsPhoto' BY <1>2, <3>1 DEF IsPhoto
    <3>4. QED BY <1>2, <3>1, <3>2, <3>3 DEF FewTries
  <2>3. CASE TypingAwaited
    <3>1. /\ pc = "stopping" /\ mode' = mode /\ attempt' = attempt
          /\ chunks' = chunks /\ images' = images /\ failed' = failed
          /\ pc' \in {"sending", "returned", "raised"} /\ (pc' = "sending" => ~failed)
      BY <1>1, <2>3, Awaited DEF reply
    <3>2. QED BY <1>2, <3>1 DEF DInv, FewTries
  <2>4. CASE ActionSent \/ Woken \/ UNCHANGED vars
    <3>1. /\ pc' = pc /\ mode' = mode /\ attempt' = attempt
          /\ chunks' = chunks /\ images' = images /\ failed' = failed
      BY <2>4 DEF ActionSent, Woken, vars, reply
    <3>2. QED BY <1>2, <3>1 DEF DInv, FewTries, IsPhoto
  <2>5. QED BY <2>1, <2>2, <2>3, <2>4
<1>12. QED BY <1>4, <1>6, <1>7, <1>8, <1>9, <1>10, <1>11 DEF DInv, FewCopies

(***************************************************************************)
(* An answer of Telegram: after it the handler goes on to the next part,   *)
(* or has not got this one accepted.                                       *)
(***************************************************************************)
LEMMA HeardKeeps ==
  ASSUME DInv, NEW what \in {"taken", "flood", "rejected", "network", "other"},
         NEW arrived \in BOOLEAN, Heard(what, arrived),
         arrived => what \in {"taken", "network"},
         \/ what \in {"taken", "flood"} /\ NextPart
         \/ what # "taken" /\ ((TryAgain /\ ~Last /\ ~IsPhoto) \/ Raise)
         \/ what = "rejected" /\ FallBack /\ mode = "markdown" /\ ~IsPhoto
  PROVE  DInv'
<1>1. /\ MaxChunks \in Nat \ {0} /\ MaxImages \in Nat /\ TypeOK
      /\ chunks \in 0..MaxChunks /\ images \in 0..MaxImages /\ part \in Nat /\ part >= 1
  BY DeliveryAssumption DEF DInv, TypeOK
<1>2. pc = "sending" /\ part <= chunks + images /\ part \in Parts
  BY <1>1 DEF Heard, Sent, Parts
<1>3. chunks' = chunks /\ images' = images /\ failed' = failed /\ typing' = typing
  BY DEF Heard, reply
<1>4. /\ copies \in [Parts -> Nat] /\ timeouts \in [Parts -> Nat] /\ answer \in [Parts -> Answers]
      /\ copies' \in [Parts -> Nat] /\ timeouts' \in [Parts -> Nat] /\ answer' \in [Parts -> Answers]
      /\ \A p \in Parts : p # part =>
           copies'[p] = copies[p] /\ timeouts'[p] = timeouts[p] /\ answer'[p] = answer[p]
      /\ answer'[part] = what
      /\ copies'[part] = IF arrived THEN copies[part] + 1 ELSE copies[part]
      /\ timeouts'[part] = IF what = "network" THEN timeouts[part] + 1 ELSE timeouts[part]
  BY <1>1, <1>2 DEF Heard, TypeOK, Answers
<1>5. \/ part' = part + 1 /\ what \in {"taken", "flood"}
      \/ part' = part /\ what # "taken"
  BY DEF NextPart, TryAgain, Raise, FallBack
<1>6. /\ pc' \in {"sending", "stopping", "returned", "raised"}
      /\ pc' \in {"sending", "stopping"} \/ ~failed
      /\ pc' = "stopping" => failed
      /\ pc' = "returned" => part' = chunks + images + 1
      /\ stop' \in BOOLEAN /\ mode' \in {"markdown", "plain"}
  BY <1>1, <1>2, <1>5 DEF NextPart, TryAgain, Raise, FallBack, Finish, TypeOK
<1>7. attempt' \in 1..Attempts
  BY <1>1 DEF NextPart, TryAgain, Raise, FallBack, TypeOK, Attempts, Last
<1>8. TypeOK'
  <2>1. part' \in 1..(MaxChunks + MaxImages + 1) BY <1>1, <1>2, <1>5
  <2>2. pc' \in {"turn", "stopping", "sending", "returned", "raised"} BY <1>6
  <2>3. failed' \in BOOLEAN /\ typing' \in {"calling", "waiting", "off"}
    BY <1>1, <1>3 DEF TypeOK
  <2>4. chunks' \in 0..MaxChunks /\ images' \in 0..MaxImages BY <1>1, <1>3
  <2>5. /\ copies' \in [Parts -> Nat] /\ timeouts' \in [Parts -> Nat]
        /\ answer' \in [Parts -> Answers]
    BY <1>4
  <2>6. QED BY <1>6, <1>7, <2>1, <2>2, <2>3, <2>4, <2>5 DEF TypeOK
<1>9. InOrder'
  <2> USE DEF Parts
  <2>1. part' <= chunks + images + 1 BY <1>1, <1>2, <1>5
  <2>2. ASSUME NEW p \in Parts, p < part' PROVE answer'[p] \in {"taken", "flood"}
    <3>1. CASE p = part BY <1>1, <1>4, <1>5, <2>2, <3>1
    <3>2. CASE p # part
      <4>1. p < part BY <1>1, <1>5, <2>2, <3>2
      <4>2. QED BY <1>4, <3>2, <4>1 DEF DInv, InOrder
    <3>3. QED BY <3>1, <3>2
  <2>3. ASSUME NEW p \in Parts, p > part'
        PROVE  answer'[p] = "none" /\ copies'[p] = 0 /\ timeouts'[p] = 0
    <3>1. p > part BY <1>1, <1>5, <2>3
    <3>2. QED BY <1>1, <1>4, <3>1 DEF DInv, InOrder
  <2>4. QED BY <1>3, <1>6, <2>1, <2>2, <2>3 DEF InOrder
<1>10. AllPassed' BY <1>3, <1>6 DEF AllPassed
<1>11. NotYetTaken'
  <2> USE DEF Parts
  <2>1. ASSUME NEW p \in Parts, p >= part' PROVE answer'[p] # "taken"
    <3>1. CASE p = part BY <1>1, <1>4, <1>5, <2>1, <3>1
    <3>2. CASE p # part
      <4>1. p >= part BY <1>1, <1>5, <2>1
      <4>2. QED BY <1>4, <3>2, <4>1 DEF DInv, NotYetTaken
    <3>3. QED BY <3>1, <3>2
  <2>2. QED BY <2>1 DEF NotYetTaken
<1>12. CopiesNeedTimeouts'
  <2>1. ASSUME NEW p \in Parts
        PROVE  copies'[p] <= timeouts'[p] + (IF answer'[p] = "taken" THEN 1 ELSE 0)
    <3>1. CASE p = part
      <4>1. copies[part] <= timeouts[part]
        <5>1. answer[part] # "taken" BY <1>1, <1>2 DEF DInv, NotYetTaken
        <5>2. copies[part] \in Nat /\ timeouts[part] \in Nat BY <1>2, <1>4
        <5>3. QED BY <1>2, <5>1, <5>2 DEF DInv, FewCopies, CopiesNeedTimeouts
      <4>2. copies[part] \in Nat /\ timeouts[part] \in Nat BY <1>2, <1>4
      <4>3. QED BY <1>4, <3>1, <4>1, <4>2
    <3>2. CASE p # part BY <1>4, <3>2 DEF DInv, FewCopies, CopiesNeedTimeouts
    <3>3. QED BY <3>1, <3>2
  <2>2. QED BY <2>1 DEF CopiesNeedTimeouts
<1>13. IndicatorFirst' BY <1>2, <1>3, <1>6 DEF DInv, IndicatorFirst
<1>14. /\ copies[part] \in Nat /\ timeouts[part] \in Nat /\ attempt \in 1..Attempts
       /\ copies[part] <= timeouts[part]
       /\ timeouts[part] <= attempt - 1 + (IF mode = "plain" /\ ~failed THEN Attempts - 1 ELSE 0)
  <2>1. answer[part] # "taken" BY <1>1, <1>2 DEF DInv, NotYetTaken
  <2>2. copies[part] \in Nat /\ timeouts[part] \in Nat /\ attempt \in 1..Attempts
    BY <1>1, <1>2, <1>4 DEF TypeOK
  <2>3. copies[part] <= timeouts[part]
    BY <1>2, <2>1, <2>2 DEF DInv, FewCopies, CopiesNeedTimeouts
  <2>4. QED BY <1>2, <2>2, <2>3 DEF DInv, FewTries
<1>15. CopiesBounded'
  <2>1. \A p \in Parts : MostCopies(p)' = MostCopies(p) BY <1>3 DEF MostCopies
  <2>2. copies'[part] <= copies[part] + 1 /\ copies'[part] \in Nat BY <1>2, <1>4, <1>14
  <2>3. copies'[part] <= MostCopies(part)
    <3>1. CASE part > chunks
      <4>1. attempt = 1 /\ mode = "markdown" BY <1>2, <3>1 DEF DInv, FewTries, IsPhoto
      <4>2. MostCopies(part) = 1 BY <1>1, <3>1 DEF MostCopies
      <4>3. QED BY <1>14, <2>2, <4>1, <4>2
    <3>2. CASE part <= chunks /\ failed
      <4>1. MostCopies(part) = Attempts BY <1>1, <3>2 DEF MostCopies
      <4>2. QED BY <1>14, <2>2, <3>2, <4>1 DEF Attempts
    <3>3. CASE part <= chunks /\ ~failed
      <4>1. MostCopies(part) = 2 * Attempts - 1 BY <1>1, <3>3 DEF MostCopies
      <4>2. QED BY <1>14, <2>2, <3>3, <4>1 DEF Attempts
    <3>4. QED BY <1>1, <3>1, <3>2, <3>3
  <2>4. QED BY <1>4, <2>1, <2>3 DEF DInv, FewCopies, CopiesBounded
<1>16. FewTries'
  <2>1. failed => chunks = 1 /\ images = 0 /\ mode = "plain" BY <1>2 DEF DInv, FewTries
  <2>2. CASE NextPart
    <3>1. /\ part' = part + 1 /\ mode' = "markdown" /\ attempt' = 1
          /\ failed => pc' = "stopping"
      BY <1>1, <1>2, <2>1, <2>2 DEF NextPart, Finish
    <3>2. part' \in Parts => timeouts'[part'] = 0
      BY <1>1, <1>4, <3>1 DEF DInv, InOrder, Parts
    <3>3. QED BY <1>3, <1>6, <2>1, <3>1, <3>2 DEF FewTries
  <2>3. CASE Raise
    <3>1. pc' = IF failed THEN "stopping" ELSE "raised" BY <2>3 DEF Raise, Finish
    <3>2. QED BY <1>3, <2>1, <3>1 DEF FewTries
  <2>4. CASE TryAgain /\ ~Last /\ ~IsPhoto
    <3>1. /\ attempt' = attempt + 1 /\ pc' = "sending" /\ part' = part /\ mode' = mode
          /\ ~IsPhoto'
      BY <1>2, <1>3, <2>4 DEF TryAgain, IsPhoto
    <3>2. timeouts'[part] <= timeouts[part] + 1 /\ timeouts'[part] \in Nat BY <1>2, <1>4, <1>14
    <3>3. timeouts'[part] <= attempt' - 1 + (IF mode = "plain" /\ ~failed THEN Attempts - 1 ELSE 0)
      BY <1>14, <3>1, <3>2 DEF Attempts
    <3>4. QED BY <1>3, <2>1, <3>1, <3>3 DEF FewTries
  <2>5. CASE what = "rejected" /\ FallBack /\ mode = "markdown" /\ ~IsPhoto
    <3>1. /\ attempt' = 1 /\ pc' = "sending" /\ part' = part /\ mode' = "plain" /\ ~failed
          /\ ~IsPhoto'
      BY <1>2, <1>3, <2>1, <2>5 DEF FallBack, IsPhoto
    <3>2. timeouts'[part] <= Attempts - 1 BY <1>4, <1>14, <2>5 DEF Attempts
    <3>3. QED BY <1>3, <3>1, <3>2 DEF FewTries, Attempts
  <2>6. QED BY <2>2, <2>3, <2>4, <2>5
<1>17. QED BY <1>8, <1>9, <1>10, <1>11, <1>12, <1>13, <1>15, <1>16 DEF DInv, FewCopies

LEMMA SendKeeps ==
  ASSUME DInv, Send
  PROVE  DInv'
<1>1. CASE Taken BY <1>1, HeardKeeps DEF Taken
<1>2. CASE Flood BY <1>2, HeardKeeps DEF Flood
<1>3. CASE Network
  <2>1. PICK arrived \in BOOLEAN : Heard("network", arrived) BY <1>3 DEF Network
  <2>2. Raise \/ (TryAgain /\ ~Last /\ ~IsPhoto) BY <1>3 DEF Network
  <2>3. QED BY <2>1, <2>2, HeardKeeps
<1>4. CASE Rejected
  <2>1. Heard("rejected", FALSE) BY <1>4 DEF Rejected
  <2>2. \/ Raise \/ (TryAgain /\ ~Last /\ ~IsPhoto)
        \/ FallBack /\ mode = "markdown" /\ ~IsPhoto
    <3>1. CASE IsPhoto BY <1>4, <3>1, Zenon DEF Rejected
    <3>2. CASE ~IsPhoto /\ ~Last BY <1>4, <3>2, Zenon DEF Rejected
    <3>3. CASE ~IsPhoto /\ Last /\ mode = "markdown" BY <1>4, <3>3, Zenon DEF Rejected
    <3>4. CASE ~IsPhoto /\ Last /\ mode = "plain" BY <1>4, <3>4, Zenon DEF Rejected
    <3>5. QED BY <3>1, <3>2, <3>3, <3>4 DEF DInv, TypeOK
  <2>3. QED BY <2>1, <2>2, HeardKeeps
<1>5. CASE Other BY <1>5, HeardKeeps DEF Other
<1>6. QED BY <1>1, <1>2, <1>3, <1>4, <1>5 DEF Send

-----------------------------------------------------------------------------
\* The theorems.

(***************************************************************************)
(* The inductive invariant: parts are passed in order, each one taken or   *)
(* put off, and none is tried again once it was taken.                     *)
(***************************************************************************)
THEOREM DeliveryInvariance == Spec => []DInv
<1>1. Init => DInv BY InitDInv
<1>2. DInv /\ [Next]_vars => DInv'
  BY QuietKeeps, SendKeeps DEF Next, Over
<1>3. QED BY <1>1, <1>2, PTL DEF Spec

(***************************************************************************)
(* What a delivery that returns has not got taken, flood control put off   *)
(* (LostOnlyToFlood).                                                      *)
(***************************************************************************)
THEOREM LostOnlyToFloodCorrect == Spec => []LostOnlyToFlood
<1>1. DInv => LostOnlyToFlood
  <2> SUFFICES ASSUME DInv, pc = "returned", NEW p \in ToSend
               PROVE  answer[p] \in {"taken", "flood"}
    BY DEF LostOnlyToFlood
  <2>1. p \in Parts /\ p < part
    BY DeliveryAssumption DEF DInv, AllPassed, TypeOK, ToSend, Parts
  <2>2. QED BY <2>1 DEF DInv, InOrder
<1>2. QED BY <1>1, DeliveryInvariance, PTL

(***************************************************************************)
(* A second copy needs an attempt of unknown outcome, and there are five   *)
(* copies at most of a chunk, three of an error text, and one of a photo   *)
(* (FewCopies).                                                            *)
(***************************************************************************)
THEOREM FewCopiesCorrect == Spec => []FewCopies
<1>1. DInv => FewCopies BY DEF DInv
<1>2. QED BY <1>1, DeliveryInvariance, PTL

(***************************************************************************)
(* No typing action follows a reply (QuietWhileReplying).                  *)
(***************************************************************************)
THEOREM QuietWhileReplyingCorrect == Spec => []QuietWhileReplying
<1>1. DInv => QuietWhileReplying BY DEF DInv, IndicatorFirst, QuietWhileReplying
<1>2. QED BY <1>1, DeliveryInvariance, PTL

-----------------------------------------------------------------------------

(***************************************************************************)
(* Turns: for any number of turns at once, model calls, images and time.   *)
(* What a turn counted is a sum over its requests, so the sums come first; *)
(* a sum is a recursive function, and facts about it are proved by looking *)
(* at the first place where they would fail.                               *)
(***************************************************************************)

IsSumOf(g, s, N) == g = [n \in 0..N |-> IF n = 0 THEN 0 ELSE g[n - 1] + s[n]]

\* Two sums of the same numbers agree: there is no first place where they differ.
LEMMA SumUnique ==
  ASSUME NEW N \in Nat, NEW s, NEW g, NEW h, IsSumOf(g, s, N), IsSumOf(h, s, N)
  PROVE  g = h
<1> DEFINE S == {n \in 0..N : g[n] # h[n]}
<1>1. \A n \in 0..N : /\ g[n] = IF n = 0 THEN 0 ELSE g[n - 1] + s[n]
                      /\ h[n] = IF n = 0 THEN 0 ELSE h[n - 1] + s[n]
  BY DEF IsSumOf
<1>2. S = {}
  <2> SUFFICES ASSUME S # {} PROVE FALSE
    OBVIOUS
  <2>1. PICK m \in S : \A n \in S : m <= n
    <3>1. S \in SUBSET Nat
      OBVIOUS
    <3> HIDE DEF S
    <3> QED BY <3>1, LeastNumber
  <2>2. m \in 0..N /\ g[m] # h[m] /\ m # 0
    BY <2>1, <1>1
  <2>3. m - 1 \in 0..N /\ m - 1 \notin S
    BY <2>1, <2>2
  <2> QED BY <2>2, <2>3, <1>1
<1>3. g = [n \in 0..N |-> g[n]] /\ h = [n \in 0..N |-> h[n]]
  BY DEF IsSumOf
<1> QED BY <1>2, <1>3

LEMMA SumExists ==
  ASSUME NEW N \in Nat, NEW s
  PROVE  \E g : IsSumOf(g, s, N)
<1> DEFINE S == {n \in 0..N : ~ \E g : IsSumOf(g, s, n)}
<1>1. S = {}
  <2> SUFFICES ASSUME S # {} PROVE FALSE
    OBVIOUS
  <2>1. PICK m \in S : \A n \in S : m <= n
    <3>1. S \in SUBSET Nat
      OBVIOUS
    <3> HIDE DEF S
    <3> QED BY <3>1, LeastNumber
  <2>2. CASE m = 0
    <3>1. IsSumOf([n \in 0..0 |-> 0], s, 0)
      BY DEF IsSumOf
    <3> QED BY <2>1, <2>2, <3>1
  <2>3. CASE m # 0
    <3>1. m \in 1..N /\ m - 1 \in 0..N /\ m - 1 \notin S
      BY <2>1, <2>3
    <3>2. PICK g : IsSumOf(g, s, m - 1)
      BY <3>1
    <3>3. \A n \in 0..(m - 1) : g[n] = IF n = 0 THEN 0 ELSE g[n - 1] + s[n]
      BY <3>2 DEF IsSumOf
    <3> DEFINE h == [n \in 0..m |-> IF n = m THEN g[m - 1] + s[m] ELSE g[n]]
    <3>4. \A n \in 0..m : h[n] = IF n = 0 THEN 0 ELSE h[n - 1] + s[n]
      BY <3>1, <3>3
    <3>5. h = [n \in 0..m |-> IF n = 0 THEN 0 ELSE h[n - 1] + s[n]]
      <4>1. h = [n \in 0..m |-> h[n]]
        OBVIOUS
      <4> HIDE DEF h
      <4> QED BY <4>1, <3>4
    <3>6. IsSumOf(h, s, m)
      <4> HIDE DEF h
      <4> QED BY <3>5 DEF IsSumOf
    <3> QED BY <3>6, <2>1
  <2> QED BY <2>2, <2>3
<1>2. N \in 0..N
  OBVIOUS
<1> QED BY <1>1, <1>2

LEMMA TotalIsSum ==
  ASSUME NEW s, Len(s) \in Nat
  PROVE  \E g : IsSumOf(g, s, Len(s)) /\ Total(s) = g[Len(s)]
<1> DEFINE g == CHOOSE g : IsSumOf(g, s, Len(s))
<1>1. IsSumOf(g, s, Len(s))
  BY SumExists
<1>2. Total(s) = g[Len(s)]
  BY DEF Total, IsSumOf
<1> QED BY <1>1, <1>2

LEMMA SumType ==
  ASSUME NEW N \in Nat, NEW s, \A n \in 1..N : s[n] \in Nat, NEW g, IsSumOf(g, s, N)
  PROVE  \A n \in 0..N : g[n] \in Nat
<1> DEFINE S == {n \in 0..N : g[n] \notin Nat}
<1>1. \A n \in 0..N : g[n] = IF n = 0 THEN 0 ELSE g[n - 1] + s[n]
  BY DEF IsSumOf
<1>2. S = {}
  <2> SUFFICES ASSUME S # {} PROVE FALSE
    OBVIOUS
  <2>1. PICK m \in S : \A n \in S : m <= n
    <3>1. S \in SUBSET Nat
      OBVIOUS
    <3> HIDE DEF S
    <3> QED BY <3>1, LeastNumber
  <2>2. m \in 1..N /\ g[m] \notin Nat
    BY <2>1, <1>1
  <2>3. g[m - 1] \in Nat
    BY <2>1, <2>2
  <2> QED BY <2>2, <2>3, <1>1
<1> QED BY <1>2

LEMMA TotalType ==
  ASSUME NEW s \in Seq(Nat)
  PROVE  Total(s) \in Nat
<1>1. Len(s) \in Nat /\ \A n \in 1..Len(s) : s[n] \in Nat
  BY LenProperties, ElementOfSeq
<1>2. PICK g : IsSumOf(g, s, Len(s)) /\ Total(s) = g[Len(s)]
  BY <1>1, TotalIsSum
<1> QED BY <1>1, <1>2, SumType

\* One number grows by x, and with it the sum.
LEMMA TotalChanged ==
  ASSUME NEW s \in Seq(Nat), NEW s2 \in Seq(Nat), Len(s2) = Len(s),
         NEW r \in 1..Len(s), NEW x \in Nat,
         \A n \in 1..Len(s) : s2[n] = IF n = r THEN s[n] + x ELSE s[n]
  PROVE  Total(s2) = Total(s) + x
<1> DEFINE N == Len(s)
<1>1. N \in Nat /\ \A n \in 1..N : s[n] \in Nat
  BY LenProperties, ElementOfSeq
<1>2. PICK g : IsSumOf(g, s, N) /\ Total(s) = g[N]
  BY <1>1, TotalIsSum
<1>3. PICK h : IsSumOf(h, s2, N) /\ Total(s2) = h[N]
  BY <1>1, TotalIsSum
<1> DEFINE k == [n \in 0..N |-> IF n < r THEN g[n] ELSE g[n] + x]
<1> HIDE DEF N
<1>4. r \in 1..N /\ \A n \in 1..N : s2[n] = IF n = r THEN s[n] + x ELSE s[n]
  BY DEF N
<1>5. \A n \in 0..N : g[n] \in Nat /\ g[n] = IF n = 0 THEN 0 ELSE g[n - 1] + s[n]
  BY <1>1, <1>2, SumType DEF IsSumOf
<1>6. ASSUME NEW n \in 0..N PROVE k[n] = IF n = 0 THEN 0 ELSE k[n - 1] + s2[n]
  <2>1. CASE n = 0
    BY <2>1, <1>4, <1>5
  <2>2. CASE n # 0
    <3>1. n \in Int /\ n \in 1..N /\ n - 1 \in 0..N /\ r \in Int
      BY <2>2, <1>1, <1>4
    <3>2. g[n] = g[n - 1] + s[n] /\ g[n - 1] \in Nat
      BY <2>2, <3>1, <1>5
    <3>3. s[n] \in Nat /\ s2[n] = IF n = r THEN s[n] + x ELSE s[n]
      BY <3>1, <1>1, <1>4
    <3>4. k[n] = (IF n < r THEN g[n] ELSE g[n] + x)
          /\ k[n - 1] = (IF n - 1 < r THEN g[n - 1] ELSE g[n - 1] + x)
      BY <3>1
    <3>5. \A a, b \in Nat : a + b + x = a + (b + x) /\ a + b + x = a + x + b
      <4>1. x \in Nat
        OBVIOUS
      <4> QED BY <4>1
    <3>6. CASE n = r
      <4>1. k[n] = g[n - 1] + s[n] + x /\ k[n - 1] = g[n - 1] /\ s2[n] = s[n] + x
        BY <3>6, <3>1, <3>2, <3>3, <3>4
      <4> HIDE DEF k
      <4> QED BY <4>1, <2>2, <3>2, <3>3, <3>5
    <3>7. CASE n < r
      <4>1. k[n] = g[n - 1] + s[n] /\ k[n - 1] = g[n - 1] /\ s2[n] = s[n]
        BY <3>7, <3>1, <3>2, <3>3, <3>4
      <4> HIDE DEF k
      <4> QED BY <4>1, <2>2
    <3>8. CASE r < n
      <4>1. k[n] = g[n - 1] + s[n] + x /\ k[n - 1] = g[n - 1] + x /\ s2[n] = s[n]
        BY <3>8, <3>1, <3>2, <3>3, <3>4
      <4> HIDE DEF k
      <4> QED BY <4>1, <2>2, <3>2, <3>3, <3>5
    <3> QED BY <3>1, <3>6, <3>7, <3>8
  <2> QED BY <2>1, <2>2
<1>7. k = [n \in 0..N |-> k[n]] /\ k[N] = g[N] + x
  BY <1>1, <1>4
<1>8. IsSumOf(k, s2, N)
  <2> HIDE DEF k
  <2> QED BY <1>6, <1>7 DEF IsSumOf
<1> HIDE DEF k
<1>9. k = h
  BY <1>1, <1>3, <1>8, SumUnique
<1> QED BY <1>2, <1>3, <1>7, <1>9

\* A nought at the end does not change the sum.
LEMMA TotalAppended ==
  ASSUME NEW s \in Seq(Nat)
  PROVE  Total(Append(s, 0)) = Total(s)
<1> DEFINE N == Len(s)
           s2 == Append(s, 0)
<1>1. N \in Nat /\ (\A n \in 1..N : s[n] \in Nat) /\ s2 \in Seq(Nat) /\ Len(s2) = N + 1
      /\ (\A n \in 1..N : s2[n] = s[n]) /\ s2[N + 1] = 0
  BY LenProperties, ElementOfSeq, AppendProperties
<1>2. PICK g : IsSumOf(g, s, N) /\ Total(s) = g[N]
  BY <1>1, TotalIsSum
<1> HIDE DEF N, s2
<1>3. PICK h : IsSumOf(h, s2, N + 1) /\ Total(s2) = h[N + 1]
  BY <1>1, TotalIsSum
<1> DEFINE k == [n \in 0..(N + 1) |-> IF n = N + 1 THEN g[N] ELSE g[n]]
<1>4. \A n \in 0..N : g[n] \in Nat /\ g[n] = IF n = 0 THEN 0 ELSE g[n - 1] + s[n]
  BY <1>1, <1>2, SumType DEF IsSumOf
<1>5. ASSUME NEW n \in 0..(N + 1) PROVE k[n] = IF n = 0 THEN 0 ELSE k[n - 1] + s2[n]
  <2>1. CASE n = 0
    BY <2>1, <1>1, <1>4
  <2>2. CASE n \in 1..N
    <3>1. n - 1 \in 0..N /\ n \in 0..N /\ n # N + 1 /\ n - 1 # N + 1 /\ n # 0
      BY <2>2, <1>1
    <3> QED BY <2>2, <3>1, <1>1, <1>4
  <2>3. CASE n = N + 1
    <3>1. N \in 0..N /\ N # N + 1 /\ n # 0 /\ n - 1 = N /\ n - 1 \in 0..(N + 1)
      BY <2>3, <1>1
    <3>2. k[n] = g[N] /\ k[n - 1] = g[N] /\ g[N] \in Nat
      BY <2>3, <3>1, <1>4
    <3> QED BY <2>3, <3>1, <3>2, <1>1
  <2> QED BY <2>1, <2>2, <2>3, <1>1
<1>6. k = [n \in 0..(N + 1) |-> k[n]] /\ k[N + 1] = g[N]
  BY <1>1
<1>7. IsSumOf(k, s2, N + 1)
  <2> HIDE DEF k
  <2> QED BY <1>5, <1>6 DEF IsSumOf
<1> HIDE DEF k
<1>8. k = h
  BY <1>1, <1>3, <1>7, SumUnique
<1> QED BY <1>2, <1>3, <1>6, <1>8 DEF s2

LEMMA FunctionIsSeq ==
  ASSUME NEW S, NEW n \in Nat, NEW s \in [1..n -> S]
  PROVE  s \in Seq(S) /\ Len(s) = n
<1>1. s = [i \in 1..n |-> s[i]] /\ \A i \in 1..n : s[i] \in S
  OBVIOUS
<1>2. s \in Seq(S)
  BY SeqDef
<1> QED BY <1>2, LenProperties

\* A number that is nowhere but nought adds up to nought.
LEMMA TotalOfNoughts ==
  ASSUME NEW s \in Seq(Nat), \A n \in 1..Len(s) : s[n] = 0
  PROVE  Total(s) = 0
<1> DEFINE N == Len(s)
           k == [n \in 0..N |-> 0]
<1>1. N \in Nat
  BY LenProperties
<1>2. PICK g : IsSumOf(g, s, N) /\ Total(s) = g[N]
  BY <1>1, TotalIsSum
<1>3. IsSumOf(k, s, N)
  <2>1. \A n \in 0..N : k[n] = IF n = 0 THEN 0 ELSE k[n - 1] + s[n]
    BY <1>1
  <2>2. k = [n \in 0..N |-> k[n]]
    OBVIOUS
  <2> HIDE DEF k
  <2> QED BY <2>1, <2>2 DEF IsSumOf
<1>4. k[N] = 0
  BY <1>1
<1> HIDE DEF N, k
<1> QED BY <1>1, <1>2, <1>3, <1>4, SumUnique

-----------------------------------------------------------------------------
\* What the type says of one turn, one request, one drawing.

LEMMA TurnTypes ==
  ASSUME TurnTypeOK
  PROVE  /\ {MaxTurns, MaxRequests, MaxDrawings, MaxTime} \subseteq Nat
         /\ turns \in [1..Len(turns) -> TurnState] /\ Len(turns) \in 0..MaxTurns
         /\ requests \in [1..Len(requests) -> Request] /\ Len(requests) \in 0..MaxRequests
         /\ drawings \in [1..Len(drawings) -> Image] /\ Len(drawings) \in 0..MaxDrawings
         /\ DOMAIN turns = 1..Len(turns) /\ DOMAIN requests = 1..Len(requests)
         /\ DOMAIN drawings = 1..Len(drawings)
         /\ \A t \in DOMAIN turns : turns[t] \in TurnState
         /\ \A r \in DOMAIN requests : requests[r] \in Request
         /\ \A i \in DOMAIN drawings : drawings[i] \in Image
<1>1. {MaxTurns, MaxRequests, MaxDrawings, MaxTime} \subseteq Nat
  BY TurnAssumption
<1>2. turns \in [1..Len(turns) -> TurnState] /\ Len(turns) \in 0..MaxTurns
  BY <1>1, LenProperties DEF TurnTypeOK
<1>3. requests \in [1..Len(requests) -> Request] /\ Len(requests) \in 0..MaxRequests
  BY <1>1, LenProperties DEF TurnTypeOK
<1>4. drawings \in [1..Len(drawings) -> Image] /\ Len(drawings) \in 0..MaxDrawings
  BY <1>1, LenProperties DEF TurnTypeOK
<1> QED BY <1>1, <1>2, <1>3, <1>4

LEMMA EndedFinite ==
  ASSUME TurnTypeOK, NEW t
  PROVE  IsFiniteSet(HasEnded(t)) /\ Cardinality(HasEnded(t)) \in Nat /\ Durations(t) \in Seq(Nat)
         /\ Len(Durations(t)) = Len(requests) /\ Total(Durations(t)) \in Nat
<1>1. Len(requests) \in Nat /\ DOMAIN requests = 1..Len(requests)
      /\ \A r \in DOMAIN requests : requests[r] \in Request
  BY TurnTypes
<1>2. IsFiniteSet(HasEnded(t))
  <2>1. HasEnded(t) \in SUBSET (1..Len(requests)) /\ IsFiniteSet(1..Len(requests))
    BY <1>1, FS_Interval DEF HasEnded
  <2> QED BY <2>1, FS_Subset
<1>3. Durations(t) \in [1..Len(requests) -> Nat]
  BY <1>1 DEF Durations, Request
<1>4. Durations(t) \in Seq(Nat) /\ Len(Durations(t)) = Len(requests)
  BY <1>1, <1>3, FunctionIsSeq
<1> QED BY <1>2, <1>4, FS_CardinalityType, TotalType

\* As long as no request ends and none is made, nothing is to be counted.
LEMMA SameEnded ==
  ASSUME DOMAIN requests' = DOMAIN requests,
         \A r \in DOMAIN requests :
           /\ requests'[r].turn = requests[r].turn /\ requests'[r].took = requests[r].took
           /\ requests'[r].pc = "ended" <=> requests[r].pc = "ended"
  PROVE  \A t : HasEnded(t)' = HasEnded(t) /\ Durations(t)' = Durations(t)
<1>1. TAKE t
<1>2. HasEnded(t)' = HasEnded(t)
  BY DEF HasEnded
<1> QED BY <1>2 DEF Durations

\* A start noted, a start taken off.
LEMMA StartedType ==
  ASSUME TurnTypeOK, NEW t \in DOMAIN turns, NEW r \in 1..MaxRequests
  PROVE  /\ Started(t, r) \in Starts /\ DOMAIN Started(t, r) = DOMAIN turns[t].starts \cup {r}
         /\ \A q \in DOMAIN turns[t].starts \cup {r} :
              Started(t, r)[q] = IF q = r THEN time ELSE turns[t].starts[q]
         /\ Popped(t, r) \in Starts /\ DOMAIN Popped(t, r) = DOMAIN turns[t].starts \ {r}
         /\ \A q \in DOMAIN turns[t].starts \ {r} : Popped(t, r)[q] = turns[t].starts[q]
<1> DEFINE s == turns[t].starts
<1>1. s \in Starts /\ time \in 0..MaxTime
  BY TurnTypes DEF TurnTypeOK, TurnState
<1>2. PICK rs \in SUBSET (1..MaxRequests) : s \in [rs -> 0..MaxTime]
  BY <1>1 DEF Starts
<1>3. DOMAIN s = rs /\ \A q \in rs : s[q] \in 0..MaxTime
  BY <1>2
<1> HIDE DEF s
<1>4. Started(t, r) \in [rs \cup {r} -> 0..MaxTime] /\ Popped(t, r) \in [rs \ {r} -> 0..MaxTime]
  BY <1>1, <1>3 DEF Started, Popped, s
<1>5. rs \cup {r} \in SUBSET (1..MaxRequests) /\ rs \ {r} \in SUBSET (1..MaxRequests)
  BY <1>2
<1>6. Started(t, r) \in Starts /\ Popped(t, r) \in Starts
  BY <1>4, <1>5 DEF Starts
<1> QED BY <1>3, <1>6 DEF Started, Popped, s

-----------------------------------------------------------------------------
\* The initial state and each step.

LEMMA TurnInitTInv == TurnInit => TurnInv
<1> SUFFICES ASSUME TurnInit PROVE TurnInv
  OBVIOUS
<1>1. turns = <<>> /\ requests = <<>> /\ drawings = <<>> /\ time = 0 /\ rows = {}
  BY DEF TurnInit
<1>2. /\ turns \in Seq(TurnState) /\ requests \in Seq(Request) /\ drawings \in Seq(Image)
      /\ Len(turns) = 0 /\ Len(requests) = 0 /\ Len(drawings) = 0
      /\ DOMAIN turns = {} /\ DOMAIN requests = {} /\ DOMAIN drawings = {}
  BY <1>1, EmptySeq, LenProperties
<1>3. TurnTypeOK
  BY <1>1, <1>2, TurnAssumption DEF TurnTypeOK
<1> QED BY <1>1, <1>2, <1>3
        DEF TurnInv, OneMainCall, ImagesOwn, CallsCounted, MetricsOwn, OverIsOver

LEMMA BeginTurnTInv ==
  ASSUME TurnInv, BeginTurn
  PROVE  TurnInv'
<1> DEFINE T == Len(turns) + 1
           new == [pc |-> "running", starts |-> [r \in {} |-> 0], skipped |-> {}, calls |-> 0,
                   seconds |-> 0, box |-> {}]
<1>1. TurnTypeOK /\ T \in 1..MaxTurns
      /\ UNCHANGED <<requests, drawings, time, rows>> /\ turns' = Append(turns, new)
  BY TurnTypes DEF TurnInv, BeginTurn
<1>2. new \in TurnState /\ new.pc = "running" /\ new.calls = 0 /\ new.seconds = 0
      /\ new.box = {}
  <2>1. [r \in {} |-> 0] \in [{} -> 0..MaxTime] /\ {} \in SUBSET (1..MaxRequests)
    OBVIOUS
  <2>2. [r \in {} |-> 0] \in Starts
    BY <2>1 DEF Starts
  <2> QED BY <2>2 DEF TurnState
<1> HIDE DEF new
<1>3. /\ turns' \in Seq(TurnState) /\ Len(turns') = T /\ DOMAIN turns' = DOMAIN turns \cup {T}
      /\ T \notin DOMAIN turns /\ turns'[T] = new
      /\ \A t \in DOMAIN turns : turns'[t] = turns[t]
  <2>1. turns \in Seq(TurnState) /\ Len(turns) \in Nat /\ DOMAIN turns = 1..Len(turns)
    BY <1>1, TurnTypes DEF TurnTypeOK
  <2>2. turns' \in Seq(TurnState) /\ Len(turns') = T /\ turns'[T] = new
        /\ \A t \in 1..Len(turns) : turns'[t] = turns[t]
    BY <1>1, <1>2, <2>1, AppendProperties
  <2>3. DOMAIN turns' = 1..T
    BY <2>2, LenProperties
  <2> QED BY <2>1, <2>2, <2>3
<1>4. TurnTypeOK'
  BY <1>1, <1>3 DEF TurnTypeOK
<1>5. \A t : HasEnded(t)' = HasEnded(t) /\ Durations(t)' = Durations(t)
  BY <1>1, SameEnded
<1>6. /\ \A r \in DOMAIN requests : requests[r].turn \in DOMAIN turns
      /\ \A i \in DOMAIN drawings : drawings[i].turn \in DOMAIN turns
  BY DEF TurnInv, CallsCounted, OverIsOver
<1>7. HasEnded(T) = {}
  BY <1>3, <1>6 DEF HasEnded
<1>8. Cardinality(HasEnded(T)) = 0 /\ Total(Durations(T)) = 0
  <2>1. Durations(T) \in Seq(Nat) /\ Len(Durations(T)) = Len(requests)
        /\ DOMAIN requests = 1..Len(requests)
    BY <1>1, EndedFinite, TurnTypes
  <2>2. \A n \in DOMAIN requests : Durations(T)[n] = 0
    BY <1>7 DEF Durations
  <2> QED BY <1>7, <2>1, <2>2, TotalOfNoughts, FS_EmptySet
<1>9. MetricsOwn'
  BY <1>2, <1>3, <1>5, <1>8 DEF TurnInv, MetricsOwn
<1>10. ImagesOwn'
  BY <1>1, <1>2, <1>3, <1>6 DEF TurnInv, ImagesOwn
<1>11. OneMainCall' /\ CallsCounted'
  BY <1>1, <1>3, <1>6 DEF TurnInv, OneMainCall, CallsCounted
<1>12. DOMAIN turns' \ Running' = DOMAIN turns \ Running
  BY <1>2, <1>3 DEF Running
<1>13. \A t : Busy(t)' = Busy(t)
  BY <1>1 DEF Busy
<1>14. OverIsOver'
  BY <1>1, <1>3, <1>12, <1>13 DEF TurnInv, OverIsOver
<1> QED BY <1>4, <1>9, <1>10, <1>11, <1>14 DEF TurnInv

LEMMA BeginRequestTInv ==
  ASSUME TurnInv, NEW t \in Running, NEW first \in {"deciding", "main"}, BeginRequest(t, first)
  PROVE  TurnInv'
<1> DEFINE R == Len(requests) + 1
           new == [turn |-> t, pc |-> first, start |-> time, took |-> 0,
                   mains |-> IF first = "main" THEN 1 ELSE 0]
<1>1. TurnTypeOK /\ R \in 1..MaxRequests /\ t \in DOMAIN turns /\ turns[t].pc = "running"
      /\ UNCHANGED <<drawings, time, rows>> /\ requests' = Append(requests, new)
      /\ time \in 0..MaxTime /\ t \in 1..MaxTurns
  BY TurnTypes DEF TurnInv, BeginRequest, Running, TurnTypeOK
<1>2. new \in Request /\ new.turn = t /\ new.pc = first /\ new.start = time /\ new.took = 0
      /\ new.mains = IF first = "main" THEN 1 ELSE 0
  BY <1>1, TurnTypes DEF Request
<1> HIDE DEF new
<1>3. /\ requests' \in Seq(Request) /\ Len(requests') = R /\ requests'[R] = new
      /\ DOMAIN requests' = DOMAIN requests \cup {R} /\ R \notin DOMAIN requests
      /\ \A r \in DOMAIN requests : requests'[r] = requests[r]
  <2>1. requests \in Seq(Request) /\ Len(requests) \in Nat /\ DOMAIN requests = 1..Len(requests)
    BY <1>1, TurnTypes DEF TurnTypeOK
  <2>2. requests' \in Seq(Request) /\ Len(requests') = R /\ requests'[R] = new
        /\ \A r \in 1..Len(requests) : requests'[r] = requests[r]
    BY <1>1, <1>2, <2>1, AppendProperties
  <2>3. DOMAIN requests' = 1..R
    BY <2>2, LenProperties
  <2> QED BY <2>1, <2>2, <2>3
<1>4. /\ DOMAIN turns' = DOMAIN turns
      /\ turns' \in [1..Len(turns) -> TurnState]
      /\ \A u \in DOMAIN turns :
           /\ turns'[u].pc = turns[u].pc /\ turns'[u].calls = turns[u].calls
           /\ turns'[u].seconds = turns[u].seconds /\ turns'[u].box = turns[u].box
           /\ \A q \in DOMAIN turns[u].starts \ {R} :
                q \in DOMAIN turns'[u].starts /\ turns'[u].starts[q] = turns[u].starts[q]
      /\ first = "main" => R \in DOMAIN turns'[t].starts /\ turns'[t].starts[R] = time
  <2>1. turns' = [turns EXCEPT ![t].starts = IF first = "main" THEN Started(t, R) ELSE @,
                               ![t].skipped = IF first = "main" THEN @ ELSE @ \cup {R}]
    BY DEF BeginRequest
  <2>2. turns \in [1..Len(turns) -> TurnState] /\ turns[t] \in TurnState
    BY <1>1, TurnTypes
  <2>3. /\ Started(t, R) \in Starts /\ DOMAIN Started(t, R) = DOMAIN turns[t].starts \cup {R}
        /\ \A q \in DOMAIN turns[t].starts \cup {R} :
              Started(t, R)[q] = IF q = R THEN time ELSE turns[t].starts[q]
    BY <1>1, StartedType
  <2> QED BY <1>1, <2>1, <2>2, <2>3 DEF TurnState
<1>5. TurnTypeOK'
  <2>1. turns' \in Seq(TurnState) /\ Len(turns') = Len(turns)
    BY <1>1, <1>4, TurnTypes, FunctionIsSeq
  <2> QED BY <1>1, <1>3, <2>1, TurnTypes DEF TurnTypeOK
<1>6. \A u : HasEnded(u)' = HasEnded(u)
  BY <1>2, <1>3 DEF HasEnded
<1>7. ASSUME NEW u PROVE Total(Durations(u))' = Total(Durations(u))
  <2>1. Durations(u)' = Append(Durations(u), 0)
    <3>1. Durations(u) \in Seq(Nat) /\ Len(Durations(u)) = Len(requests)
          /\ Len(requests) \in Nat /\ DOMAIN requests = 1..Len(requests)
      BY <1>1, EndedFinite, TurnTypes
    <3>2. Append(Durations(u), 0) \in Seq(Nat) /\ Len(Append(Durations(u), 0)) = R
          /\ Append(Durations(u), 0)[R] = 0
          /\ \A r \in 1..Len(requests) : Append(Durations(u), 0)[r] = Durations(u)[r]
      BY <3>1, AppendProperties
    <3>3. R \notin HasEnded(u)
      BY <1>3 DEF HasEnded
    <3>4. Durations(u)' = [r \in DOMAIN requests \cup {R} |->
                             IF r \in HasEnded(u) THEN requests'[r].took ELSE 0]
      BY <1>3, <1>6 DEF Durations
    <3>5. \A r \in 1..R : Durations(u)'[r] = Append(Durations(u), 0)[r]
      <4>1. \A r \in 1..R : r \in 1..Len(requests) \/ r = R
        BY <3>1
      <4>2. \A r \in 1..Len(requests) : Durations(u)'[r] = Durations(u)[r]
        BY <1>3, <3>1, <3>4 DEF Durations
      <4>3. Durations(u)'[R] = 0
        BY <3>3, <3>4
      <4> QED BY <4>1, <4>2, <4>3, <3>2
    <3>6. Durations(u)' \in Seq(Nat) /\ Len(Durations(u)') = R
      <4>1. Durations(u)' \in [1..R -> Nat]
        <5>1. DOMAIN requests \cup {R} = 1..R
          BY <3>1
        <5>2. \A r \in DOMAIN requests : requests'[r].took \in Nat
          BY <1>1, <1>3, TurnTypes DEF Request
        <5> QED BY <3>3, <3>4, <5>1, <5>2 DEF HasEnded
      <4> QED BY <4>1, <3>1, FunctionIsSeq
    <3> QED BY <3>2, <3>5, <3>6, SeqEqual
  <2>2. Total(Durations(u))' = Total(Durations(u)')
    BY DEF Total
  <2> QED BY <1>1, <2>1, <2>2, EndedFinite, TotalAppended
<1>8. MetricsOwn'
  BY <1>4, <1>6, <1>7 DEF TurnInv, MetricsOwn
<1>9. OneMainCall' /\ CallsCounted'
  <2>1. \A r \in DOMAIN requests : r # R /\ requests[r].turn \in DOMAIN turns
    BY <1>3 DEF TurnInv, CallsCounted
  <2>2. OneMainCall'
    BY <1>2, <1>3 DEF TurnInv, OneMainCall
  <2>3. ASSUME NEW r \in DOMAIN requests'
        PROVE  LET q == requests'[r]
               IN  /\ q.turn \in DOMAIN turns'
                   /\ q.pc = "deciding" => q.mains = 0
                   /\ q.pc = "main" => /\ q.mains = 1
                                       /\ r \in DOMAIN turns'[q.turn].starts
                                       /\ turns'[q.turn].starts[r] = q.start /\ q.start <= time'
    <3>1. CASE r = R
      BY <3>1, <1>1, <1>2, <1>3, <1>4
    <3>2. CASE r # R
      <4>1. r \in DOMAIN requests /\ requests'[r] = requests[r] /\ time' = time
        BY <3>2, <1>1, <1>3
      <4> QED BY <3>2, <4>1, <1>4 DEF TurnInv, CallsCounted
    <3> QED BY <3>1, <3>2
  <2> QED BY <2>2, <2>3 DEF CallsCounted
<1>10. ImagesOwn'
  BY <1>1, <1>4 DEF TurnInv, ImagesOwn
<1>11. OverIsOver'
  <2>1. Running' = Running
    BY <1>4 DEF Running
  <2>2. \A u \in DOMAIN turns \ Running : Busy(u)' => Busy(u)
    BY <1>1, <1>2, <1>3 DEF Busy
  <2> QED BY <1>1, <1>4, <2>1, <2>2 DEF TurnInv, OverIsOver
<1> QED BY <1>5, <1>8, <1>9, <1>10, <1>11 DEF TurnInv

LEMMA CallMainTInv ==
  ASSUME TurnInv, NEW r \in DOMAIN requests, requests[r].pc = "deciding",
         NEW skipped \in SUBSET (1..MaxRequests), CallMain(r, skipped)
  PROVE  TurnInv'
<1> DEFINE T == requests[r].turn
<1>1. TurnTypeOK /\ T \in DOMAIN turns /\ requests[r].mains = 0
      /\ UNCHANGED <<drawings, time, rows>>
      /\ r \in 1..MaxRequests /\ time \in 0..MaxTime
  BY TurnTypes DEF TurnInv, CallsCounted, CallMain, TurnTypeOK
<1>2. /\ requests' \in [1..Len(requests) -> Request] /\ DOMAIN requests' = DOMAIN requests
      /\ \A q \in DOMAIN requests : q # r => requests'[q] = requests[q]
      /\ requests'[r].turn = T /\ requests'[r].pc = "main" /\ requests'[r].mains = 1
      /\ requests'[r].start = time /\ requests'[r].took = requests[r].took
  <2>1. requests' = [requests EXCEPT ![r].pc = "main", ![r].mains = @ + 1, ![r].start = time]
    BY DEF CallMain
  <2>2. requests \in [1..Len(requests) -> Request] /\ requests[r] \in Request
    BY <1>1, TurnTypes
  <2>3. time \in Nat /\ r \in 1..Len(requests) /\ requests[r].mains + 1 = 1
    BY <1>1, TurnTypes
  <2>4. requests' = [requests EXCEPT ![r] = [requests[r] EXCEPT !.pc = "main", !.mains = 1, !.start = time]]
    BY <2>1, <2>2, <2>3
  <2>5. [requests[r] EXCEPT !.pc = "main", !.mains = 1, !.start = time] \in Request
    BY <2>2, <2>3 DEF Request
  <2> QED BY <2>2, <2>3, <2>4, <2>5 DEF Request
<1>3. /\ DOMAIN turns' = DOMAIN turns /\ turns' \in [1..Len(turns) -> TurnState]
      /\ \A u \in DOMAIN turns :
           /\ turns'[u].pc = turns[u].pc /\ turns'[u].calls = turns[u].calls
           /\ turns'[u].seconds = turns[u].seconds /\ turns'[u].box = turns[u].box
           /\ \A q \in DOMAIN turns[u].starts \ {r} :
                q \in DOMAIN turns'[u].starts /\ turns'[u].starts[q] = turns[u].starts[q]
      /\ r \in DOMAIN turns'[T].starts /\ turns'[T].starts[r] = time
  <2>1. turns' = [turns EXCEPT ![T].starts = Started(T, r), ![T].skipped = skipped]
    BY DEF CallMain
  <2>2. turns \in [1..Len(turns) -> TurnState] /\ turns[T] \in TurnState
    BY <1>1, TurnTypes
  <2>3. /\ Started(T, r) \in Starts /\ DOMAIN Started(T, r) = DOMAIN turns[T].starts \cup {r}
        /\ \A q \in DOMAIN turns[T].starts \cup {r} :
              Started(T, r)[q] = IF q = r THEN time ELSE turns[T].starts[q]
    BY <1>1, StartedType
  <2> HIDE DEF T
  <2> QED BY <1>1, <2>1, <2>2, <2>3 DEF TurnState
<1>4. TurnTypeOK'
  <2>1. Len(turns) \in Nat /\ Len(requests) \in Nat
    BY <1>1, TurnTypes
  <2>2. turns' \in Seq(TurnState) /\ Len(turns') = Len(turns)
    BY <1>3, <2>1, FunctionIsSeq
  <2>3. requests' \in Seq(Request) /\ Len(requests') = Len(requests)
    BY <1>2, <2>1, FunctionIsSeq
  <2> QED BY <1>1, <2>2, <2>3 DEF TurnTypeOK
<1>5. \A t : HasEnded(t)' = HasEnded(t) /\ Durations(t)' = Durations(t)
  <2>1. \A q \in DOMAIN requests :
           /\ requests'[q].turn = requests[q].turn /\ requests'[q].took = requests[q].took
           /\ requests'[q].pc = "ended" <=> requests[q].pc = "ended"
    BY <1>2
  <2> QED BY <1>2, <2>1, SameEnded
<1>6. MetricsOwn'
  BY <1>3, <1>5 DEF TurnInv, MetricsOwn
<1>7. OneMainCall'
  BY <1>2 DEF TurnInv, OneMainCall
<1>8. CallsCounted'
  <2>1. ASSUME NEW q \in DOMAIN requests, q # r
        PROVE  /\ requests'[q].turn \in DOMAIN turns'
               /\ requests'[q].pc = "deciding" => requests'[q].mains = 0
               /\ requests'[q].pc = "main" =>
                    /\ requests'[q].mains = 1
                    /\ q \in DOMAIN turns'[requests'[q].turn].starts
                    /\ turns'[requests'[q].turn].starts[q] = requests'[q].start
                    /\ requests'[q].start <= time'
    <3>1. /\ requests'[q] = requests[q] /\ requests[q].turn \in DOMAIN turns
          /\ requests[q].pc = "deciding" => requests[q].mains = 0
          /\ requests[q].pc = "main" =>
               /\ requests[q].mains = 1
               /\ q \in DOMAIN turns[requests[q].turn].starts \ {r}
               /\ turns[requests[q].turn].starts[q] = requests[q].start
               /\ requests[q].start <= time
      BY <2>1, <1>2 DEF TurnInv, CallsCounted
    <3>2. DOMAIN turns' = DOMAIN turns /\ time' = time
      BY <1>1, <1>3
    <3>3. CASE requests[q].pc = "main"
      <4>1. /\ q \in DOMAIN turns'[requests[q].turn].starts
            /\ turns'[requests[q].turn].starts[q] = requests[q].start
        BY <3>1, <3>3, <1>3
      <4> QED BY <3>1, <3>2, <3>3, <4>1
    <3> QED BY <3>1, <3>2, <3>3
  <2>2. /\ requests'[r].turn \in DOMAIN turns' /\ requests'[r].pc = "main"
        /\ requests'[r].mains = 1 /\ r \in DOMAIN turns'[requests'[r].turn].starts
        /\ turns'[requests'[r].turn].starts[r] = requests'[r].start
        /\ requests'[r].start <= time'
    BY <1>1, <1>2, <1>3, TurnTypes
  <2> QED BY <1>2, <2>1, <2>2 DEF CallsCounted
<1>9. ImagesOwn'
  BY <1>1, <1>3 DEF TurnInv, ImagesOwn
<1>10. OverIsOver'
  <2>1. Running' = Running
    BY <1>3 DEF Running
  <2>2. \A u : Busy(u)' => Busy(u)
    BY <1>1, <1>2 DEF Busy
  <2> QED BY <1>1, <1>3, <2>1, <2>2 DEF TurnInv, OverIsOver
<1> QED BY <1>4, <1>6, <1>7, <1>8, <1>9, <1>10 DEF TurnInv

LEMMA MainAnswersTInv ==
  ASSUME TurnInv, NEW r \in DOMAIN requests, MainAnswers(r)
  PROVE  TurnInv'
<1> DEFINE T == requests[r].turn
           d == time - requests[r].start
<1>1. /\ TurnTypeOK /\ T \in DOMAIN turns /\ requests[r].pc = "main"
      /\ requests[r].mains = 1 /\ r \in DOMAIN turns[T].starts
      /\ turns[T].starts[r] = requests[r].start /\ d \in Nat
      /\ UNCHANGED <<drawings, time, rows>>
      /\ r \in 1..MaxRequests /\ time \in 0..MaxTime
  <2>1. TurnTypeOK /\ requests[r].pc = "main" /\ UNCHANGED <<drawings, time, rows>>
    BY DEF TurnInv, MainAnswers
  <2>2. T \in DOMAIN turns /\ requests[r].mains = 1 /\ r \in DOMAIN turns[T].starts
        /\ turns[T].starts[r] = requests[r].start /\ requests[r].start <= time
    BY <2>1 DEF TurnInv, CallsCounted
  <2>3. requests[r].start \in Nat /\ r \in 1..MaxRequests /\ MaxTime \in Nat
    BY <2>1, TurnTypes DEF Request
  <2>4. time \in 0..MaxTime
    BY <2>1 DEF TurnTypeOK
  <2> QED BY <2>1, <2>2, <2>3, <2>4
<1>2. /\ requests' \in [1..Len(requests) -> Request] /\ DOMAIN requests' = DOMAIN requests
      /\ \A q \in DOMAIN requests : q # r => requests'[q] = requests[q]
      /\ requests'[r].turn = T /\ requests'[r].pc = "ended" /\ requests'[r].mains = 1
      /\ requests'[r].took = d
  <2>1. requests' = [requests EXCEPT ![r].pc = "ended", ![r].took = d]
    BY DEF MainAnswers
  <2>2. requests \in [1..Len(requests) -> Request] /\ requests[r] \in Request
    BY <1>1, TurnTypes
  <2> HIDE DEF d
  <2> QED BY <1>1, <2>1, <2>2 DEF Request
<1>3. /\ DOMAIN turns' = DOMAIN turns /\ turns' \in [1..Len(turns) -> TurnState]
      /\ \A u \in DOMAIN turns :
           /\ turns'[u].pc = turns[u].pc /\ turns'[u].box = turns[u].box
           /\ \A q \in DOMAIN turns[u].starts \ {r} :
                q \in DOMAIN turns'[u].starts /\ turns'[u].starts[q] = turns[u].starts[q]
      /\ \A u \in DOMAIN turns \ {T} : turns'[u] = turns[u]
      /\ turns'[T].calls = turns[T].calls + 1 /\ turns'[T].seconds = turns[T].seconds + d
  <2>1. turns' = [turns EXCEPT ![T].starts = Popped(T, r), ![T].calls = @ + 1,
                               ![T].seconds = @ + d]
    BY <1>1 DEF MainAnswers, Elapsed
  <2>2. turns \in [1..Len(turns) -> TurnState] /\ turns[T] \in TurnState
    BY <1>1, TurnTypes
  <2>3. /\ Popped(T, r) \in Starts /\ DOMAIN Popped(T, r) = DOMAIN turns[T].starts \ {r}
        /\ \A q \in DOMAIN turns[T].starts \ {r} : Popped(T, r)[q] = turns[T].starts[q]
    BY <1>1, StartedType
  <2>4. turns[T].calls + 1 \in Nat /\ turns[T].seconds + d \in Nat
    BY <1>1, <2>2 DEF TurnState
  <2> HIDE DEF T, d
  <2> QED BY <1>1, <2>1, <2>2, <2>3, <2>4 DEF TurnState
<1>4. TurnTypeOK'
  <2>1. Len(turns) \in Nat /\ Len(requests) \in Nat
    BY <1>1, TurnTypes
  <2>2. turns' \in Seq(TurnState) /\ Len(turns') = Len(turns)
    BY <1>3, <2>1, FunctionIsSeq
  <2>3. requests' \in Seq(Request) /\ Len(requests') = Len(requests)
    BY <1>2, <2>1, FunctionIsSeq
  <2> QED BY <1>1, <2>2, <2>3 DEF TurnTypeOK
<1>5. HasEnded(T)' = HasEnded(T) \cup {r} /\ r \notin HasEnded(T)
      /\ \A u : u # T => HasEnded(u)' = HasEnded(u)
  BY <1>1, <1>2 DEF HasEnded
<1>6. Cardinality(HasEnded(T)') = Cardinality(HasEnded(T)) + 1
  BY <1>1, <1>5, EndedFinite, FS_AddElement
<1>7. ASSUME NEW u, u # T PROVE Durations(u)' = Durations(u)
  BY <1>2, <1>5, <1>7 DEF Durations, HasEnded
<1>8. Total(Durations(T)') = Total(Durations(T)) + d
  <2>1. Durations(T) \in Seq(Nat) /\ Len(Durations(T)) = Len(requests)
        /\ Len(requests) \in Nat /\ DOMAIN requests = 1..Len(requests)
        /\ \A q \in DOMAIN requests : requests[q] \in Request
    BY <1>1, EndedFinite, TurnTypes
  <2>2. Durations(T)' = [q \in DOMAIN requests |->
                           IF q = r THEN d ELSE IF q \in HasEnded(T) THEN requests[q].took ELSE 0]
    BY <1>2, <1>5 DEF Durations
  <2> HIDE DEF d
  <2>3. Durations(T)' \in [1..Len(requests) -> Nat]
    BY <1>1, <2>1, <2>2 DEF Request
  <2>4. Durations(T)' \in Seq(Nat) /\ Len(Durations(T)') = Len(requests)
    BY <2>1, <2>3, FunctionIsSeq
  <2>5. \A q \in 1..Len(requests) :
          Durations(T)'[q] = IF q = r THEN Durations(T)[q] + d ELSE Durations(T)[q]
    BY <1>1, <1>5, <2>1, <2>2 DEF Durations
  <2> QED BY <1>1, <2>1, <2>4, <2>5, TotalChanged
<1>9. \A u : Total(Durations(u))' = Total(Durations(u)')
  BY DEF Total
<1>10. MetricsOwn'
  <2>1. \A u \in DOMAIN turns : turns[u].calls = Cardinality(HasEnded(u))
                               /\ turns[u].seconds = Total(Durations(u))
    BY DEF TurnInv, MetricsOwn
  <2>2. turns'[T].calls = Cardinality(HasEnded(T)') /\ turns'[T].seconds = Total(Durations(T)')
    BY <1>1, <1>3, <1>6, <1>8, <2>1
  <2>3. ASSUME NEW u \in DOMAIN turns \ {T}
        PROVE  turns'[u].calls = Cardinality(HasEnded(u)') /\ turns'[u].seconds = Total(Durations(u)')
    BY <1>3, <1>5, <1>7, <2>1
  <2>4. \A u \in DOMAIN turns' :
           turns'[u].calls = Cardinality(HasEnded(u)') /\ turns'[u].seconds = Total(Durations(u)')
    <3> HIDE DEF T
    <3>1. DOMAIN turns' = DOMAIN turns
      BY <1>3
    <3>3. ASSUME NEW u \in DOMAIN turns
          PROVE  turns'[u].calls = Cardinality(HasEnded(u)') /\ turns'[u].seconds = Total(Durations(u)')
      <4>1. CASE u = T
        <5>1. T' = T
          BY <1>2 DEF T
        <5> QED BY <4>1, <5>1, <2>2
      <4>2. CASE u # T
        BY <4>2, <2>3
      <4> QED BY <4>1, <4>2
    <3> QED BY <3>1, <3>3
  <2> QED BY <1>9, <2>4 DEF MetricsOwn
<1>11. OneMainCall'
  BY <1>2 DEF TurnInv, OneMainCall
<1>12. CallsCounted'
  BY <1>1, <1>2, <1>3 DEF TurnInv, CallsCounted
<1>13. ImagesOwn'
  BY <1>1, <1>3 DEF TurnInv, ImagesOwn
<1>14. OverIsOver'
  <2>1. Running' = Running
    BY <1>3 DEF Running
  <2>2. \A u : Busy(u)' => Busy(u)
    BY <1>1, <1>2 DEF Busy
  <2>3. Busy(T)
    BY <1>1 DEF Busy
  <2>4. T \in Running
    BY <1>1, <2>3 DEF TurnInv, OverIsOver
  <2> QED BY <1>1, <1>3, <2>1, <2>2, <2>4 DEF TurnInv, OverIsOver
<1> QED BY <1>4, <1>10, <1>11, <1>12, <1>13, <1>14 DEF TurnInv

\* Neither a failing main call nor a drawing that goes on or fails tells the metrics.
LEMMA MainFailsTInv ==
  ASSUME TurnInv, NEW r \in DOMAIN requests, MainFails(r)
  PROVE  TurnInv'
<1>1. /\ TurnTypeOK /\ requests[r].pc = "main" /\ requests[r].mains = 1
      /\ UNCHANGED <<turns, drawings, time, rows>>
  BY DEF TurnInv, MainFails, CallsCounted
<1>2. /\ requests' \in [1..Len(requests) -> Request] /\ DOMAIN requests' = DOMAIN requests
      /\ \A q \in DOMAIN requests : q # r => requests'[q] = requests[q]
      /\ requests'[r].turn = requests[r].turn /\ requests'[r].pc = "failed"
      /\ requests'[r].mains = 1 /\ requests'[r].took = requests[r].took
  <2>1. requests' = [requests EXCEPT ![r].pc = "failed"]
    BY DEF MainFails
  <2>2. requests \in [1..Len(requests) -> Request] /\ requests[r] \in Request
    BY <1>1, TurnTypes
  <2> QED BY <1>1, <2>1, <2>2 DEF Request
<1>3. TurnTypeOK'
  <2>1. requests' \in Seq(Request) /\ Len(requests') = Len(requests)
    BY <1>1, <1>2, TurnTypes, FunctionIsSeq
  <2> QED BY <1>1, <2>1 DEF TurnTypeOK
<1>4. \A t : HasEnded(t)' = HasEnded(t) /\ Durations(t)' = Durations(t)
  BY <1>1, <1>2, SameEnded
<1>5. MetricsOwn'
  BY <1>1, <1>4 DEF TurnInv, MetricsOwn
<1>6. OneMainCall' /\ CallsCounted'
  BY <1>1, <1>2 DEF TurnInv, OneMainCall, CallsCounted
<1>7. ImagesOwn'
  BY <1>1 DEF TurnInv, ImagesOwn
<1>8. OverIsOver'
  <2>1. Running' = Running
    BY <1>1 DEF Running
  <2>2. \A u : Busy(u)' => Busy(u)
    BY <1>1, <1>2 DEF Busy
  <2> QED BY <1>1, <2>1, <2>2 DEF TurnInv, OverIsOver
<1> QED BY <1>3, <1>5, <1>6, <1>7, <1>8 DEF TurnInv

LEMMA DrawTInv ==
  ASSUME TurnInv, NEW t \in Running, Draw(t)
  PROVE  TurnInv'
<1> DEFINE D == Len(drawings) + 1
           new == [turn |-> t, pc |-> "drawing"]
<1>1. TurnTypeOK /\ D \in 1..MaxDrawings /\ t \in DOMAIN turns /\ t \in 1..MaxTurns
      /\ UNCHANGED <<turns, requests, time, rows>> /\ drawings' = Append(drawings, new)
  BY TurnTypes DEF TurnInv, Draw, Running
<1>2. new \in Image /\ new.turn = t /\ new.pc = "drawing"
  BY <1>1 DEF Image
<1> HIDE DEF new
<1>3. /\ drawings' \in Seq(Image) /\ Len(drawings') = D /\ drawings'[D] = new
      /\ DOMAIN drawings' = DOMAIN drawings \cup {D} /\ D \notin DOMAIN drawings
      /\ \A i \in DOMAIN drawings : drawings'[i] = drawings[i]
  <2>1. drawings \in Seq(Image) /\ Len(drawings) \in Nat /\ DOMAIN drawings = 1..Len(drawings)
    BY <1>1, TurnTypes DEF TurnTypeOK
  <2>2. drawings' \in Seq(Image) /\ Len(drawings') = D /\ drawings'[D] = new
        /\ \A i \in 1..Len(drawings) : drawings'[i] = drawings[i]
    BY <1>1, <1>2, <2>1, AppendProperties
  <2>3. DOMAIN drawings' = 1..D
    BY <2>2, LenProperties
  <2> QED BY <2>1, <2>2, <2>3
<1>4. TurnTypeOK'
  BY <1>1, <1>3 DEF TurnTypeOK
<1>5. \A u : HasEnded(u)' = HasEnded(u) /\ Durations(u)' = Durations(u)
  BY <1>1, SameEnded
<1>6. MetricsOwn' /\ OneMainCall' /\ CallsCounted'
  BY <1>1, <1>5 DEF TurnInv, MetricsOwn, OneMainCall, CallsCounted
<1>7. ImagesOwn'
  BY <1>1, <1>2, <1>3 DEF TurnInv, ImagesOwn
<1>8. OverIsOver'
  <2>1. Running' = Running /\ t \in Running
    BY <1>1 DEF Running
  <2>2. \A u \in DOMAIN turns \ Running : Busy(u)' => Busy(u)
    BY <1>1, <1>2, <1>3 DEF Busy
  <2>3. \A i \in DOMAIN drawings' : drawings'[i].turn \in DOMAIN turns
    BY <1>1, <1>2, <1>3 DEF TurnInv, OverIsOver
  <2> QED BY <1>1, <2>1, <2>2, <2>3 DEF TurnInv, OverIsOver
<1> QED BY <1>4, <1>6, <1>7, <1>8 DEF TurnInv

\* A drawing comes to an end, with its image in the box of its turn or without one.
LEMMA ImageTInv ==
  ASSUME TurnInv, NEW i \in DOMAIN drawings, ImageArrives(i) \/ ImageFails(i)
  PROVE  TurnInv'
<1> DEFINE T == drawings[i].turn
<1>1. /\ TurnTypeOK /\ T \in DOMAIN turns /\ i \in 1..MaxDrawings
      /\ drawings[i].pc = "drawing" /\ UNCHANGED <<requests, time, rows>>
  BY TurnTypes DEF TurnInv, OverIsOver, ImageArrives, ImageFails
<1>2. /\ drawings' \in [1..Len(drawings) -> Image] /\ DOMAIN drawings' = DOMAIN drawings
      /\ \A j \in DOMAIN drawings : j # i => drawings'[j] = drawings[j]
      /\ drawings'[i].turn = T
      /\ drawings'[i].pc = IF ImageArrives(i) THEN "generated" ELSE "error"
  <2>1. drawings \in [1..Len(drawings) -> Image] /\ drawings[i] \in Image
    BY <1>1, TurnTypes
  <2>2. drawings' = [drawings EXCEPT ![i].pc = IF ImageArrives(i) THEN "generated" ELSE "error"]
    BY DEF ImageArrives, ImageFails
  <2> QED BY <2>1, <2>2 DEF Image
<1>3. /\ DOMAIN turns' = DOMAIN turns /\ turns' \in [1..Len(turns) -> TurnState]
      /\ \A u \in DOMAIN turns :
           /\ turns'[u].pc = turns[u].pc /\ turns'[u].calls = turns[u].calls
           /\ turns'[u].seconds = turns[u].seconds /\ turns'[u].starts = turns[u].starts
           /\ turns'[u].box = IF u = T /\ ImageArrives(i) THEN turns[u].box \cup {i}
                              ELSE turns[u].box
  <2>1. turns \in [1..Len(turns) -> TurnState] /\ turns[T] \in TurnState
    BY <1>1, TurnTypes
  <2> HIDE DEF T
  <2>2. CASE ImageArrives(i)
    <3>1. turns' = [turns EXCEPT ![T].box = @ \cup {i}]
      BY <2>2 DEF ImageArrives, Outbox, T
    <3> QED BY <1>1, <2>1, <2>2, <3>1 DEF TurnState
  <2>3. CASE ~ImageArrives(i)
    <3>1. turns' = turns
      BY <2>3 DEF ImageFails
    <3> QED BY <2>1, <2>3, <3>1
  <2> QED BY <2>2, <2>3
<1>4. TurnTypeOK'
  <2>1. Len(turns) \in Nat /\ Len(drawings) \in Nat
    BY <1>1, TurnTypes
  <2>2. turns' \in Seq(TurnState) /\ Len(turns') = Len(turns)
    BY <1>3, <2>1, FunctionIsSeq
  <2>3. drawings' \in Seq(Image) /\ Len(drawings') = Len(drawings)
    BY <1>2, <2>1, FunctionIsSeq
  <2> QED BY <1>1, <2>2, <2>3 DEF TurnTypeOK
<1>5. \A u : HasEnded(u)' = HasEnded(u) /\ Durations(u)' = Durations(u)
  BY <1>1, SameEnded
<1>6. MetricsOwn' /\ OneMainCall' /\ CallsCounted'
  BY <1>1, <1>3, <1>5 DEF TurnInv, MetricsOwn, OneMainCall, CallsCounted
<1>7. ImagesOwn'
  <2>1. ASSUME NEW u \in DOMAIN turns
        PROVE  turns'[u].box = {j \in DOMAIN drawings' :
                                  drawings'[j].turn = u /\ drawings'[j].pc = "generated"}
    <3>1. turns[u].box = {j \in DOMAIN drawings :
                            drawings[j].turn = u /\ drawings[j].pc = "generated"}
      BY DEF TurnInv, ImagesOwn
    <3>2. /\ \A j \in DOMAIN drawings' : drawings'[j].turn = drawings[j].turn
          /\ \A j \in DOMAIN drawings' : drawings'[j].pc = "generated" <=>
               (drawings[j].pc = "generated" \/ (j = i /\ ImageArrives(i)))
      BY <1>1, <1>2
    <3>3. {j \in DOMAIN drawings' : drawings'[j].turn = u /\ drawings'[j].pc = "generated"}
          = turns[u].box \cup {j \in {i} : ImageArrives(i) /\ T = u}
      BY <1>2, <3>1, <3>2
    <3> HIDE DEF T
    <3>4. turns'[u].box = turns[u].box \cup {j \in {i} : ImageArrives(i) /\ T = u}
      BY <1>3
    <3> QED BY <3>3, <3>4
  <2> QED BY <1>3, <2>1 DEF ImagesOwn
<1>8. OverIsOver'
  <2>1. Running' = Running
    BY <1>3 DEF Running
  <2>2. \A u : Busy(u)' => Busy(u)
    BY <1>1, <1>2 DEF Busy
  <2>3. \A j \in DOMAIN drawings' : drawings'[j].turn \in DOMAIN turns
    BY <1>1, <1>2 DEF TurnInv, OverIsOver
  <2> QED BY <1>1, <1>3, <2>1, <2>2, <2>3 DEF TurnInv, OverIsOver
<1> QED BY <1>4, <1>6, <1>7, <1>8 DEF TurnInv

LEMMA AnsweredTInv ==
  ASSUME TurnInv, NEW t \in Running, Answered(t)
  PROVE  TurnInv'
<1>1. /\ TurnTypeOK /\ t \in DOMAIN turns /\ t \in 1..MaxTurns /\ ~Busy(t)
      /\ UNCHANGED <<requests, drawings, time>>
      /\ turns[t].calls \in Nat /\ turns[t].seconds \in Nat
  BY TurnTypes DEF TurnInv, Answered, Running, TurnState
<1>2. /\ DOMAIN turns' = DOMAIN turns /\ turns' \in [1..Len(turns) -> TurnState]
      /\ \A u \in DOMAIN turns :
           /\ turns'[u].calls = turns[u].calls /\ turns'[u].seconds = turns[u].seconds
           /\ turns'[u].starts = turns[u].starts /\ turns'[u].box = turns[u].box
           /\ turns'[u].pc = IF u = t THEN "replied" ELSE turns[u].pc
  <2>1. turns \in [1..Len(turns) -> TurnState] /\ turns[t] \in TurnState
    BY <1>1, TurnTypes
  <2>2. turns' = [turns EXCEPT ![t].pc = "replied"]
    BY DEF Answered
  <2> QED BY <1>1, <2>1, <2>2 DEF TurnState
<1>3. rows \subseteq rows' /\ rows' \subseteq
        rows \cup {[turn |-> t, calls |-> turns[t].calls, seconds |-> turns[t].seconds]}
  BY DEF Answered
<1>4. TurnTypeOK'
  <2>0. Len(turns) \in Nat
    BY <1>1, TurnTypes
  <2>1. turns' \in Seq(TurnState) /\ Len(turns') = Len(turns)
    BY <1>2, <2>0, FunctionIsSeq
  <2>2. [turn |-> t, calls |-> turns[t].calls, seconds |-> turns[t].seconds] \in Row
    BY <1>1 DEF Row
  <2> QED BY <1>1, <1>3, <2>1, <2>2 DEF TurnTypeOK
<1>5. \A u : HasEnded(u)' = HasEnded(u) /\ Durations(u)' = Durations(u)
  BY <1>1, SameEnded
<1>6. MetricsOwn' /\ OneMainCall' /\ CallsCounted'
  BY <1>1, <1>2, <1>5 DEF TurnInv, MetricsOwn, OneMainCall, CallsCounted
<1>7. ImagesOwn'
  BY <1>1, <1>2 DEF TurnInv, ImagesOwn
<1>8. OverIsOver'
  <2>1. DOMAIN turns' \ Running' = (DOMAIN turns \ Running) \cup {t}
    BY <1>1, <1>2 DEF Running
  <2>2. \A u : Busy(u)' = Busy(u)
    BY <1>1 DEF Busy
  <2>3. ASSUME NEW row \in rows'
        PROVE  /\ row.turn \in DOMAIN turns' \ Running'
               /\ row.calls = turns'[row.turn].calls /\ row.seconds = turns'[row.turn].seconds
    <3>1. CASE row \in rows
      BY <3>1, <1>2, <2>1 DEF TurnInv, OverIsOver
    <3>2. CASE row = [turn |-> t, calls |-> turns[t].calls, seconds |-> turns[t].seconds]
      BY <3>2, <1>1, <1>2, <2>1
    <3> QED BY <1>3, <3>1, <3>2
  <2> QED BY <1>1, <1>2, <2>1, <2>2, <2>3 DEF TurnInv, OverIsOver
<1> QED BY <1>4, <1>6, <1>7, <1>8 DEF TurnInv

LEMMA TurnFailsTInv ==
  ASSUME TurnInv, NEW t \in Running, TurnFails(t)
  PROVE  TurnInv'
<1>1. TurnTypeOK /\ t \in DOMAIN turns /\ UNCHANGED <<time, rows>>
  BY DEF TurnInv, TurnFails, Running
<1>2. /\ DOMAIN turns' = DOMAIN turns /\ turns' \in [1..Len(turns) -> TurnState]
      /\ \A u \in DOMAIN turns :
           /\ turns'[u].calls = turns[u].calls /\ turns'[u].seconds = turns[u].seconds
           /\ turns'[u].starts = turns[u].starts /\ turns'[u].box = turns[u].box
           /\ turns'[u].pc = IF u = t THEN "failed" ELSE turns[u].pc
  <2>1. turns \in [1..Len(turns) -> TurnState] /\ turns[t] \in TurnState
    BY <1>1, TurnTypes
  <2>2. turns' = [turns EXCEPT ![t].pc = "failed"]
    BY DEF TurnFails
  <2> QED BY <1>1, <2>1, <2>2 DEF TurnState
<1>3. /\ requests' \in [1..Len(requests) -> Request] /\ DOMAIN requests' = DOMAIN requests
      /\ \A r \in DOMAIN requests :
           /\ requests'[r].turn = requests[r].turn /\ requests'[r].took = requests[r].took
           /\ requests'[r].mains = requests[r].mains /\ requests'[r].start = requests[r].start
           /\ requests'[r].pc = IF requests[r].turn = t /\ requests[r].pc \in {"deciding", "main"}
                                THEN "cancelled" ELSE requests[r].pc
  <2>1. requests' = [r \in DOMAIN requests |->
          IF requests[r].turn = t /\ requests[r].pc \in {"deciding", "main"}
          THEN [requests[r] EXCEPT !.pc = "cancelled"] ELSE requests[r]]
    BY DEF TurnFails
  <2>2. DOMAIN requests = 1..Len(requests) /\ \A r \in DOMAIN requests : requests[r] \in Request
    BY <1>1, TurnTypes
  <2>3. \A r \in DOMAIN requests :
          LET q == [requests[r] EXCEPT !.pc = "cancelled"]
          IN  /\ q \in Request /\ q.pc = "cancelled" /\ q.turn = requests[r].turn
              /\ q.took = requests[r].took /\ q.mains = requests[r].mains
              /\ q.start = requests[r].start
    BY <2>2 DEF Request
  <2> QED BY <2>1, <2>2, <2>3
<1>4. /\ drawings' \in [1..Len(drawings) -> Image] /\ DOMAIN drawings' = DOMAIN drawings
      /\ \A i \in DOMAIN drawings :
           /\ drawings'[i].turn = drawings[i].turn
           /\ drawings'[i].pc = IF drawings[i].turn = t /\ drawings[i].pc = "drawing"
                                THEN "cancelled" ELSE drawings[i].pc
  <2>1. drawings' = [i \in DOMAIN drawings |->
          IF drawings[i].turn = t /\ drawings[i].pc = "drawing"
          THEN [drawings[i] EXCEPT !.pc = "cancelled"] ELSE drawings[i]]
    BY DEF TurnFails
  <2>2. DOMAIN drawings = 1..Len(drawings) /\ \A i \in DOMAIN drawings : drawings[i] \in Image
    BY <1>1, TurnTypes
  <2>3. \A i \in DOMAIN drawings :
          LET d == [drawings[i] EXCEPT !.pc = "cancelled"]
          IN  d \in Image /\ d.pc = "cancelled" /\ d.turn = drawings[i].turn
    BY <2>2 DEF Image
  <2> QED BY <2>1, <2>2, <2>3
<1>5. TurnTypeOK'
  <2>1. Len(turns) \in Nat /\ Len(requests) \in Nat /\ Len(drawings) \in Nat
    BY <1>1, TurnTypes
  <2>2. turns' \in Seq(TurnState) /\ Len(turns') = Len(turns)
    BY <1>2, <2>1, FunctionIsSeq
  <2>3. requests' \in Seq(Request) /\ Len(requests') = Len(requests)
    BY <1>3, <2>1, FunctionIsSeq
  <2>4. drawings' \in Seq(Image) /\ Len(drawings') = Len(drawings)
    BY <1>4, <2>1, FunctionIsSeq
  <2> QED BY <1>1, <2>2, <2>3, <2>4 DEF TurnTypeOK
<1>6. \A u : HasEnded(u)' = HasEnded(u) /\ Durations(u)' = Durations(u)
  BY <1>3, SameEnded
<1>7. MetricsOwn'
  BY <1>2, <1>6 DEF TurnInv, MetricsOwn
<1>8. OneMainCall' /\ CallsCounted'
  <2>1. OneMainCall'
    BY <1>3 DEF TurnInv, OneMainCall
  <2>2. ASSUME NEW r \in DOMAIN requests
        PROVE  /\ requests'[r].turn \in DOMAIN turns
               /\ requests'[r].pc = "deciding" => requests'[r].mains = 0
               /\ requests'[r].pc = "main" =>
                    /\ requests'[r].mains = 1
                    /\ r \in DOMAIN turns'[requests'[r].turn].starts
                    /\ turns'[requests'[r].turn].starts[r] = requests'[r].start
                    /\ requests'[r].start <= time'
    <3>1. requests[r].turn \in DOMAIN turns
      BY DEF TurnInv, CallsCounted
    <3>2. turns'[requests[r].turn].starts = turns[requests[r].turn].starts
      BY <1>2, <3>1
    <3>3. requests'[r].pc \in {"deciding", "main"} => requests[r].pc = requests'[r].pc
      BY <1>3
    <3> QED BY <1>1, <1>3, <3>1, <3>2, <3>3 DEF TurnInv, CallsCounted
  <2> QED BY <1>2, <1>3, <2>1, <2>2 DEF CallsCounted
<1>9. ImagesOwn'
  BY <1>2, <1>4 DEF TurnInv, ImagesOwn
<1>10. OverIsOver'
  <2>1. DOMAIN turns' \ Running' = (DOMAIN turns \ Running) \cup {t}
    BY <1>1, <1>2 DEF Running
  <2>2. (\A u : Busy(u)' => Busy(u)) /\ ~Busy(t)'
    BY <1>3, <1>4 DEF Busy
  <2> QED BY <1>1, <1>2, <1>4, <2>1, <2>2 DEF TurnInv, OverIsOver
<1> QED BY <1>5, <1>7, <1>8, <1>9, <1>10 DEF TurnInv

LEMMA TimeTInv ==
  ASSUME TurnInv, TimePasses \/ UNCHANGED turnVars
  PROVE  TurnInv'
<1>1. /\ TurnTypeOK /\ UNCHANGED <<turns, requests, drawings, rows>>
      /\ time' \in 0..MaxTime /\ time <= time' /\ {time, time', MaxTime} \subseteq Nat
  BY TurnTypes DEF TurnInv, TurnTypeOK, TimePasses, turnVars
<1>2. TurnTypeOK'
  BY <1>1 DEF TurnTypeOK
<1>3. \A u : HasEnded(u)' = HasEnded(u) /\ Durations(u)' = Durations(u)
  BY <1>1, SameEnded
<1>4. \A r \in DOMAIN requests : requests[r].start \in Nat
  BY <1>1, TurnTypes DEF Request
<1>5. MetricsOwn' /\ OneMainCall' /\ ImagesOwn' /\ OverIsOver'
  BY <1>1, <1>3 DEF TurnInv, MetricsOwn, OneMainCall, ImagesOwn, OverIsOver, Running, Busy
<1>6. CallsCounted'
  BY <1>1, <1>4 DEF TurnInv, CallsCounted
<1> QED BY <1>2, <1>5, <1>6 DEF TurnInv

LEMMA TurnNextTInv ==
  ASSUME TurnInv, [TurnNext]_turnVars
  PROVE  TurnInv'
<1>1. CASE BeginTurn
  BY <1>1, BeginTurnTInv
<1>2. ASSUME NEW t \in Running, Draw(t) \/ Answered(t) \/ TurnFails(t)
      PROVE  TurnInv'
  BY <1>2, DrawTInv, AnsweredTInv, TurnFailsTInv
<1>3. ASSUME NEW t \in Running, NEW first \in {"deciding", "main"}, BeginRequest(t, first)
      PROVE  TurnInv'
  BY <1>3, BeginRequestTInv
<1>4. ASSUME NEW r \in DOMAIN requests, DeciderAnswers(r) \/ DeciderFails(r)
      PROVE  TurnInv'
  <2>1. requests[r].turn \in DOMAIN turns /\ TurnTypeOK
    BY DEF TurnInv, CallsCounted
  <2>2. turns[requests[r].turn].skipped \in SUBSET (1..MaxRequests)
    BY <2>1, TurnTypes DEF TurnState
  <2> QED BY <1>4, <2>2, CallMainTInv DEF DeciderAnswers, DeciderFails
<1>5. ASSUME NEW r \in DOMAIN requests, MainAnswers(r) \/ MainFails(r)
      PROVE  TurnInv'
  BY <1>5, MainAnswersTInv, MainFailsTInv
<1>6. ASSUME NEW i \in DOMAIN drawings, ImageArrives(i) \/ ImageFails(i)
      PROVE  TurnInv'
  BY <1>6, ImageTInv
<1>7. CASE TimePasses \/ TurnsRest \/ UNCHANGED turnVars
  BY <1>7, TimeTInv DEF TurnsRest
<1> QED BY <1>1, <1>2, <1>3, <1>4, <1>5, <1>6, <1>7 DEF TurnNext

(***************************************************************************)
(* The inductive invariant of turns: each main call counts once, when it   *)
(* ends, in the turn it belongs to and with its own start, and a turn that *)
(* is over has nothing under way.                                          *)
(***************************************************************************)
THEOREM TurnInvariance == TurnSpec => []TurnInv
<1> QED BY TurnInitTInv, TurnNextTInv, PTL DEF TurnSpec

(***************************************************************************)
(* A request calls the main model once at most, and ends or fails only by  *)
(* that call (OneMainCall), whether or not the decider before it fails.    *)
(***************************************************************************)
THEOREM OneMainCallCorrect == TurnSpec => []OneMainCall
<1>1. TurnInv => OneMainCall
  BY DEF TurnInv
<1> QED BY <1>1, TurnInvariance, PTL

(***************************************************************************)
(* What is written and attached for a turn is of its own calls and images  *)
(* (TurnsApart), for any number of turns whose callbacks interleave.       *)
(***************************************************************************)
THEOREM TurnsApartCorrect == TurnSpec => []TurnsApart
<1>1. TurnInv => TurnsApart
  BY DEF TurnInv, MetricsOwn, OverIsOver, TurnsApart, RowIsTurn, ImagesOwn
<1> QED BY <1>1, TurnInvariance, PTL

-----------------------------------------------------------------------------

(***************************************************************************)
(* The network sampler: for any number of samples and restarts, any        *)
(* counters and any time to keep rows.                                     *)
(***************************************************************************)

LEMMA SamplerInitSInv == SamplerInit => SamplerInv
<1> SUFFICES ASSUME SamplerInit PROVE SamplerInv
  OBVIOUS
<1>1. samples \in Seq(Sample) /\ DOMAIN samples = {}
  BY DEF SamplerInit
<1> QED BY <1>1 DEF SamplerInit, SamplerInv, SamplerTypeOK, SamplesGrow

\* Everything but a round of the loop leaves the kept, and only goes forward.
LEMMA ForwardSInv ==
  ASSUME SamplerInv, Traffic \/ Passes \/ NewLife \/ SamplerRest \/ UNCHANGED samplerVars
  PROVE  SamplerInv'
<1>1. SamplerTypeOK' /\ samples' = samples
  BY DEF SamplerInv, SamplerTypeOK, Traffic, Passes, NewLife, SamplerRest, samplerVars
<1>2. /\ now <= now' /\ bytes <= bytes' /\ bytes - counter <= bytes' - counter'
      /\ {now, bytes, counter, now', bytes', counter'} \subseteq Nat
  BY <1>1 DEF SamplerInv, SamplerTypeOK, Traffic, Passes, NewLife, SamplerRest, samplerVars
<1>3. \A i \in DOMAIN samples : samples[i] \in Sample
  BY ElementOfSeq, LenProperties DEF SamplerInv, SamplerTypeOK
<1>4. SamplesGrow'
  BY <1>1, <1>2, <1>3 DEF SamplerInv, SamplesGrow, NotAfter, Sample
<1> QED BY <1>1, <1>4 DEF SamplerInv

\* A row more at the end.
LEMMA RowAdded ==
  ASSUME SamplerInv, NEW kept,
         kept = Append(samples, [at |-> now, counter |-> counter, bytes |-> bytes])
  PROVE  /\ kept \in Seq(Sample)
         /\ \A i, j \in DOMAIN kept : i <= j => NotAfter(kept[i], kept[j])
         /\ \A i \in DOMAIN kept :
              NotAfter(kept[i], [at |-> now, counter |-> counter, bytes |-> bytes])
<1> DEFINE s == [at |-> now, counter |-> counter, bytes |-> bytes]
<1>1. s \in Sample /\ NotAfter(s, s)
  BY DEF SamplerInv, SamplerTypeOK, Sample, NotAfter
<1>2. samples \in Seq(Sample) /\ Len(samples) \in Nat /\ DOMAIN samples = 1..Len(samples)
  BY LenProperties DEF SamplerInv, SamplerTypeOK
<1>3. /\ \A i, j \in DOMAIN samples : i <= j => NotAfter(samples[i], samples[j])
      /\ \A i \in DOMAIN samples : NotAfter(samples[i], s)
  BY DEF SamplerInv, SamplesGrow
<1> HIDE DEF s
<1>4. /\ kept \in Seq(Sample) /\ DOMAIN kept = 1..(Len(samples) + 1)
      /\ \A i \in DOMAIN samples : kept[i] = samples[i]
      /\ kept[Len(samples) + 1] = s
  BY <1>1, <1>2, AppendProperties, LenProperties DEF s
<1>5. \A i \in DOMAIN kept : i \in DOMAIN samples \/ i = Len(samples) + 1
  BY <1>2, <1>4
<1>6. \A i \in DOMAIN kept : NotAfter(kept[i], s)
  BY <1>1, <1>3, <1>4, <1>5
<1>7. ASSUME NEW i \in DOMAIN kept, NEW j \in DOMAIN kept, i <= j
      PROVE  NotAfter(kept[i], kept[j])
  BY <1>2, <1>3, <1>4, <1>5, <1>6, <1>7
<1> QED BY <1>4, <1>6, <1>7 DEF s

LEMMA RoundSInv ==
  ASSUME SamplerInv, Round
  PROVE  SamplerInv'
<1> DEFINE kept == Append(samples, [at |-> now, counter |-> counter, bytes |-> bytes])
           m == 1 + Cardinality(Old(kept))
<1>1. /\ kept \in Seq(Sample)
      /\ \A i, j \in DOMAIN kept : i <= j => NotAfter(kept[i], kept[j])
      /\ \A i \in DOMAIN kept :
           NotAfter(kept[i], [at |-> now, counter |-> counter, bytes |-> bytes])
  BY RowAdded
<1>2. samples' = kept \/ samples' = SubSeq(kept, m, Len(kept))
  BY DEF Round, Recent
<1>3. /\ tick' \in Nat /\ UNCHANGED <<now, counter, bytes, lives>>
  BY DEF Round, SamplerInv, SamplerTypeOK
<1> HIDE DEF kept
<1>4. Len(kept) \in Nat /\ DOMAIN kept = 1..Len(kept)
  BY <1>1, LenProperties
<1>5. m \in 1..(Len(kept) + 1)
  <2>1. IsFiniteSet(1..Len(kept)) /\ Cardinality(1..Len(kept)) = Len(kept)
    <3>1. Len(kept) - 1 + 1 = Len(kept) /\ (1 > Len(kept) => Len(kept) = 0)
      BY <1>4
    <3> QED BY <3>1, <1>4, FS_Interval
  <2>2. Old(kept) \in SUBSET (1..Len(kept))
    BY <1>4 DEF Old
  <2>3. Cardinality(Old(kept)) \in Nat /\ Cardinality(Old(kept)) <= Len(kept)
    BY <2>1, <2>2, FS_Subset, FS_CardinalityType
  <2> QED BY <2>3, <1>4
<1> HIDE DEF m
<1>6. PICK k \in 0..Len(kept) :
        /\ samples' \in Seq(Sample) /\ DOMAIN samples' = 1..(Len(kept) - k)
        /\ \A i \in DOMAIN samples' : samples'[i] = kept[i + k]
  <2>1. CASE samples' = kept
    <3>1. 0 \in 0..Len(kept)
      BY <1>4
    <3> WITNESS 0 \in 0..Len(kept)
    <3> QED BY <2>1, <1>1, <1>4
  <2>2. CASE samples' = SubSeq(kept, m, Len(kept))
    <3>1. /\ samples' \in Seq(Sample)
          /\ Len(samples') = Len(kept) - (m - 1)
          /\ \A i \in 1..(Len(kept) - (m - 1)) : samples'[i] = kept[m + i - 1]
      BY <2>2, <1>1, <1>4, <1>5, SubSeqProperties
    <3>2. DOMAIN samples' = 1..(Len(kept) - (m - 1)) /\ m - 1 \in 0..Len(kept)
      BY <3>1, <1>4, <1>5, LenProperties
    <3>3. \A i \in DOMAIN samples' : samples'[i] = kept[i + (m - 1)]
      <4> TAKE i \in DOMAIN samples'
      <4>1. i \in Int /\ m + i - 1 = i + (m - 1) /\ i \in 1..(Len(kept) - (m - 1))
        BY <3>2, <1>4, <1>5
      <4> QED BY <3>1, <4>1
    <3> QED BY <3>1, <3>2, <3>3
  <2> QED BY <2>1, <2>2, <1>2
<1>7. \A i \in DOMAIN samples' : i \in Int /\ i + k \in DOMAIN kept
  BY <1>4, <1>6
<1>8. SamplesGrow'
  BY <1>1, <1>3, <1>6, <1>7 DEF SamplesGrow
<1> QED BY <1>3, <1>6, <1>8 DEF SamplerInv, SamplerTypeOK

LEMMA NextSInv == SamplerInv /\ [SamplerNext]_samplerVars => SamplerInv'
BY ForwardSInv, RoundSInv DEF SamplerNext

(***************************************************************************)
(* The inductive invariant of network_sampler: rows are in the order of    *)
(* their times, and the traffic of earlier lives of the container never    *)
(* shrinks from one to the next.                                           *)
(***************************************************************************)
THEOREM SamplerInvariance == SamplerSpec => []SamplerInv
BY SamplerInitSInv, NextSInv, PTL DEF SamplerSpec

(***************************************************************************)
(* The dashboard never shows more traffic between two samples than there   *)
(* was (RatesNeverOverstate), whatever was pruned and however often the    *)
(* counters began again.                                                   *)
(***************************************************************************)
THEOREM RatesNeverOverstateCorrect == SamplerSpec => []RatesNeverOverstate
<1>1. ASSUME SamplerInv PROVE RatesNeverOverstate
  <2> DEFINE m == IF Len(samples) > Shown THEN Len(samples) - Shown ELSE 0
  <2>1. samples \in Seq(Sample) /\ Len(samples) \in Nat /\ DOMAIN samples = 1..Len(samples)
    BY <1>1, LenProperties DEF SamplerInv, SamplerTypeOK
  <2>2. m \in 0..Len(samples)
    BY <2>1, SamplerAssumption
  <2>3. Window = SubSeq(samples, 1 + m, Len(samples))
    BY DEF Window
  <2> HIDE DEF m
  <2>4. /\ Window \in Seq(Sample) /\ Len(Window) = Len(samples) - m
        /\ \A i \in 1..(Len(samples) - m) : Window[i] = samples[m + i]
    <3>1. /\ 1 + m \in 1..(Len(samples) + 1) /\ (1 + m) - 1 = m
          /\ Len(samples) \in (1 + m) - 1 .. Len(samples)
      BY <2>1, <2>2
    <3>2. /\ Window \in Seq(Sample) /\ Len(Window) = Len(samples) - (1 + m) + 1
          /\ \A i \in 1..(Len(samples) - (1 + m) + 1) : Window[i] = samples[(1 + m) + i - 1]
      BY <3>1, <2>1, <2>3, SubSeqProperties
    <3>3. Len(samples) - (1 + m) + 1 = Len(samples) - m
      BY <2>1, <2>2
    <3>4. ASSUME NEW i \in 1..(Len(samples) - m) PROVE Window[i] = samples[m + i]
      <4>1. (1 + m) + i - 1 = m + i
        BY <3>4, <2>1, <2>2
      <4> QED BY <3>2, <3>3, <3>4, <4>1
    <3> QED BY <3>2, <3>3, <3>4
  <2> SUFFICES ASSUME NEW i \in Neighbours
               PROVE  Grown(Window[i].counter, Window[i + 1].counter)
                        <= Window[i + 1].bytes - Window[i].bytes
    BY DEF RatesNeverOverstate
  <2>5. i \in Int /\ i \in 1..(Len(samples) - m) /\ i + 1 \in 1..(Len(samples) - m)
    BY <2>1, <2>2, <2>4 DEF Neighbours
  <2>6. m + i \in DOMAIN samples /\ m + (i + 1) \in DOMAIN samples /\ m + i <= m + (i + 1)
    BY <2>1, <2>2, <2>5
  <2>7. Window[i] = samples[m + i] /\ Window[i + 1] = samples[m + (i + 1)]
    BY <2>4, <2>5
  <2>8. NotAfter(Window[i], Window[i + 1])
    BY <1>1, <2>6, <2>7 DEF SamplerInv, SamplesGrow
  <2>9. Window[i] \in Sample /\ Window[i + 1] \in Sample
    BY <2>1, <2>6, <2>7, ElementOfSeq
  <2> QED BY <2>8, <2>9 DEF NotAfter, Grown, Sample
<1> QED BY <1>1, SamplerInvariance, PTL

-----------------------------------------------------------------------------

(***************************************************************************)
(* The process: for any configuration, and any number of messages and      *)
(* jobs.                                                                   *)
(***************************************************************************)

LEMMA LifecycleInitLInv == LifecycleInit => LifeInv
<1> SUFFICES ASSUME LifecycleInit PROVE LifeInv
  OBVIOUS
<1>1. LifecycleTypeOK
  BY LifecycleAssumption DEF LifecycleInit, LifecycleTypeOK, Mains, NoConfig, Config
<1>2. DOMAIN work = {}
  BY DEF LifecycleInit
<1> QED BY <1>1, <1>2 DEF LifeInv, LifecycleInit, PoolOpen, TelegramFirst, TelegramIdle, JobsLast,
       PoolOutlivesTelegram, AdapterUpAtEnd

\* Steps of amain and of the adapters, which leave the work alone.
LEMMA ProcessLInv ==
  ASSUME LifeInv,
         \/ \E c \in Config : Configure(c)
         \/ Build \/ StartTelegram \/ StartDiscord \/ StartScheduler \/ Signal
         \/ StopPolling \/ StopTelegram \/ FailToStopTelegram \/ StopDiscord \/ Close
         \/ \E outcome \in {"online", "failed"} : LogIn(outcome)
  PROVE  LifeInv'
<1> USE DEF Configure, Build, StartTelegram, StartDiscord, StartScheduler, Signal, StopPolling,
            StopTelegram, FailToStopTelegram, StopDiscord, Close, LogIn, LifecycleTypeOK, Mains
<1>1. LifecycleTypeOK'
  BY DEF LifeInv, PoolOpen
<1>2. work' = work /\ (main # "launched" => config' = config)
  OBVIOUS
<1>3. PoolOpen'
  BY DEF LifeInv, PoolOpen
<1>4. TelegramFirst'
  BY <1>2 DEF LifeInv, TelegramFirst, TelegramIdle, Uses
<1>5. JobsLast'
  <2>1. main = "launched" => DOMAIN work = {}
    BY DEF LifeInv, PoolOpen
  <2> QED BY <1>2, <2>1 DEF LifeInv, JobsLast, Early
<1>6. PoolOutlivesTelegram'
  BY <1>2 DEF LifeInv, TelegramFirst, PoolOutlivesTelegram
<1>7. AdapterUpAtEnd'
  <2>1. main = "launched" => DOMAIN work = {}
    BY DEF LifeInv, PoolOpen
  <2> QED BY <1>2, <2>1 DEF LifeInv, AdapterUpAtEnd
<1> QED BY <1>1, <1>3, <1>4, <1>5, <1>6, <1>7 DEF LifeInv

\* Something arrives.
LEMMA NewWorkLInv ==
  ASSUME LifeInv,
         TelegramUpdate \/ DiscordMessage \/ \E p \in Platforms \cap Enabled(config) : FireJob(p)
  PROVE  LifeInv'
<1>1. PICK kind \in {"turn", "job"}, p \in Platforms, first \in {"waiting", "running"} :
        /\ NewWork(kind, p, first)
        /\ kind = "turn" /\ p = "telegram" => telegram = "polling"
        /\ kind = "job" => scheduler = "running" /\ p \in Enabled(config)
  BY DEF TelegramUpdate, DiscordMessage, FireJob, Platforms
<1> DEFINE w == [kind |-> kind, platform |-> p, pc |-> first, early |-> FALSE, poolClosed |-> FALSE]
<1>2. w \in Work /\ w.kind = kind /\ w.platform = p /\ w.pc = first /\ w.poolClosed = FALSE
  BY DEF Work
<1>3. /\ work' = Append(work, w) /\ Len(work) < MaxWork
      /\ UNCHANGED <<main, config, pool, telegram, discord, scheduler>>
  BY <1>1 DEF NewWork
<1> HIDE DEF w
<1>4. work \in Seq(Work) /\ Len(work) \in Nat /\ DOMAIN work = 1..Len(work)
  BY LenProperties DEF LifeInv, LifecycleTypeOK
<1>5. /\ work' \in Seq(Work) /\ Len(work') = Len(work) + 1 /\ DOMAIN work' = 1..Len(work')
      /\ \A i \in DOMAIN work : work'[i] = work[i]
      /\ work'[Len(work) + 1] = w
  BY <1>2, <1>3, <1>4, AppendProperties, LenProperties
<1>6. DOMAIN work' = DOMAIN work \cup {Len(work) + 1}
  BY <1>4, <1>5
<1>7. main # "launched"
  BY DEF LifeInv, LifecycleTypeOK, PoolOpen, TelegramFirst, TelegramUpdate, DiscordMessage, FireJob
<1>8. LifecycleTypeOK'
  BY <1>3, <1>4, <1>5, LifecycleAssumption DEF LifeInv, LifecycleTypeOK
<1>9. PoolOpen'
  BY <1>3, <1>7 DEF LifeInv, PoolOpen
<1>10. TelegramFirst'
  BY <1>1, <1>2, <1>3, <1>5, <1>6 DEF LifeInv, TelegramFirst, TelegramIdle, Uses
<1>11. JobsLast'
  BY <1>1, <1>2, <1>3, <1>5, <1>6 DEF LifeInv, LifecycleTypeOK, JobsLast, Early
<1>12. PoolOutlivesTelegram'
  BY <1>2, <1>3, <1>5, <1>6 DEF LifeInv, PoolOutlivesTelegram
<1>13. AdapterUpAtEnd'
  BY <1>1, <1>2, <1>3, <1>5, <1>6 DEF LifeInv, AdapterUpAtEnd
<1> QED BY <1>8, <1>9, <1>10, <1>11, <1>12, <1>13 DEF LifeInv

\* One turn or job moves on: it keeps its kind and platform, and ends undelivered
\* only where its adapter is not up.
LEMMA WorkStepLInv ==
  ASSUME LifeInv, NEW i \in DOMAIN work, NEW from \in {"waiting", "running"}, NEW w \in Work,
         WorkStep(i, from, w), w.kind = work[i].kind, w.platform = work[i].platform,
         w.pc # "cut",
         w.pc = "undelivered" => /\ from = "running" /\ ~Reachable(w.platform)
                                 /\ discord \in {"off", "connecting", "failed"} => w.early,
         w.poolClosed => work[i].poolClosed \/ (from = "running" /\ pool = "closed")
  PROVE  LifeInv'
<1>1. work \in Seq(Work) /\ Len(work) \in Nat /\ DOMAIN work = 1..Len(work)
  BY LenProperties DEF LifeInv, LifecycleTypeOK
<1>2. /\ work[i].pc = from /\ main # "exited" /\ work' = [work EXCEPT ![i] = w]
      /\ UNCHANGED <<main, config, pool, telegram, discord, scheduler>>
  BY DEF WorkStep
<1>3. /\ work' \in Seq(Work) /\ Len(work') = Len(work) /\ DOMAIN work' = DOMAIN work
      /\ \A j \in DOMAIN work : work'[j] = IF j = i THEN w ELSE work[j]
  BY <1>1, <1>2, ExceptSeq, LenProperties
<1>4. \A j \in DOMAIN work : /\ work'[j].kind = work[j].kind /\ work'[j].platform = work[j].platform
                             /\ work[j] \in Work
  BY <1>1, <1>3, ElementOfSeq
<1>5. LifecycleTypeOK'
  BY <1>2, <1>3 DEF LifeInv, LifecycleTypeOK
<1>6. PoolOpen'
  BY <1>2, <1>3 DEF LifeInv, PoolOpen
<1>7. TelegramFirst'
  BY <1>2, <1>3, <1>4 DEF LifeInv, TelegramFirst, TelegramIdle, Uses
<1>8. JobsLast'
  BY <1>2, <1>3, <1>4 DEF LifeInv, JobsLast
<1>9. PoolOutlivesTelegram'
  <2> SUFFICES ASSUME telegram # "abandoned", w.poolClosed, ~work[i].poolClosed
               PROVE  w.kind = "job" \/ w.platform = "discord"
    BY <1>2, <1>3, <1>4 DEF LifeInv, PoolOutlivesTelegram
  <2>1. main = "leaving" /\ TelegramIdle /\ work[i].pc = "running"
    BY <1>2 DEF LifeInv, PoolOpen, TelegramFirst
  <2> QED BY <2>1, <1>4 DEF TelegramIdle, Work, Platforms
<1>10. AdapterUpAtEnd'
  <2> SUFFICES ASSUME w.pc = "undelivered", main \in Early
               PROVE  w.platform = "discord" /\ w.early
    BY <1>2, <1>3, <1>4 DEF LifeInv, AdapterUpAtEnd, Early, Work
  <2>1. CASE w.platform = "telegram"
    <3>1. telegram \in {"off", "stopped"} /\ TelegramIdle
      BY <2>1 DEF Reachable, LifeInv, LifecycleTypeOK, TelegramFirst
    <3>2. work[i].kind = "job"
      BY <3>1, <2>1, <1>2, <1>4 DEF TelegramIdle, Work
    <3>3. main = "running" /\ "telegram" \in Enabled(config)
      BY <3>2, <2>1 DEF LifeInv, JobsLast, Early
    <3> QED BY <3>1, <3>3 DEF LifeInv, TelegramFirst, Uses
  <2>2. CASE w.platform = "discord"
    BY <2>2 DEF Reachable, LifeInv, LifecycleTypeOK, TelegramFirst, Early
  <2> QED BY <2>1, <2>2 DEF Work, Platforms
<1> QED BY <1>5, <1>6, <1>7, <1>8, <1>9, <1>10 DEF LifeInv

LEMMA WorkNextLInv ==
  ASSUME LifeInv, NEW i \in DOMAIN work, WorkNext(i)
  PROVE  LifeInv'
<1>1. work[i] \in Work
  BY ElementOfSeq, LenProperties DEF LifeInv, LifecycleTypeOK
<1>2. CASE TakeUpdate(i)
  <2> DEFINE w == [work[i] EXCEPT !.pc = "running"]
  <2>1. w \in Work /\ w.kind = work[i].kind /\ w.platform = work[i].platform /\ w.pc = "running"
        /\ w.poolClosed = work[i].poolClosed
    BY <1>1 DEF Work
  <2>2. WorkStep(i, "waiting", w)
    BY <1>2 DEF TakeUpdate
  <2> HIDE DEF w
  <2> QED BY <2>1, <2>2, WorkStepLInv
<1>3. CASE FindPoolClosed(i)
  <2> DEFINE w == [work[i] EXCEPT !.poolClosed = TRUE]
  <2>1. w \in Work /\ w.kind = work[i].kind /\ w.platform = work[i].platform /\ w.pc = work[i].pc
    BY <1>1 DEF Work
  <2>2. WorkStep(i, "running", w) /\ pool = "closed" /\ work[i].pc = "running"
    BY <1>3 DEF FindPoolClosed, WorkStep
  <2> HIDE DEF w
  <2> QED BY <2>1, <2>2, WorkStepLInv
<1>4. CASE EndWork(i)
  <2>1. PICK q \in Outcomes(work[i].platform) :
          WorkStep(i, "running",
            [work[i] EXCEPT !.pc = q, !.early = discord \in {"off", "connecting", "failed"}])
    BY <1>4 DEF EndWork
  <2>4. /\ q \in {"delivered", "unsent", "undelivered"}
        /\ q = "undelivered" => ~Reachable(work[i].platform)
    BY <2>1 DEF Outcomes
  <2>2. CASE discord \in {"off", "connecting", "failed"}
    <3> DEFINE w == [work[i] EXCEPT !.pc = q, !.early = TRUE]
    <3>1. /\ w \in Work /\ w.kind = work[i].kind /\ w.platform = work[i].platform
          /\ w.pc = q /\ w.early = TRUE /\ w.poolClosed = work[i].poolClosed
      BY <1>1, <2>4 DEF Work
    <3>2. WorkStep(i, "running", w)
      BY <2>1, <2>2
    <3> HIDE DEF w
    <3> QED BY <2>4, <3>1, <3>2, WorkStepLInv
  <2>3. CASE discord \notin {"off", "connecting", "failed"}
    <3> DEFINE w == [work[i] EXCEPT !.pc = q, !.early = FALSE]
    <3>1. /\ w \in Work /\ w.kind = work[i].kind /\ w.platform = work[i].platform
          /\ w.pc = q /\ w.poolClosed = work[i].poolClosed
      BY <1>1, <2>4 DEF Work
    <3>2. WorkStep(i, "running", w)
      <4>1. (discord \in {"off", "connecting", "failed"}) = FALSE
        BY <2>3
      <4> QED BY <2>1, <4>1, Zenon
    <3> HIDE DEF w
    <3> QED BY <2>3, <2>4, <3>1, <3>2, WorkStepLInv
  <2> QED BY <2>2, <2>3
<1> QED BY <1>2, <1>3, <1>4 DEF WorkNext

\* The end, in order or not.
LEMMA ExitLInv ==
  ASSUME LifeInv, Leave \/ Killed
  PROVE  LifeInv'
<1>1. work \in Seq(Work) /\ Len(work) \in Nat /\ DOMAIN work = 1..Len(work)
  BY LenProperties DEF LifeInv, LifecycleTypeOK
<1>2. /\ main' = "exited" /\ work' = CutOff /\ main # "launched"
      /\ UNCHANGED <<config, pool, telegram, discord, scheduler>>
  BY DEF Leave, Killed
<1>3. ASSUME NEW i \in DOMAIN work
      PROVE  /\ work[i] \in Work /\ CutOff[i] \in Work
             /\ CutOff[i].kind = work[i].kind /\ CutOff[i].platform = work[i].platform
             /\ CutOff[i].poolClosed = work[i].poolClosed
             /\ CutOff[i].pc \notin {"waiting", "running"}
  <2>1. work[i] \in Work
    BY <1>1, ElementOfSeq
  <2> QED BY <2>1 DEF CutOff, Work
<1>4. DOMAIN work' = DOMAIN work
  BY <1>2 DEF CutOff
<1>5. CutOff \in Seq(Work) /\ Len(CutOff) = Len(work)
  <2>1. CutOff \in [1..Len(work) -> Work]
    BY <1>1, <1>3 DEF CutOff
  <2> QED BY <2>1, <1>1, IsASeq, LenProperties
<1>6. LifecycleTypeOK'
  BY <1>2, <1>5 DEF LifeInv, LifecycleTypeOK, Mains
<1>7. PoolOpen' /\ TelegramFirst'
  BY <1>2, <1>3, <1>4 DEF LifeInv, PoolOpen, TelegramFirst, TelegramIdle
<1>8. JobsLast' /\ PoolOutlivesTelegram' /\ AdapterUpAtEnd'
  BY <1>2, <1>3, <1>4 DEF LifeInv, JobsLast, Early, PoolOutlivesTelegram, AdapterUpAtEnd
<1> QED BY <1>6, <1>7, <1>8 DEF LifeInv

LEMMA NextLInv == LifeInv /\ [LifecycleNext]_lifeVars => LifeInv'
<1> SUFFICES ASSUME LifeInv, [LifecycleNext]_lifeVars PROVE LifeInv'
  OBVIOUS
<1>1. ASSUME NEW i \in DOMAIN work, WorkNext(i) PROVE LifeInv'
  BY <1>1, WorkNextLInv
<1>2. CASE LifecycleRest \/ UNCHANGED lifeVars
  BY <1>2 DEF LifecycleRest, lifeVars, LifeInv, LifecycleTypeOK, PoolOpen, TelegramFirst, Uses,
              TelegramIdle, JobsLast, PoolOutlivesTelegram, AdapterUpAtEnd
<1> QED BY <1>1, <1>2, ProcessLInv, NewWorkLInv, ExitLInv DEF LifecycleNext, Stopping

(***************************************************************************)
(* The inductive invariant of the process (amain): the pool is open from   *)
(* its start to the close, which comes after Telegram is drained (turns of *)
(* Discord and jobs may outlast it), and jobs come only when everything    *)
(* that is enabled was started.                                            *)
(***************************************************************************)
THEOREM LifecycleInvariance == LifecycleSpec => []LifeInv
BY LifecycleInitLInv, NextLInv, PTL DEF LifecycleSpec

(***************************************************************************)
(* No turn of Telegram finds the pool closed under it                      *)
(* (PoolOutlivesTelegram): adapters are stopped before AppContext.close,   *)
(* and stop drains Telegram; for any number of messages and jobs, in any   *)
(* order.                                                                  *)
(***************************************************************************)
THEOREM PoolOutlivesTelegramCorrect == LifecycleSpec => []PoolOutlivesTelegram
<1>1. LifeInv => PoolOutlivesTelegram
  BY DEF LifeInv
<1> QED BY <1>1, LifecycleInvariance, PTL

(***************************************************************************)
(* From the start to the signal, what comes to its end finds its adapter   *)
(* up, but for a Discord before or without its login, and nothing is cut   *)
(* off (AdapterUpAtEnd): for any configuration and any number of messages  *)
(* and jobs.                                                               *)
(***************************************************************************)
THEOREM AdapterUpAtEndCorrect == LifecycleSpec => []AdapterUpAtEnd
<1>1. LifeInv => AdapterUpAtEnd
  BY DEF LifeInv
<1> QED BY <1>1, LifecycleInvariance, PTL

-----------------------------------------------------------------------------
(***************************************************************************)
(* The agent of MCAgent behaves as each of its parts does, whatever the    *)
(* others do; fairness, which LifecycleSpec states, apart.                 *)
(***************************************************************************)
THEOREM AgentParts ==
  MCSpec => /\ Spec /\ TurnSpec /\ MemorySpec /\ SamplerSpec
            /\ LifecycleInit /\ [][LifecycleNext]_lifeVars
<1>1. MCInit => Init /\ TurnInit /\ MemoryInit /\ SamplerInit /\ LifecycleInit
  BY DEF MCInit
<1>2. [MCNext]_agentVars => /\ [Next]_vars /\ [TurnNext]_turnVars /\ [MemoryNext]_memoryVars
                            /\ [SamplerNext]_samplerVars /\ [LifecycleNext]_lifeVars
  BY DEF MCNext, Delivery, Life, agentVars
<1> QED BY <1>1, <1>2, PTL DEF MCSpec, Spec, TurnSpec, MemorySpec, SamplerSpec

(***************************************************************************)
(* So it keeps the inductive invariants of all of them (AgentInv), for any *)
(* reply, any number of turns, keys, rows, boots and pieces of work.       *)
(***************************************************************************)
THEOREM AgentInvariance == MCSpec => []AgentInv
<1>1. MCSpec => []LifeInv
  BY AgentParts, LifecycleInitLInv, NextLInv, PTL
<1>2. DInv /\ TurnInv /\ MemoryInv /\ ListInv /\ SamplerInv /\ LifeInv => AgentInv
  BY DEF AgentInv
<1> QED BY <1>1, <1>2, AgentParts, DeliveryInvariance, TurnInvariance, MemoryInvariance,
           ListingInvariance, SamplerInvariance, PTL

=============================================================================
